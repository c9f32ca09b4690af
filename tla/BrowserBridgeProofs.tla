------------------------ MODULE BrowserBridgeProofs ------------------------
(* Theorems about BrowserBridge for any number of commands and any capacity *)
(* of its map and queues.                                                   *)
EXTENDS BrowserBridge, SequenceTheorems, FiniteSetTheorems, TLAPS

-----------------------------------------------------------------------------
(* Types.                                                                   *)

LEMMA SequenceTypes ==
  ASSUME NEW S, NEW s \in Seq(S), NEW e \in S
  PROVE  /\ <<>> \in Seq(S) /\ Append(s, e) \in Seq(S) /\ Len(Append(s, e)) = Len(s) + 1
         /\ s # <<>> => Head(s) \in S /\ Tail(s) \in Seq(S)
  OBVIOUS

CommandData == [stream : 0..MaxStreams, boot : 0..MaxBoots, handle : 0..MaxStreams, visible : BOOLEAN]

LEMMA FieldUpdates ==
  ASSUME NEW q \in Record, NEW b \in BOOLEAN
  PROVE  /\ [q EXCEPT !.dispatched = b] \in Record /\ [q EXCEPT !.abandoned = b] \in Record
         /\ [q EXCEPT !.done = b] \in Record /\ [q EXCEPT !.authorizing = b] \in Record
         /\ [q EXCEPT !.reserved = b] \in Record /\ [q EXCEPT !.watching = b] \in Record
         /\ [q EXCEPT !.cancelSent = b] \in Record
  BY DEF Record

LEMMA RecordsStep ==
  p \in [Commands -> Record] /\ closed \in BOOLEAN /\ commands \in Seq(Commands) /\ [Next]_vars
    => p' \in [Commands -> Record]
<1> SUFFICES ASSUME p \in [Commands -> Record], closed \in BOOLEAN, commands \in Seq(Commands),
                    [Next]_vars
             PROVE  p' \in [Commands -> Record]
  OBVIOUS
<1>1. ASSUME NEW i \in Commands, NEW q \in Record, p' = [p EXCEPT ![i] = q]
      PROVE  p' \in [Commands -> Record]
  BY <1>1
<1>2. \A i \in Commands : p[i] \in Record OBVIOUS
<1>3. ASSUME NEW i \in Commands, NEW q \in Record, CancelPending(i, q) PROVE p' \in [Commands -> Record]
  <2>1. [q EXCEPT !.done = TRUE] \in Record BY FieldUpdates
  <2>2. [q EXCEPT !.done = TRUE, !.cancelSent = TRUE] \in Record BY DEF Record
  <2> QED BY <1>1, <1>3, <2>1, <2>2 DEF CancelPending
<1>4. ASSUME NEW i \in Commands, Register(i) PROVE p' \in [Commands -> Record]
  BY <1>1, <1>2, <1>4, FieldUpdates DEF Register
<1>5. ASSUME NEW i \in Commands, CallReturns(i) PROVE p' \in [Commands -> Record]
  BY <1>2, <1>3, <1>5, FieldUpdates DEF CallReturns
<1>6. ASSUME NEW i \in Commands, GateWatch(i) PROVE p' \in [Commands -> Record]
  BY <1>1, <1>2, <1>3, <1>6, FieldUpdates DEF GateWatch
<1>7. CASE DispatchCommand
  <2>1. PICK i \in Commands : p' = [p EXCEPT ![i].dispatched = TRUE]
                              \/ p' = [p EXCEPT ![i].done = TRUE] \/ p' = p
    BY <1>7 DEF DispatchCommand
  <2> QED BY <1>1, <1>2, <2>1, FieldUpdates
<1>8. CASE StreamLost
  <2>1. \A q \in Record : [q EXCEPT !.done = TRUE, !.abandoned = TRUE] \in Record BY DEF Record
  <2> QED BY <1>2, <1>8, <2>1 DEF StreamLost
<1>9. CASE Connect
  <2>1. \A q \in Record, b, d \in BOOLEAN :
          [q EXCEPT !.abandoned = TRUE, !.done = TRUE, !.watching = q.watching /\ b,
                    !.reserved = q.reserved /\ d] \in Record
    BY DEF Record
  <2> QED BY <1>2, <1>9, <2>1 DEF Connect
<1>10. ASSUME NEW i \in Commands, NEW heard \in BOOLEAN, ReceiveResult(i, heard)
       PROVE  p' \in [Commands -> Record]
  <2>1. [p[i] EXCEPT !.done = TRUE, !.watching = FALSE, !.reserved = FALSE] \in Record
    BY <1>2 DEF Record
  <2>2. p' = [p EXCEPT ![i] = [p[i] EXCEPT !.done = TRUE, !.watching = FALSE, !.reserved = FALSE]]
          \/ p' = p
    BY <1>10 DEF ReceiveResult, bridge
  <2> QED BY <1>1, <2>1, <2>2
<1>11. ASSUME NEW i \in Commands, AuthorizeStart(i) PROVE p' \in [Commands -> Record]
  <2>1. \A b \in BOOLEAN : [p[i] EXCEPT !.authorizing = b] \in Record BY <1>2, FieldUpdates
  <2>2. \A b \in BOOLEAN : (p[i].authorizing \/ b) \in BOOLEAN OBVIOUS
  <2> QED BY <1>1, <1>11, <2>1, <2>2 DEF AuthorizeStart
<1>12. ASSUME NEW i \in Commands, GateRefused(i) PROVE p' \in [Commands -> Record]
  BY <1>1, <1>2, <1>12, FieldUpdates DEF GateRefused
<1>13. ASSUME NEW i \in Commands, AuthorizeEnd(i) PROVE p' \in [Commands -> Record]
  <2>1. [p[i] EXCEPT !.authorizing = FALSE, !.reserved = TRUE, !.watching = TRUE] \in Record
    BY <1>2 DEF Record
  <2>2. \A b \in BOOLEAN : [p[i] EXCEPT !.authorizing = b] \in Record BY <1>2, FieldUpdates
  <2> QED BY <1>1, <1>13, <2>1, <2>2 DEF AuthorizeEnd
<1>14. CASE Close
  <2>1. \A q \in Record : [q EXCEPT !.done = TRUE] \in Record
          /\ [q EXCEPT !.done = TRUE, !.watching = FALSE, !.reserved = FALSE] \in Record
    BY DEF Record
  <2> QED BY <1>2, <1>14, <2>1 DEF Close
<1>15. ASSUME NEW i \in Commands,
              \/ Route(i) \/ Enqueue(i) \/ DispatchCancel(i) \/ GateGranted(i) \/ Revoke(i)
              \/ JobStart(i) \/ JobAuthorized(i) \/ JobEnd(i)
       PROVE  p' = p
  BY <1>15 DEF Route, Enqueue, DispatchCancel, GateGranted, Revoke, JobStart, JobAuthorized,
               JobEnd, bridge
<1>16. ASSUME \/ ComputerUse \/ Intake \/ Unlink \/ Reconfigure \/ WorkerRestart
              \/ UNCHANGED vars
       PROVE  p' = p
  BY <1>16 DEF ComputerUse, Intake, Unlink, Reconfigure, WorkerRestart, bridge, vars
<1> QED BY <1>4, <1>5, <1>6, <1>7, <1>8, <1>9, <1>10, <1>11, <1>12, <1>13, <1>14, <1>15, <1>16
        DEF Next

LEMMA CommandDataStep ==
  ASSUME cmd \in [Commands -> CommandData], boots \in Seq(1..MaxBoots), stream \in 0..MaxStreams,
         Len(boots) = stream, [Next]_vars
  PROVE  cmd' \in [Commands -> CommandData]
<1>1. ASSUME NEW i \in Commands, Route(i) PROVE cmd' \in [Commands -> CommandData]
  <2>1. PICK h \in 1..stream : cmd' = [cmd EXCEPT ![i].handle = h] BY <1>1 DEF Route
  <2>2. h \in 0..MaxStreams BY BridgeAssumption
  <2>3. [cmd[i] EXCEPT !.handle = h] \in CommandData BY <2>2 DEF CommandData
  <2> QED BY <2>1, <2>3
<1>2. ASSUME NEW i \in Commands, Register(i) PROVE cmd' \in [Commands -> CommandData]
  <2>1. PICK v \in BOOLEAN :
          cmd' = [cmd EXCEPT ![i] = [@ EXCEPT !.stream = stream, !.boot = Boot, !.visible = v]]
    BY <1>2 DEF Register
  <2>2. Boot \in 0..MaxBoots
    <3>1. CASE stream = 0 BY <3>1, BridgeAssumption DEF Boot
    <3>2. CASE stream # 0
      <4>0. stream \in 1..Len(boots) BY <3>2
      <4>1. boots[stream] \in 1..MaxBoots BY <4>0, ElementOfSeq
      <4> QED BY <3>2, <4>1, BridgeAssumption DEF Boot
    <3> QED BY <3>1, <3>2
  <2>3. [cmd[i] EXCEPT !.stream = stream, !.boot = Boot, !.visible = v] \in CommandData
    BY <2>2 DEF CommandData
  <2> QED BY <2>1, <2>3
<1>3. ASSUME NEW i \in Commands,
             \/ Enqueue(i) \/ CallReturns(i) \/ DispatchCancel(i) \/ AuthorizeStart(i)
             \/ GateGranted(i) \/ GateRefused(i) \/ AuthorizeEnd(i) \/ GateWatch(i) \/ Revoke(i)
             \/ JobStart(i) \/ JobAuthorized(i) \/ JobEnd(i)
             \/ \E heard \in BOOLEAN : ReceiveResult(i, heard)
      PROVE  cmd' = cmd
  BY <1>3 DEF Enqueue, CallReturns, DispatchCancel, AuthorizeStart, GateGranted, GateRefused,
              AuthorizeEnd, GateWatch, Revoke, JobStart, JobAuthorized, JobEnd, ReceiveResult
<1>4. ASSUME \/ DispatchCommand \/ StreamLost \/ Connect \/ ComputerUse \/ Close \/ Intake
             \/ Unlink \/ Reconfigure \/ WorkerRestart \/ UNCHANGED vars
      PROVE  cmd' = cmd
  BY <1>4 DEF DispatchCommand, StreamLost, Connect, ComputerUse, Close, Intake, Unlink,
              Reconfigure, WorkerRestart, vars
<1> QED BY <1>1, <1>2, <1>3, <1>4 DEF Next

\* The other variables.
Shape ==
  /\ caller \in [Commands -> {"idle", "routed", "enqueuing", "waiting", "returned"}]
  /\ pending \subseteq Commands
  /\ stream \in 0..MaxStreams /\ boots \in Seq(1..MaxBoots) /\ Len(boots) = stream
  /\ up \in BOOLEAN /\ link \in BOOLEAN /\ closed \in BOOLEAN
  /\ commands \in Seq(Commands) /\ wire \in Seq(Message)
  /\ controls \subseteq Commands
  /\ auth \in [Commands -> {"none", "sent", "gating", "gated", "granted", "refused"}]
  /\ gate \in Commands \cup {Computer, Nobody} /\ revoked \subseteq Commands
  /\ extBoot \in 1..MaxBoots
  /\ job \in [Commands -> {"none", "queued", "authorizing", "executing"}]
  /\ aborted \subseteq Commands /\ outbox \subseteq Commands /\ acked \subseteq Commands

LEMMA ShapeStep == Shape /\ [Next]_vars => Shape'
<1> SUFFICES ASSUME Shape, [Next]_vars PROVE Shape' OBVIOUS
<1> USE BridgeAssumption DEF Shape, bridge, instance, desktop, extension, vars
<1>1. ASSUME NEW i \in Commands, Route(i) PROVE Shape' BY <1>1 DEF Route
<1>2. ASSUME NEW i \in Commands, Register(i) PROVE Shape' BY <1>2 DEF Register
<1>3. ASSUME NEW i \in Commands, Enqueue(i) PROVE Shape' BY <1>3 DEF Enqueue
<1>4. ASSUME NEW i \in Commands, CallReturns(i) PROVE Shape' BY <1>4 DEF CallReturns, CancelPending
<1>5. ASSUME NEW i \in Commands, DispatchCancel(i) PROVE Shape'
  <2>1. [method |-> "cancel", id |-> i] \in Message BY DEF Message
  <2>2. Append(wire, [method |-> "cancel", id |-> i]) \in Seq(Message)
    BY <2>1, SequenceTypes
  <2>3. wire' \in Seq(Message) BY <1>5, <2>2 DEF DispatchCancel, Transmit
  <2> QED BY <1>5, <2>3 DEF DispatchCancel
<1>6. ASSUME NEW i \in Commands, AuthorizeStart(i) PROVE Shape' BY <1>6 DEF AuthorizeStart
<1>7. ASSUME NEW i \in Commands, GateGranted(i) PROVE Shape' BY <1>7 DEF GateGranted
<1>8. ASSUME NEW i \in Commands, GateRefused(i) PROVE Shape' BY <1>8 DEF GateRefused
<1>9. ASSUME NEW i \in Commands, AuthorizeEnd(i) PROVE Shape' BY <1>9 DEF AuthorizeEnd
<1>10. ASSUME NEW i \in Commands, GateWatch(i) PROVE Shape' BY <1>10 DEF GateWatch, CancelPending
<1>11. ASSUME NEW i \in Commands, Revoke(i) PROVE Shape' BY <1>11 DEF Revoke
<1>12. ASSUME NEW i \in Commands, JobStart(i) PROVE Shape' BY <1>12 DEF JobStart
<1>13. ASSUME NEW i \in Commands, JobAuthorized(i) PROVE Shape' BY <1>13 DEF JobAuthorized
<1>14. ASSUME NEW i \in Commands, JobEnd(i) PROVE Shape' BY <1>14 DEF JobEnd
<1>15. ASSUME NEW i \in Commands, NEW heard \in BOOLEAN, ReceiveResult(i, heard) PROVE Shape'
  BY <1>15 DEF ReceiveResult, FreeGate
<1>16. CASE DispatchCommand
  <2>1. Head(commands) \in Commands /\ Tail(commands) \in Seq(Commands)
    BY <1>16 DEF DispatchCommand
  <2>2. [method |-> "command", id |-> Head(commands)] \in Message BY <2>1 DEF Message
  <2>2a. Append(wire, [method |-> "command", id |-> Head(commands)]) \in Seq(Message)
    BY <2>2, SequenceTypes
  <2>3. wire' \in Seq(Message) /\ pending' \subseteq Commands
    BY <1>16, <2>2a DEF DispatchCommand, Transmit
  <2>4. commands' \in Seq(Commands) BY <1>16, <2>1 DEF DispatchCommand
  <2> QED BY <1>16, <2>3, <2>4 DEF DispatchCommand
<1>17. CASE StreamLost BY <1>17 DEF StreamLost
<1>18. CASE Connect
  <2>1. stream' \in 0..MaxStreams /\ boots' \in Seq(1..MaxBoots) /\ Len(boots') = stream'
    <3>1. Append(boots, extBoot) \in Seq(1..MaxBoots) /\ Len(Append(boots, extBoot)) = stream + 1
      BY SequenceTypes
    <3>2. stream' = stream + 1 /\ boots' = Append(boots, extBoot) /\ stream < MaxStreams
      BY <1>18 DEF Connect
    <3>3. stream' \in 0..MaxStreams BY <3>2
    <3> QED BY <3>1, <3>2, <3>3
  <2>2. commands' = <<>> /\ wire' = <<>> BY <1>18 DEF Connect
  <2>2a. commands' \in Seq(Commands) /\ wire' \in Seq(Message) BY <2>2
  <2>3. gate' \in Commands \cup {Computer, Nobody} BY <1>18 DEF Connect, FreeGate
  <2> QED BY <1>18, <2>1, <2>2a, <2>3 DEF Connect
<1>19. CASE ComputerUse BY <1>19 DEF ComputerUse
<1>20. CASE Close BY <1>20 DEF Close, FreeGate
<1>21. CASE Intake
  <2>1. Head(wire) \in Message /\ Tail(wire) \in Seq(Message) BY <1>21 DEF Intake
  <2>2. Head(wire).id \in Commands BY <2>1 DEF Message
  <2>3. wire' \in Seq(Message) BY <1>21, <2>1 DEF Intake
  <2> QED BY <1>21, <2>2, <2>3 DEF Intake
<1>22. ASSUME CancelAll
       PROVE  job' \in [Commands -> {"none", "queued", "authorizing", "executing"}]
              /\ aborted' \subseteq Commands /\ outbox' \subseteq Commands
  BY <1>22 DEF CancelAll
<1>23. CASE Unlink
  <2>1. wire' \in Seq(Message) BY <1>23 DEF Unlink
  <2> QED BY <1>22, <1>23, <2>1 DEF Unlink
<1>24. CASE Reconfigure
  <2>1. wire' \in Seq(Message) /\ extBoot' \in 1..MaxBoots BY <1>24 DEF Reconfigure, BootsLeft
  <2> QED BY <1>22, <1>24, <2>1 DEF Reconfigure
<1>25. CASE WorkerRestart
  <2>1. wire' \in Seq(Message) /\ extBoot' \in 1..MaxBoots BY <1>25 DEF WorkerRestart, BootsLeft
  <2> QED BY <1>25, <2>1 DEF WorkerRestart
<1>26. CASE UNCHANGED vars BY <1>26
<1> HIDE DEF Shape
<1> QED BY <1>1, <1>2, <1>3, <1>4, <1>5, <1>6, <1>7, <1>8, <1>9, <1>10, <1>11, <1>12, <1>13,
           <1>14, <1>15, <1>16, <1>17, <1>18, <1>19, <1>20, <1>21, <1>23, <1>24, <1>25, <1>26
        DEF Next

Types == cmd \in [Commands -> CommandData] /\ p \in [Commands -> Record] /\ Shape

LEMMA TypesStep == Types /\ [Next]_vars => Types'
  BY RecordsStep, CommandDataStep, ShapeStep DEF Types, Shape
-----------------------------------------------------------------------------
(* What the critical sections do to the records, field by field.           *)

\* The fields the invariant is about.
Same(j) == /\ p'[j].dispatched = p[j].dispatched /\ p'[j].abandoned = p[j].abandoned
           /\ p'[j].reserved = p[j].reserved

LEMMA CancelPendingEffect ==
  ASSUME p \in [Commands -> Record], NEW i \in Commands, NEW q \in Record, CancelPending(i, q)
  PROVE  /\ \A j \in Commands : j # i => p'[j] = p[j]
         /\ p'[i].dispatched = q.dispatched /\ p'[i].abandoned = q.abandoned
         /\ p'[i].reserved = q.reserved
         /\ pending' = IF q.dispatched THEN pending ELSE pending \ {i}
         /\ controls' \subseteq controls \cup {i}
         /\ q.dispatched \/ controls' = controls
  BY DEF CancelPending, Record

LEMMA CallReturnsEffect ==
  ASSUME p \in [Commands -> Record], NEW i \in Commands, CallReturns(i)
  PROVE  /\ \A j \in Commands : j # i => p'[j] = p[j]
         /\ p'[i].dispatched = p[i].dispatched /\ p'[i].reserved = p[i].reserved
         /\ i \in pending => p'[i].abandoned
         /\ i \notin pending => p' = p
         /\ pending' = IF p[i].dispatched THEN pending ELSE pending \ {i}
         /\ controls' \subseteq controls \cup {i}
         /\ p[i].dispatched \/ controls' = controls
<1>1. CASE i \in pending
  <2> DEFINE q == [p[i] EXCEPT !.abandoned = TRUE]
  <2>1. /\ q \in Record /\ q.dispatched = p[i].dispatched /\ q.reserved = p[i].reserved
        /\ q.abandoned
    BY DEF Record
  <2>2. CancelPending(i, q) BY <1>1 DEF CallReturns
  <2> HIDE DEF q
  <2> QED BY <1>1, <2>1, <2>2, CancelPendingEffect
<1>2. CASE i \notin pending BY <1>2 DEF CallReturns
<1> QED BY <1>1, <1>2

LEMMA GateWatchEffect ==
  ASSUME p \in [Commands -> Record], NEW i \in Commands, GateWatch(i)
  PROVE  /\ \A j \in Commands : Same(j)
         /\ pending' = IF p[i].dispatched THEN pending ELSE pending \ {i}
         /\ controls' \subseteq controls \cup {i}
         /\ p[i].dispatched \/ controls' = controls
<1> DEFINE q == [p[i] EXCEPT !.watching = FALSE]
<1>1. /\ q \in Record /\ q.dispatched = p[i].dispatched /\ q.reserved = p[i].reserved
      /\ q.abandoned = p[i].abandoned
  BY DEF Record
<1>2. CASE i \in pending
  <2>1. CancelPending(i, q) BY <1>2 DEF GateWatch
  <2> HIDE DEF q
  <2> QED BY <1>1, <2>1, CancelPendingEffect DEF Same
<1>3. CASE i \notin pending
  <2>1. p' = [p EXCEPT ![i] = q] /\ UNCHANGED <<pending, controls>> BY <1>3 DEF GateWatch
  <2> HIDE DEF q
  <2> QED BY <1>1, <1>3, <2>1 DEF Same
<1> QED BY <1>2, <1>3

LEMMA AuthorizeStartEffect ==
  ASSUME p \in [Commands -> Record], NEW i \in Commands, AuthorizeStart(i)
  PROVE  \A j \in Commands : Same(j)
  BY DEF AuthorizeStart, Record, Same

LEMMA GateRefusedEffect ==
  ASSUME p \in [Commands -> Record], NEW i \in Commands, GateRefused(i)
  PROVE  /\ \A j \in Commands : Same(j)
         /\ pending' = pending \/ (~p[i].reserved /\ pending' = pending \ {i})
<1>1. \A j \in Commands : Same(j) BY DEF GateRefused, Record, Same
<1>2. pending' = IF p[i].abandoned /\ ~p[i].reserved THEN pending \ {i} ELSE pending
  BY DEF GateRefused
<1> QED BY <1>1, <1>2

LEMMA AuthorizeEndEffect ==
  ASSUME p \in [Commands -> Record], NEW i \in Commands, AuthorizeEnd(i)
  PROVE  /\ \A j \in Commands : j # i => p'[j] = p[j]
         /\ p'[i].dispatched = p[i].dispatched /\ p'[i].abandoned = p[i].abandoned
         /\ \/ /\ i \in pending /\ p'[i].reserved
               /\ auth' = [auth EXCEPT ![i] = "granted"] /\ UNCHANGED <<pending, gate>>
            \/ /\ p'[i].reserved = p[i].reserved
               /\ auth' = [auth EXCEPT ![i] = "refused"] /\ gate' = Nobody
               /\ pending \ {i} \subseteq pending' /\ pending' \subseteq pending
  BY DEF AuthorizeEnd, Record

LEMMA ReceiveResultEffect ==
  ASSUME p \in [Commands -> Record], NEW i \in Commands, NEW heard \in BOOLEAN,
         ReceiveResult(i, heard)
  PROVE  \/ /\ i \in pending /\ pending' = pending \ {i} /\ FreeGate({i}) /\ Answer({i})
            /\ \A j \in Commands : j # i => p'[j] = p[j]
            /\ p'[i].dispatched = p[i].dispatched /\ p'[i].abandoned = p[i].abandoned
            /\ ~p'[i].reserved /\ acked' = acked \cup {i}
         \/ UNCHANGED <<pending, p, sent, gate, acked>>
  BY DEF ReceiveResult, Record, bridge

LEMMA DispatchCommandEffect ==
  ASSUME p \in [Commands -> Record], commands \in Seq(Commands), DispatchCommand
  PROVE  /\ commands # <<>> /\ commands' = Tail(commands) /\ Head(commands) \in Commands
         /\ \A j \in Commands : j # Head(commands) => p'[j] = p[j]
         /\ \/ /\ Dispatchable(Head(commands)) /\ UNCHANGED pending
               /\ p'[Head(commands)].dispatched /\ p'[Head(commands)].abandoned = p[Head(commands)].abandoned
               /\ p'[Head(commands)].reserved = p[Head(commands)].reserved
               /\ Transmit([method |-> "command", id |-> Head(commands)])
            \/ /\ UNCHANGED wire /\ Same(Head(commands))
               /\ \/ pending' = pending
                  \/ ~p[Head(commands)].dispatched /\ pending' = pending \ {Head(commands)}
<1>1. PICK i \in Commands : i = Head(commands)
  BY SequenceTypes DEF DispatchCommand
<1>2. commands # <<>> /\ commands' = Tail(commands) BY DEF DispatchCommand
<1>3. \/ /\ Dispatchable(i) /\ p' = [p EXCEPT ![i].dispatched = TRUE] /\ UNCHANGED pending
         /\ Transmit([method |-> "command", id |-> i])
      \/ /\ ~p[i].dispatched /\ p' = [p EXCEPT ![i].done = TRUE] /\ pending' = pending \ {i}
         /\ UNCHANGED wire
      \/ UNCHANGED <<p, pending, wire>>
  BY <1>1 DEF DispatchCommand
<1> QED BY <1>1, <1>2, <1>3 DEF Record, Same

LEMMA StreamLostEffect ==
  ASSUME p \in [Commands -> Record], StreamLost
  PROVE  /\ \A j \in Commands : /\ p'[j].dispatched = p[j].dispatched
                                /\ p'[j].reserved = p[j].reserved
                                /\ p[j].abandoned => p'[j].abandoned
         /\ pending' \subseteq pending
         /\ \A j \in pending : p[j].dispatched /\ p[j].reserved => j \in pending'
  BY DEF StreamLost, Record, AwaitsExecution

LEMMA ConnectEffect ==
  ASSUME p \in [Commands -> Record], pending \subseteq Commands, Connect
  PROVE  /\ \A j \in Commands : /\ p'[j].dispatched = p[j].dispatched
                                /\ p'[j].reserved = (p[j].reserved /\ j \notin pending \cap EndedByGeneration)
                                /\ p[j].abandoned => p'[j].abandoned
         /\ \A j \in pending : p'[j].abandoned
         /\ pending' \subseteq pending \ EndedByGeneration
         /\ \A j \in pending \ EndedByGeneration : p[j].dispatched /\ p[j].reserved => j \in pending'
         /\ EndedByGeneration = pending \/ EndedByGeneration = {}
<1>1. EndedByGeneration = pending \/ EndedByGeneration = {} BY DEF EndedByGeneration
<1> QED BY <1>1 DEF Connect, Record, AwaitsExecution

LEMMA CloseEffect ==
  ASSUME p \in [Commands -> Record], pending \subseteq Commands, Close
  PROVE  /\ \A j \in Commands : /\ p'[j].dispatched = p[j].dispatched
                                /\ p'[j].abandoned = p[j].abandoned
                                /\ p'[j].reserved = (p[j].reserved /\ j \notin pending)
         /\ pending' = {}
  BY DEF Close, Record
-----------------------------------------------------------------------------
(* The inductive invariant.                                                 *)

\* The queue of the current stream holds commands of it that were not dispatched.
Queue ==
  /\ \A j, k \in DOMAIN commands : commands[j] = commands[k] => j = k
  /\ \A k \in DOMAIN commands :
       /\ caller[commands[k]] \in {"waiting", "returned"}
       /\ ~p[commands[k]].dispatched /\ cmd[commands[k]].stream = stream

\* The extension knows nothing of a command.
Quiet(i) == job[i] = "none" /\ auth[i] = "none" /\ i \notin outbox \cup acked

\* A command is sent once, ahead of the cancel controls for it.
Wire ==
  /\ \A j, k \in DOMAIN wire : j < k /\ wire[j].id = wire[k].id => wire[k].method = "cancel"
  /\ \A k \in DOMAIN wire :
       /\ p[wire[k].id].dispatched
       /\ wire[k].method = "command" => Quiet(wire[k].id) /\ cmd[wire[k].id].stream = stream

\* A job's result comes after the job, its authorization request when it starts.
Orderly(i) == /\ i \in outbox \cup acked => job[i] = "none"
              /\ job[i] = "queued" => auth[i] = "none"

Jobs == /\ \A i \in controls : p[i].dispatched
        /\ \A i \in Commands : (p[i].dispatched \/ Quiet(i)) /\ Orderly(i)

Flow == Queue /\ Wire /\ Jobs

\* Where a call is, what its record says and what it has been told.
Calls ==
  /\ \A i \in Commands : caller[i] \in {"idle", "routed"} => i \notin pending /\ sent[i] = 0
  /\ \A i \in Commands : caller[i] \in {"idle", "routed", "enqueuing"} => ~p[i].dispatched
  /\ \A i \in pending : caller[i] = "returned" => p[i].abandoned
  /\ \A i \in pending : ~p[i].abandoned => sent[i] = 0
  /\ sent \in [Commands -> 0..1]

\* A reservation was granted to a request, and the gate remembers for whom.
Reservations ==
  /\ \A i \in Commands : p[i].reserved => auth[i] = "granted"
  /\ \A i \in Commands : auth[i] = "gated" => gate = i
  /\ ReservationsMatchGate

\* A job that works on a visible page, or may begin to.
Active(i) == \/ job[i] = "executing" /\ cmd[i].visible
             \/ job[i] = "authorizing" /\ auth[i] = "granted"

\* Generations only grow, and the work of the connected one has its reservation.
Work ==
  /\ \A i \in Commands : cmd[i].boot <= Boot
  /\ Boot <= extBoot
  /\ \A i \in Commands : job[i] = "authorizing" => cmd[i].visible
  /\ \A i \in Commands : Active(i) /\ cmd[i].boot = Boot /\ ~closed => i \in pending /\ p[i].reserved

BridgeIInv == Flow /\ Calls /\ Reservations /\ Work /\ NoStaleHandle
-----------------------------------------------------------------------------
(* Calls and their answers.                                                 *)

LEMMA CallsStep == Types /\ Flow /\ Calls /\ [Next]_vars => Calls'
<1> SUFFICES ASSUME Types, Flow, Calls, [Next]_vars PROVE Calls' OBVIOUS
<1>0. /\ p \in [Commands -> Record] /\ pending \subseteq Commands /\ commands \in Seq(Commands)
      /\ caller \in [Commands -> {"idle", "routed", "enqueuing", "waiting", "returned"}]
  BY DEF Types, Shape
<1> USE <1>0 DEF Calls
<1>1. ASSUME NEW i \in Commands, Route(i) PROVE Calls' BY <1>1 DEF Route, bridge
<1>2. ASSUME NEW i \in Commands, Register(i) PROVE Calls'
  <2>1. \A j \in Commands : p'[j].dispatched = p[j].dispatched /\ p'[j].abandoned = p[j].abandoned
    BY <1>2 DEF Register, Record
  <2> QED BY <1>2, <2>1 DEF Register
<1>3. ASSUME NEW i \in Commands, Enqueue(i) PROVE Calls' BY <1>3 DEF Enqueue, bridge
<1>4. ASSUME NEW i \in Commands, CallReturns(i) PROVE Calls'
  <2>1. caller' = [caller EXCEPT ![i] = "returned"] /\ sent' = sent BY <1>4 DEF CallReturns
  <2>2. \A j \in Commands : p'[j].dispatched = p[j].dispatched
          /\ (p[j].abandoned => p'[j].abandoned) /\ (j = i /\ i \in pending => p'[j].abandoned)
    BY <1>4, CallReturnsEffect
  <2>3. pending' \subseteq pending BY <1>4, CallReturnsEffect
  <2>4. \A j \in pending' : caller'[j] = "returned" => p'[j].abandoned BY <2>1, <2>2, <2>3
  <2>5. \A j \in pending' : ~p'[j].abandoned => sent'[j] = 0 BY <2>1, <2>2, <2>3
  <2> QED BY <2>1, <2>2, <2>3, <2>4, <2>5
<1>5. ASSUME UNCHANGED <<caller, sent>>, pending' \subseteq pending,
             \A j \in Commands : /\ p'[j].dispatched = p[j].dispatched
                                 /\ p[j].abandoned => p'[j].abandoned
      PROVE  Calls'
  BY <1>5
<1>6. ASSUME NEW i \in Commands, AuthorizeStart(i) PROVE Calls'
  BY <1>5, <1>6, AuthorizeStartEffect DEF AuthorizeStart, Same
<1>7. ASSUME NEW i \in Commands, GateRefused(i) PROVE Calls'
  BY <1>5, <1>7, GateRefusedEffect DEF GateRefused, Same
<1>8. ASSUME NEW i \in Commands, AuthorizeEnd(i) PROVE Calls'
  <2>1. UNCHANGED <<caller, sent>> BY <1>8 DEF AuthorizeEnd
  <2> QED BY <1>5, <1>8, <2>1, AuthorizeEndEffect
<1>9. ASSUME NEW i \in Commands, GateWatch(i) PROVE Calls'
  <2>1. UNCHANGED <<caller, sent>> BY <1>9 DEF GateWatch
  <2> QED BY <1>5, <1>9, <2>1, GateWatchEffect DEF Same
<1>10. ASSUME NEW i \in Commands, NEW heard \in BOOLEAN, ReceiveResult(i, heard) PROVE Calls'
  <2>1. caller' = caller BY <1>10 DEF ReceiveResult
  <2>2. CASE UNCHANGED <<pending, p, sent, gate, acked>> BY <1>5, <2>1, <2>2
  <2>3. CASE ~UNCHANGED <<pending, p, sent, gate, acked>>
    <3>1. /\ i \in pending /\ pending' = pending \ {i} /\ Answer({i})
          /\ \A j \in Commands : j # i => p'[j] = p[j]
          /\ p'[i].dispatched = p[i].dispatched /\ p'[i].abandoned = p[i].abandoned
      BY <1>10, <2>3, ReceiveResultEffect
    <3>2. \A j \in Commands : sent'[j] = IF j = i /\ ~p[i].abandoned THEN sent[j] + 1 ELSE sent[j]
      BY <3>1 DEF Answer
    <3>3. sent' \in [Commands -> 0..1] BY <3>1, <3>2 DEF Answer
    <3> QED BY <2>1, <3>1, <3>2, <3>3
  <2> QED BY <2>2, <2>3
<1>11. CASE DispatchCommand
  <2>1. UNCHANGED <<caller, sent>> BY <1>11 DEF DispatchCommand
  <2>2. PICK i \in Commands :
          /\ i = Head(commands) /\ commands # <<>> /\ pending' \subseteq pending
          /\ \A j \in Commands : (j # i => p'[j] = p[j]) /\ p'[j].abandoned = p[j].abandoned
    BY <1>11, DispatchCommandEffect DEF Same
  <2>3. caller[i] \in {"waiting", "returned"} BY <2>2, HeadTailProperties DEF Flow, Queue
  <2>4. \A j \in Commands : caller'[j] \in {"idle", "routed", "enqueuing"} => ~p'[j].dispatched
    BY <2>1, <2>2, <2>3
  <2> QED BY <2>1, <2>2, <2>4
<1>12. CASE StreamLost
  <2>1. UNCHANGED <<caller, sent>> BY <1>12 DEF StreamLost
  <2> QED BY <1>5, <1>12, <2>1, StreamLostEffect
<1>13. CASE Connect
  <2>1. caller' = caller /\ Answer(pending) BY <1>13 DEF Connect
  <2>2. /\ \A j \in Commands : p'[j].dispatched = p[j].dispatched
        /\ \A j \in pending : p'[j].abandoned
        /\ pending' \subseteq pending
    BY <1>13, ConnectEffect
  <2>3. \A j \in Commands : sent'[j] = IF j \in pending /\ ~p[j].abandoned THEN sent[j] + 1 ELSE sent[j]
    BY <2>1 DEF Answer
  <2>4. sent' \in [Commands -> 0..1] BY <2>1, <2>3 DEF Answer
  <2> QED BY <2>1, <2>2, <2>3, <2>4
<1>14. CASE Close
  <2>1. UNCHANGED <<caller, sent>> BY <1>14 DEF Close
  <2> QED BY <1>5, <1>14, <2>1, CloseEffect
<1>15. ASSUME NEW i \in Commands,
              \/ DispatchCancel(i) \/ GateGranted(i) \/ Revoke(i) \/ JobStart(i)
              \/ JobAuthorized(i) \/ JobEnd(i)
       PROVE  UNCHANGED <<caller, pending, sent, p>>
  BY <1>15 DEF DispatchCancel, GateGranted, Revoke, JobStart, JobAuthorized, JobEnd, bridge
<1>16. ASSUME \/ ComputerUse \/ Intake \/ Unlink \/ Reconfigure \/ WorkerRestart \/ UNCHANGED vars
       PROVE  UNCHANGED <<caller, pending, sent, p>>
  BY <1>16 DEF ComputerUse, Intake, Unlink, Reconfigure, WorkerRestart, bridge, vars
<1>17. ASSUME UNCHANGED <<caller, pending, sent, p>> PROVE Calls' BY <1>17
<1> HIDE DEF Calls
<1> QED BY <1>1, <1>2, <1>3, <1>4, <1>6, <1>7, <1>8, <1>9, <1>10, <1>11, <1>12, <1>13,
           <1>14, <1>15, <1>16, <1>17
        DEF Next
-----------------------------------------------------------------------------
(* Reservations and the gate.                                               *)

LEMMA ReservationsStep == Types /\ Flow /\ Calls /\ Reservations /\ [Next]_vars => Reservations'
<1> SUFFICES ASSUME Types, Flow, Calls, Reservations, [Next]_vars PROVE Reservations' OBVIOUS
<1>0. /\ p \in [Commands -> Record] /\ pending \subseteq Commands /\ commands \in Seq(Commands)
      /\ auth \in [Commands -> {"none", "sent", "gating", "gated", "granted", "refused"}]
      /\ gate \in Commands \cup {Computer, Nobody}
      /\ \A i \in Commands : p[i].reserved => p[i].dispatched
  BY DEF Types, Shape, Flow, Jobs, Quiet, Reservations
<1> USE <1>0, BridgeAssumption DEF Reservations, ReservationsMatchGate
<1>1. ASSUME NEW i \in Commands, Register(i) PROVE Reservations'
  <2>1. \A j \in Commands : p'[j].reserved = p[j].reserved BY <1>1 DEF Register, Record
  <2>2. UNCHANGED <<auth, gate>> /\ pending \subseteq pending' /\ pending' \subseteq pending \cup {i}
    BY <1>1 DEF Register, desktop
  <2>3. ~p[i].reserved BY <1>1 DEF Register, Calls
  <2> QED BY <2>1, <2>2, <2>3
<1>2. ASSUME UNCHANGED <<auth, gate>>, \A j \in Commands : p'[j].reserved = p[j].reserved,
             pending' \subseteq pending, \A j \in pending : p[j].reserved => j \in pending'
      PROVE  Reservations'
  BY <1>2
<1>3. ASSUME NEW i \in Commands, CallReturns(i) PROVE Reservations'
  <2>1. UNCHANGED <<auth, gate>> BY <1>3 DEF CallReturns, desktop
  <2>2. \A j \in Commands : p'[j].reserved = p[j].reserved BY <1>3, CallReturnsEffect
  <2>3. pending' = IF p[i].dispatched THEN pending ELSE pending \ {i} BY <1>3, CallReturnsEffect
  <2> QED BY <1>2, <2>1, <2>2, <2>3
<1>4. ASSUME NEW i \in Commands, GateWatch(i) PROVE Reservations'
  <2>1. UNCHANGED <<auth, gate>> BY <1>4 DEF GateWatch, desktop
  <2>2. \A j \in Commands : p'[j].reserved = p[j].reserved BY <1>4, GateWatchEffect DEF Same
  <2>3. pending' = IF p[i].dispatched THEN pending ELSE pending \ {i} BY <1>4, GateWatchEffect
  <2> QED BY <1>2, <2>1, <2>2, <2>3
<1>5. ASSUME NEW i \in Commands, AuthorizeStart(i) PROVE Reservations'
  <2>1. \A j \in Commands : p'[j].reserved = p[j].reserved BY <1>5, AuthorizeStartEffect DEF Same
  <2>2. /\ UNCHANGED <<pending, gate>> /\ auth[i] = "sent"
        /\ \A j \in Commands : j # i => auth'[j] = auth[j]
        /\ auth'[i] \in {"gating", "granted", "refused"}
    BY <1>5 DEF AuthorizeStart, desktop
  <2>3. ~p[i].reserved /\ gate # i BY <2>2
  <2> QED BY <2>1, <2>2, <2>3
<1>6. ASSUME NEW i \in Commands, GateGranted(i) PROVE Reservations'
  BY <1>6 DEF GateGranted, bridge
<1>7. ASSUME NEW i \in Commands, GateRefused(i) PROVE Reservations'
  <2>1. \A j \in Commands : p'[j].reserved = p[j].reserved BY <1>7, GateRefusedEffect DEF Same
  <2>2. UNCHANGED gate /\ auth[i] = "gating" /\ auth' = [auth EXCEPT ![i] = "refused"]
    BY <1>7 DEF GateRefused, desktop
  <2>3. pending' \subseteq pending /\ \A j \in pending : p[j].reserved => j \in pending'
    BY <1>7, GateRefusedEffect
  <2> QED BY <2>1, <2>2, <2>3
<1>8. ASSUME NEW i \in Commands, AuthorizeEnd(i) PROVE Reservations'
  <2>1. auth[i] = "gated" /\ gate = i /\ ~p[i].reserved BY <1>8 DEF AuthorizeEnd
  <2>2. \A j \in Commands : j # i => p'[j] = p[j] BY <1>8, AuthorizeEndEffect
  <2>3. \A j \in Commands : j # i => auth[j] # "gated" /\ ~(j \in pending /\ p[j].reserved)
    BY <2>1
  <2>4. CASE /\ i \in pending /\ p'[i].reserved
             /\ auth' = [auth EXCEPT ![i] = "granted"] /\ UNCHANGED <<pending, gate>>
    BY <2>1, <2>2, <2>3, <2>4
  <2>5. CASE /\ p'[i].reserved = p[i].reserved
             /\ auth' = [auth EXCEPT ![i] = "refused"] /\ gate' = Nobody
             /\ pending \ {i} \subseteq pending' /\ pending' \subseteq pending
    BY <2>1, <2>2, <2>3, <2>5
  <2> QED BY <1>8, <2>4, <2>5, AuthorizeEndEffect
<1>9. ASSUME NEW i \in Commands, JobStart(i) PROVE Reservations'
  <2>1. /\ UNCHANGED <<p, pending, gate>> /\ job[i] = "queued"
        /\ auth' = auth \/ auth' = [auth EXCEPT ![i] = "sent"]
    BY <1>9 DEF JobStart, bridge, desktop
  <2>2. auth[i] = "none" BY <2>1 DEF Flow, Jobs, Orderly
  <2> QED BY <2>1, <2>2
<1>10. ASSUME NEW i \in Commands, NEW heard \in BOOLEAN, ReceiveResult(i, heard) PROVE Reservations'
  <2>1. auth' = auth BY <1>10 DEF ReceiveResult
  <2>2. CASE UNCHANGED <<pending, p, sent, gate, acked>> BY <2>1, <2>2
  <2>3. CASE ~UNCHANGED <<pending, p, sent, gate, acked>>
    <3>1. /\ i \in pending /\ pending' = pending \ {i} /\ FreeGate({i})
          /\ \A j \in Commands : j # i => p'[j] = p[j]
          /\ ~p'[i].reserved
      BY <1>10, <2>3, ReceiveResultEffect
    <3>2. gate' = IF p[i].reserved THEN Nobody ELSE gate BY <3>1 DEF FreeGate
    <3> QED BY <2>1, <3>1, <3>2
  <2> QED BY <2>2, <2>3
<1>11. CASE DispatchCommand
  <2>1. UNCHANGED <<auth, gate>> BY <1>11 DEF DispatchCommand, desktop
  <2>2. PICK i \in Commands :
          /\ \A j \in Commands : p'[j].reserved = p[j].reserved
          /\ pending' = pending \/ (~p[i].dispatched /\ pending' = pending \ {i})
    BY <1>11, DispatchCommandEffect DEF Same
  <2> QED BY <1>2, <2>1, <2>2
<1>12. CASE StreamLost
  <2>1. UNCHANGED <<auth, gate>> BY <1>12 DEF StreamLost, desktop
  <2> QED BY <1>2, <1>12, <2>1, StreamLostEffect
<1>13. CASE Connect
  <2>1. auth' = auth /\ FreeGate(EndedByGeneration) BY <1>13 DEF Connect
  <2>2. /\ \A j \in Commands :
             p'[j].reserved = (p[j].reserved /\ j \notin pending \cap EndedByGeneration)
        /\ pending' \subseteq pending \ EndedByGeneration
        /\ \A j \in pending \ EndedByGeneration : p[j].dispatched /\ p[j].reserved => j \in pending'
        /\ EndedByGeneration \subseteq pending
    BY <1>13, ConnectEffect
  <2>3. gate' = IF gate \in EndedByGeneration /\ p[gate].reserved THEN Nobody ELSE gate
    BY <2>1 DEF FreeGate
  <2> QED BY <2>1, <2>2, <2>3
<1>14. CASE Close
  <2>1. auth' = auth /\ FreeGate(pending) BY <1>14 DEF Close
  <2>2. gate' = IF gate \in pending /\ p[gate].reserved THEN Nobody ELSE gate
    BY <2>1 DEF FreeGate
  <2>3. /\ \A j \in Commands : p'[j].reserved = (p[j].reserved /\ j \notin pending)
        /\ pending' = {}
    BY <1>14, CloseEffect
  <2> QED BY <2>1, <2>2, <2>3
<1>15. CASE ComputerUse BY <1>15 DEF ComputerUse, bridge
<1>16. ASSUME NEW i \in Commands,
              \/ Route(i) \/ Enqueue(i) \/ DispatchCancel(i) \/ Revoke(i) \/ JobAuthorized(i)
              \/ JobEnd(i)
       PROVE  UNCHANGED <<pending, p, auth, gate>>
  BY <1>16 DEF Route, Enqueue, DispatchCancel, Revoke, JobAuthorized, JobEnd, bridge, desktop
<1>17. ASSUME \/ Intake \/ Unlink \/ Reconfigure \/ WorkerRestart \/ UNCHANGED vars
       PROVE  UNCHANGED <<pending, p, auth, gate>>
  BY <1>17 DEF Intake, Unlink, Reconfigure, WorkerRestart, bridge, desktop, vars
<1>18. ASSUME UNCHANGED <<pending, p, auth, gate>> PROVE Reservations' BY <1>18
<1> HIDE DEF Reservations
<1> QED BY <1>1, <1>3, <1>4, <1>5, <1>6, <1>7, <1>8, <1>9, <1>10, <1>11, <1>12, <1>13,
           <1>14, <1>15, <1>16, <1>17, <1>18
        DEF Next
-----------------------------------------------------------------------------
(* The way of a command to the extension and back.                          *)

LEMMA AppendElements ==
  ASSUME NEW S, NEW s \in Seq(S), NEW e \in S
  PROVE  \A k \in DOMAIN Append(s, e) :
           \/ k \in DOMAIN s /\ Append(s, e)[k] = s[k]
           \/ k = Len(s) + 1 /\ Append(s, e)[k] = e
  OBVIOUS

LEMMA TailElements ==
  ASSUME NEW S, NEW s \in Seq(S), s # <<>>
  PROVE  /\ 1 \in DOMAIN s /\ Head(s) = s[1]
         /\ \A k \in DOMAIN Tail(s) : k \in Nat /\ k + 1 \in DOMAIN s /\ k + 1 > 1 /\ Tail(s)[k] = s[k + 1]
  OBVIOUS

\* Most steps leave the queue and the wire alone, or lose the wire.
LEMMA FlowKept ==
  ASSUME Types, Flow, UNCHANGED <<commands, stream>>, wire' \in {wire, <<>>},
         \A j \in Commands :
           /\ p'[j].dispatched = p[j].dispatched
           /\ caller[j] \in {"waiting", "returned"} => caller'[j] \in {"waiting", "returned"}
           /\ caller[j] \in {"waiting", "returned"} \/ p[j].dispatched
                => cmd'[j].stream = cmd[j].stream
           /\ Quiet(j) => Quiet(j)'
           /\ Orderly(j)',
         \A j \in controls' : j \in Commands /\ p[j].dispatched
  PROVE  Flow'
<1>0. /\ \A k \in DOMAIN commands : commands[k] \in Commands
      /\ \A k \in DOMAIN wire : wire[k].id \in Commands
  <2>1. commands \in Seq(Commands) /\ wire \in Seq(Message) BY DEF Types, Shape
  <2>2. \A k \in DOMAIN wire : wire[k] \in Message BY <2>1, ElementOfSeq
  <2> QED BY <2>1, <2>2, ElementOfSeq DEF Message
<1>1. Queue' BY <1>0 DEF Flow, Queue
<1>2. Wire'
  <2>1. CASE wire' = wire BY <1>0, <2>1 DEF Flow, Wire
  <2>2. CASE wire' = <<>>
    <3>1. DOMAIN wire' = {} BY <2>2
    <3> QED BY <3>1 DEF Wire
  <2> QED BY <2>1, <2>2
<1>3. Jobs'
  <2>1. \A i \in Commands : p[i].dispatched \/ Quiet(i) BY DEF Flow, Jobs
  <2>2. \A i \in Commands : (p'[i].dispatched \/ Quiet(i)') /\ Orderly(i)' BY <2>1
  <2>3. \A i \in controls' : p'[i].dispatched OBVIOUS
  <2> QED BY <2>2, <2>3 DEF Jobs
<1> QED BY <1>1, <1>2, <1>3 DEF Flow

LEMMA FlowEnqueue == ASSUME Types, Flow, Calls, NEW i \in Commands, Enqueue(i) PROVE Flow'
<1>0. commands \in Seq(Commands) BY DEF Types, Shape
<1>1. /\ caller[i] = "enqueuing" /\ caller' = [caller EXCEPT ![i] = "waiting"]
      /\ UNCHANGED <<cmd, p, stream, controls, job, auth, outbox, acked, wire>>
      /\ \/ commands' = commands
         \/ cmd[i].stream = stream /\ commands' = Append(commands, i)
  BY DEF Enqueue, bridge, extension
<1>2. \A j \in Commands : /\ caller[j] \in {"waiting", "returned"} => j # i
                          /\ j # i => caller'[j] = caller[j]
  BY <1>1 DEF Types, Shape
<1>3. caller'[i] = "waiting" BY <1>1 DEF Types, Shape
<1>4. \A k \in DOMAIN commands : commands[k] \in Commands /\ commands[k] # i
  BY <1>0, <1>1, <1>2, ElementOfSeq DEF Flow, Queue
<1>5. Queue'
  <2>1. CASE commands' = commands BY <1>1, <1>2, <1>4, <2>1 DEF Flow, Queue
  <2>2. CASE cmd[i].stream = stream /\ commands' = Append(commands, i)
    <3>1. \A k \in DOMAIN commands' :
            \/ k \in DOMAIN commands /\ commands'[k] = commands[k]
            \/ k = Len(commands) + 1 /\ commands'[k] = i
      BY <1>0, <2>2, AppendElements
    <3>2. ~p[i].dispatched BY <1>1 DEF Calls
    <3>3. \A j, k \in DOMAIN commands' : commands'[j] = commands'[k] => j = k
      BY <1>4, <3>1 DEF Flow, Queue
    <3>4. \A k \in DOMAIN commands' :
            /\ caller'[commands'[k]] \in {"waiting", "returned"}
            /\ ~p'[commands'[k]].dispatched /\ cmd'[commands'[k]].stream = stream'
      BY <1>1, <1>2, <1>3, <1>4, <2>2, <3>1, <3>2 DEF Flow, Queue
    <3> QED BY <3>3, <3>4 DEF Queue
  <2> QED BY <1>1, <2>1, <2>2
<1>6. Wire' BY <1>1 DEF Flow, Wire, Quiet
<1>7. Jobs' BY <1>1 DEF Flow, Jobs, Quiet, Orderly
<1> QED BY <1>5, <1>6, <1>7 DEF Flow

\* What is appended to the wire keeps its order.
LEMMA WireAppend ==
  ASSUME Types, Wire, NEW m \in Message,
         m.method = "command" => /\ Quiet(m.id) /\ cmd[m.id].stream = stream
                                 /\ \A k \in DOMAIN wire : wire[k].id # m.id,
         UNCHANGED <<job, auth, outbox, acked, cmd, stream>>, p'[m.id].dispatched,
         \A j \in Commands : p[j].dispatched => p'[j].dispatched,
         wire' = Append(wire, m)
  PROVE  Wire'
<1>0. wire \in Seq(Message) BY DEF Types, Shape
<1>0a. \A k \in DOMAIN wire : k \in 1..Len(wire) /\ wire[k].id \in Commands
  <2>1. \A k \in DOMAIN wire : wire[k] \in Message BY <1>0, ElementOfSeq
  <2> QED BY <1>0, <2>1 DEF Message
<1>0b. m.method \in {"command", "cancel"} BY DEF Message
<1>1. \A k \in DOMAIN wire' : \/ k \in DOMAIN wire /\ wire'[k] = wire[k]
                              \/ k = Len(wire) + 1 /\ wire'[k] = m
  BY <1>0, AppendElements
<1>2. ASSUME NEW j \in DOMAIN wire', NEW k \in DOMAIN wire', j < k, wire'[j].id = wire'[k].id
      PROVE  wire'[k].method = "cancel"
  <2>1. CASE k \in DOMAIN wire /\ wire'[k] = wire[k]
    <3>1. j \in DOMAIN wire /\ wire'[j] = wire[j]
      <4>1. j # Len(wire) + 1 BY <1>0, <1>0a, <1>2, <2>1
      <4> QED BY <1>1, <4>1
    <3> QED BY <1>2, <2>1, <3>1 DEF Wire
  <2>2. CASE k = Len(wire) + 1 /\ wire'[k] = m
    <3>1. j # k /\ j \in DOMAIN wire /\ wire'[j] = wire[j]
      <4>1. j # Len(wire) + 1 BY <1>0, <1>2, <2>2
      <4> QED BY <1>1, <2>2, <4>1
    <3> QED BY <1>0b, <1>2, <2>2, <3>1
  <2> QED BY <1>1, <2>1, <2>2
<1>3. ASSUME NEW k \in DOMAIN wire'
      PROVE  /\ p'[wire'[k].id].dispatched
             /\ wire'[k].method = "command" =>
                  Quiet(wire[k].id)' /\ cmd'[wire'[k].id].stream = stream'
  <2>1. CASE k \in DOMAIN wire /\ wire'[k] = wire[k] BY <1>0a, <2>1 DEF Wire, Quiet
  <2>2. CASE k = Len(wire) + 1 /\ wire'[k] = m BY <2>2 DEF Quiet
  <2> QED BY <1>1, <2>1, <2>2
<1> QED BY <1>2, <1>3 DEF Wire

LEMMA FlowDispatchCancel ==
  ASSUME Types, Flow, NEW i \in Commands, DispatchCancel(i) PROVE Flow'
<1>0. commands \in Seq(Commands) BY DEF Types, Shape
<1>1. /\ UNCHANGED <<caller, cmd, p, stream, commands, job, auth, outbox, acked>>
      /\ controls' \subseteq controls /\ i \in controls
      /\ wire' = wire \/ wire' = Append(wire, [method |-> "cancel", id |-> i])
  BY DEF DispatchCancel, Transmit, bridge, extension
<1>2. Queue' BY <1>0, <1>1 DEF Flow, Queue
<1>3. Wire'
  <2>1. CASE wire' = wire BY <1>1, <2>1 DEF Flow, Wire, Quiet
  <2>2. CASE wire' = Append(wire, [method |-> "cancel", id |-> i])
    <3> DEFINE m == [method |-> "cancel", id |-> i]
    <3>1. m \in Message /\ m.method # "command" /\ m.id = i BY DEF Message
    <3>2. p'[m.id].dispatched BY <1>1, <3>1 DEF Flow, Jobs
    <3> QED BY <1>1, <2>2, <3>1, <3>2, WireAppend DEF Flow
  <2> QED BY <1>1, <2>1, <2>2
<1>4. Jobs' BY <1>1 DEF Flow, Jobs, Quiet, Orderly
<1> QED BY <1>2, <1>3, <1>4 DEF Flow

LEMMA FlowDispatchCommand == ASSUME Types, Flow, DispatchCommand PROVE Flow'
<1>0. commands \in Seq(Commands) /\ p \in [Commands -> Record] BY DEF Types, Shape
<1>1. PICK i \in Commands : i = Head(commands) BY <1>0, SequenceTypes DEF DispatchCommand
<1>2. /\ UNCHANGED <<caller, cmd, stream, controls, job, auth, outbox, acked>>
      /\ commands # <<>> /\ commands' = Tail(commands)
      /\ \A j \in Commands : j # i => p'[j] = p[j]
      /\ \/ p'[i].dispatched /\ (wire' = wire \/ wire' = Append(wire, [method |-> "command", id |-> i]))
         \/ p'[i].dispatched = p[i].dispatched /\ wire' = wire
  BY <1>0, <1>1, DispatchCommandEffect DEF DispatchCommand, extension, Transmit, Same
<1>3. /\ 1 \in DOMAIN commands /\ i = commands[1]
      /\ \A k \in DOMAIN commands' : k \in Nat /\ k + 1 \in DOMAIN commands /\ k + 1 > 1
                                     /\ commands'[k] = commands[k + 1]
  BY <1>0, <1>1, <1>2, TailElements
<1>4. \A k \in DOMAIN commands' : commands'[k] \in Commands /\ commands'[k] # i
  <2>1. \A k \in DOMAIN commands' : commands[k + 1] \in Commands BY <1>0, <1>3, ElementOfSeq
  <2>2. \A k \in DOMAIN commands' : k + 1 # 1 BY <1>3
  <2> QED BY <1>3, <2>1, <2>2 DEF Flow, Queue
<1>5. Queue'
  <2>1. \A j, k \in DOMAIN commands' : commands'[j] = commands'[k] => j = k
    <3>1. \A j, k \in DOMAIN commands' : j \in Nat /\ k \in Nat /\ (j + 1 = k + 1 => j = k)
      BY <1>3
    <3> QED BY <1>3, <3>1 DEF Flow, Queue
  <2>2. \A k \in DOMAIN commands' :
          /\ caller'[commands'[k]] \in {"waiting", "returned"}
          /\ ~p'[commands'[k]].dispatched /\ cmd'[commands'[k]].stream = stream'
    BY <1>2, <1>3, <1>4 DEF Flow, Queue
  <2> QED BY <2>1, <2>2 DEF Queue
<1>6. ~p[i].dispatched /\ cmd[i].stream = stream BY <1>3 DEF Flow, Queue
<1>7. \A j \in Commands : p[j].dispatched => p'[j].dispatched BY <1>2, <1>6
<1>8. Wire'
  <2>1. CASE wire' = wire
    <3>1. \A k \in DOMAIN wire : wire[k].id \in Commands
      <4>1. wire \in Seq(Message) BY DEF Types, Shape
      <4>2. \A k \in DOMAIN wire : wire[k] \in Message BY <4>1, ElementOfSeq
      <4> QED BY <4>2 DEF Message
    <3> QED BY <1>2, <1>7, <2>1, <3>1 DEF Flow, Wire, Quiet
  <2>2. CASE p'[i].dispatched /\ wire' = Append(wire, [method |-> "command", id |-> i])
    <3> DEFINE m == [method |-> "command", id |-> i]
    <3>1. m \in Message /\ m.method = "command" /\ m.id = i BY DEF Message
    <3>2. Quiet(i) BY <1>6 DEF Flow, Jobs
    <3>3. \A k \in DOMAIN wire : wire[k].id # i BY <1>6 DEF Flow, Wire
    <3> QED BY <1>2, <1>6, <1>7, <2>2, <3>1, <3>2, <3>3, WireAppend DEF Flow
  <2> QED BY <1>2, <2>1, <2>2
<1>9. Jobs'
  <2>1. \A j \in Commands : Quiet(j)' = Quiet(j) /\ Orderly(j)' = Orderly(j)
    BY <1>2 DEF Quiet, Orderly
  <2> QED BY <1>2, <1>7, <2>1 DEF Flow, Jobs, Types, Shape
<1> QED BY <1>5, <1>8, <1>9 DEF Flow

LEMMA FlowIntake == ASSUME Types, Flow, Intake PROVE Flow'
<1>0. commands \in Seq(Commands) /\ wire \in Seq(Message) BY DEF Types, Shape
<1>1. PICK m \in Message : m = Head(wire) BY <1>0, SequenceTypes DEF Intake
<1>2. m.id \in Commands BY DEF Message
<1>3. /\ UNCHANGED <<caller, cmd, p, stream, commands, controls, auth, acked>>
      /\ wire # <<>> /\ wire' = Tail(wire)
      /\ \/ /\ m.method = "command" /\ job' = [job EXCEPT ![m.id] = "queued"]
            /\ UNCHANGED outbox
         \/ job' = [job EXCEPT ![m.id] = "none"] /\ outbox' = outbox \cup {m.id}
         \/ UNCHANGED <<job, outbox>>
  BY <1>1 DEF Intake, instance, bridge
<1>4. /\ 1 \in DOMAIN wire /\ m = wire[1]
      /\ \A k \in DOMAIN wire' : k \in Nat /\ k + 1 \in DOMAIN wire /\ k + 1 > 1
                                 /\ wire'[k] = wire[k + 1]
  BY <1>0, <1>1, <1>3, TailElements
<1>5. Queue' BY <1>0, <1>3 DEF Flow, Queue
<1>6. \A k \in DOMAIN wire' : wire'[k].id = m.id => wire'[k].method = "cancel"
  <2>1. \A k \in DOMAIN wire' : 1 < k + 1 BY <1>4
  <2> QED BY <1>4, <2>1 DEF Flow, Wire
<1>7. \A k \in DOMAIN wire' : wire'[k].id \in Commands
  <2>1. \A k \in DOMAIN wire' : wire[k + 1] \in Message BY <1>0, <1>4, ElementOfSeq
  <2> QED BY <1>4, <2>1 DEF Message
<1>8. \A j \in Commands : j # m.id => Quiet(j)' = Quiet(j) /\ Orderly(j)' = Orderly(j)
  BY <1>2, <1>3 DEF Quiet, Orderly, Types, Shape
<1>9. p[m.id].dispatched /\ (m.method = "command" => Quiet(m.id)) BY <1>4 DEF Flow, Wire
<1>10. Orderly(m.id)'
  BY <1>2, <1>3, <1>9 DEF Quiet, Orderly, Types, Shape, Flow, Jobs
<1>11. Wire'
  <2>1. \A j, k \in DOMAIN wire' : j < k /\ wire'[j].id = wire'[k].id => wire'[k].method = "cancel"
    <3>1. \A j, k \in DOMAIN wire' : j \in Nat /\ k \in Nat /\ (j < k => j + 1 < k + 1) BY <1>4
    <3> QED BY <1>4, <3>1 DEF Flow, Wire
  <2>2. \A k \in DOMAIN wire' : p'[wire'[k].id].dispatched BY <1>3, <1>4 DEF Flow, Wire
  <2>3. ASSUME NEW k \in DOMAIN wire', wire'[k].method = "command"
        PROVE  Quiet(wire[k].id)' /\ cmd'[wire'[k].id].stream = stream'
    <3>1. wire'[k].id # m.id BY <1>6, <2>3
    <3>2. PICK j \in Commands : j = wire'[k].id BY <1>7
    <3>3. Quiet(j) /\ cmd[j].stream = stream BY <1>4, <2>3, <3>2 DEF Flow, Wire
    <3>4. Quiet(j)' BY <1>8, <3>1, <3>2, <3>3
    <3> QED BY <1>3, <3>2, <3>3, <3>4 DEF Quiet
  <2> QED BY <2>1, <2>2, <2>3 DEF Wire
<1>12. Jobs' BY <1>3, <1>8, <1>9, <1>10 DEF Flow, Jobs
<1> QED BY <1>5, <1>11, <1>12 DEF Flow

LEMMA FlowConnect == ASSUME Types, Flow, Connect PROVE Flow'
<1>1. /\ UNCHANGED <<job, auth, outbox, acked>> /\ controls' = {}
      /\ commands' = <<>> /\ wire' = <<>>
  BY DEF Connect, extension
<1>2. \A j \in Commands : p'[j].dispatched = p[j].dispatched BY ConnectEffect DEF Types, Shape
<1>3. DOMAIN commands' = {} /\ DOMAIN wire' = {} BY <1>1
<1>4. Queue' BY <1>3 DEF Queue
<1>5. Wire' BY <1>3 DEF Wire
<1>6. Jobs' BY <1>1, <1>2 DEF Flow, Jobs, Quiet, Orderly
<1> QED BY <1>4, <1>5, <1>6 DEF Flow

LEMMA FlowStep == Types /\ Flow /\ Calls /\ [Next]_vars => Flow'
<1> SUFFICES ASSUME Types, Flow, Calls, [Next]_vars PROVE Flow' OBVIOUS
<1>0. /\ p \in [Commands -> Record] /\ pending \subseteq Commands
      /\ controls \subseteq Commands
      /\ caller \in [Commands -> {"idle", "routed", "enqueuing", "waiting", "returned"}]
      /\ cmd \in [Commands -> CommandData]
      /\ auth \in [Commands -> {"none", "sent", "gating", "gated", "granted", "refused"}]
      /\ job \in [Commands -> {"none", "queued", "authorizing", "executing"}]
      /\ \A i \in Commands : (p[i].dispatched \/ Quiet(i)) /\ Orderly(i)
      /\ \A i \in controls : p[i].dispatched
  BY DEF Types, Shape, Flow, Jobs
\* Steps of a call and of the handlers that leave the extension alone.
<1>1. ASSUME UNCHANGED <<commands, stream, wire, job, auth, outbox, acked, cmd>>,
             \A j \in Commands :
               /\ p'[j].dispatched = p[j].dispatched
               /\ caller'[j] = caller[j] \/ caller'[j] = "returned",
             \A j \in controls' : j \in Commands /\ p[j].dispatched
      PROVE  Flow'
  <2>1. \A j \in Commands : Quiet(j)' = Quiet(j) /\ Orderly(j)' BY <1>0, <1>1 DEF Quiet, Orderly
  <2> QED BY <1>1, <2>1, FlowKept
\* Steps that leave the bridge and its queues alone.
<1>2. ASSUME UNCHANGED <<commands, stream, controls, caller, cmd>>, wire' \in {wire, <<>>},
             \A j \in Commands :
               /\ p'[j].dispatched = p[j].dispatched
               /\ Quiet(j) => Quiet(j)'
               /\ Orderly(j)'
      PROVE  Flow'
  BY <1>0, <1>2, FlowKept
<1>3. ASSUME NEW i \in Commands, Route(i) PROVE Flow'
  <2>1. /\ UNCHANGED <<commands, stream, wire, job, auth, outbox, acked, controls, p>>
        /\ caller[i] = "idle" /\ caller' = [caller EXCEPT ![i] = "routed"]
        /\ \E h : cmd' = [cmd EXCEPT ![i].handle = h]
    BY <1>3 DEF Route, bridge, instance, extension
  <2>2. \A j \in Commands : cmd'[j].stream = cmd[j].stream BY <1>0, <2>1 DEF CommandData
  <2>3. \A j \in Commands : Quiet(j)' = Quiet(j) /\ Orderly(j)' BY <1>0, <2>1 DEF Quiet, Orderly
  <2>4. \A j \in Commands : caller[j] \in {"waiting", "returned"} => caller'[j] = caller[j]
    BY <1>0, <2>1
  <2> QED BY <1>0, <2>1, <2>2, <2>3, <2>4, FlowKept
<1>4. ASSUME NEW i \in Commands, Register(i) PROVE Flow'
  <2>1. /\ UNCHANGED <<commands, stream, wire, job, auth, outbox, acked, controls>>
        /\ caller[i] \in {"idle", "routed"} /\ caller' = [caller EXCEPT ![i] = "enqueuing"]
        /\ \A j \in Commands : p'[j].dispatched = p[j].dispatched
        /\ \A j \in Commands : j # i => cmd'[j] = cmd[j]
    BY <1>0, <1>4 DEF Register, instance, extension, Record
  <2>2. ~p[i].dispatched BY <2>1 DEF Calls
  <2>3. \A j \in Commands : Quiet(j)' = Quiet(j) /\ Orderly(j)' BY <1>0, <2>1 DEF Quiet, Orderly
  <2>4. \A j \in Commands : caller[j] \in {"waiting", "returned"} => caller'[j] = caller[j] /\ j # i
    BY <1>0, <2>1
  <2> QED BY <1>0, <2>1, <2>2, <2>3, <2>4, FlowKept
<1>5. ASSUME NEW i \in Commands, CallReturns(i) PROVE Flow'
  <2>1. UNCHANGED <<commands, stream, wire, job, auth, outbox, acked, cmd>>
        /\ caller' = [caller EXCEPT ![i] = "returned"]
    BY <1>5 DEF CallReturns, extension
  <2>2. /\ \A j \in Commands : p'[j].dispatched = p[j].dispatched
        /\ controls' \subseteq controls \cup {i} /\ (p[i].dispatched \/ controls' = controls)
    BY <1>0, <1>5, CallReturnsEffect
  <2> QED BY <1>0, <1>1, <2>1, <2>2
<1>6. ASSUME NEW i \in Commands, GateWatch(i) PROVE Flow'
  <2>1. UNCHANGED <<commands, stream, wire, job, auth, outbox, acked, cmd, caller>>
    BY <1>6 DEF GateWatch, extension
  <2>2. /\ \A j \in Commands : p'[j].dispatched = p[j].dispatched
        /\ controls' \subseteq controls \cup {i} /\ (p[i].dispatched \/ controls' = controls)
    BY <1>0, <1>6, GateWatchEffect DEF Same
  <2> QED BY <1>0, <1>1, <2>1, <2>2
<1>7. CASE StreamLost
  <2>1. UNCHANGED <<commands, stream, wire, job, auth, outbox, acked, cmd, caller, controls>>
    BY <1>7 DEF StreamLost, extension
  <2>2. \A j \in Commands : p'[j].dispatched = p[j].dispatched BY <1>0, <1>7, StreamLostEffect
  <2> QED BY <1>0, <1>1, <2>1, <2>2
<1>8. CASE Close
  <2>1. UNCHANGED <<commands, stream, wire, job, auth, outbox, acked, cmd, caller, controls>>
    BY <1>8 DEF Close, extension, instance
  <2>2. \A j \in Commands : p'[j].dispatched = p[j].dispatched BY <1>0, <1>8, CloseEffect
  <2> QED BY <1>0, <1>1, <2>1, <2>2
<1>9. ASSUME \/ ComputerUse \/ UNCHANGED vars
             \/ \E i \in Commands : Revoke(i)
      PROVE  Flow'
  <2>1. UNCHANGED <<commands, stream, wire, job, auth, outbox, acked, cmd, caller, controls, p>>
    BY <1>9 DEF ComputerUse, Revoke, bridge, instance, extension, vars
  <2> QED BY <1>0, <1>1, <2>1
\* Steps of an authorization request: it was sent, so the command is not quiet.
<1>10. ASSUME NEW i \in Commands, auth[i] \in {"sent", "gating", "gated"},
              \A j \in Commands : auth'[j] # auth[j] => j = i,
              UNCHANGED <<commands, stream, wire, job, outbox, acked, cmd, caller, controls>>,
              \A j \in Commands : p'[j].dispatched = p[j].dispatched
       PROVE  Flow'
  <2>1. \A j \in Commands : (Quiet(j) => Quiet(j)') /\ Orderly(j)'
    BY <1>0, <1>10 DEF Quiet, Orderly
  <2> QED BY <1>2, <1>10, <2>1
<1>11. ASSUME NEW i \in Commands, AuthorizeStart(i) PROVE Flow'
  <2>1. /\ auth[i] = "sent" /\ \A j \in Commands : auth'[j] # auth[j] => j = i
        /\ UNCHANGED <<commands, stream, wire, job, outbox, acked, cmd, caller, controls>>
    BY <1>0, <1>11 DEF AuthorizeStart, instance, extension
  <2> QED BY <1>0, <1>10, <1>11, <2>1, AuthorizeStartEffect DEF Same
<1>12. ASSUME NEW i \in Commands, GateGranted(i) PROVE Flow'
  <2>1. /\ auth[i] = "gating" /\ \A j \in Commands : auth'[j] # auth[j] => j = i
        /\ UNCHANGED <<commands, stream, wire, job, outbox, acked, cmd, caller, controls, p>>
    BY <1>0, <1>12 DEF GateGranted, instance, extension, bridge
  <2> QED BY <1>10, <2>1
<1>13. ASSUME NEW i \in Commands, GateRefused(i) PROVE Flow'
  <2>1. /\ auth[i] = "gating" /\ \A j \in Commands : auth'[j] # auth[j] => j = i
        /\ UNCHANGED <<commands, stream, wire, job, outbox, acked, cmd, caller, controls>>
    BY <1>0, <1>13 DEF GateRefused, instance, extension
  <2> QED BY <1>0, <1>10, <1>13, <2>1, GateRefusedEffect DEF Same
<1>14. ASSUME NEW i \in Commands, AuthorizeEnd(i) PROVE Flow'
  <2>1. /\ auth[i] = "gated" /\ \A j \in Commands : auth'[j] # auth[j] => j = i
        /\ UNCHANGED <<commands, stream, wire, job, outbox, acked, cmd, caller, controls>>
    BY <1>0, <1>14 DEF AuthorizeEnd, instance, extension
  <2>2. \A j \in Commands : p'[j].dispatched = p[j].dispatched BY <1>0, <1>14, AuthorizeEndEffect
  <2> QED BY <1>10, <2>1, <2>2
\* Steps of a job.
<1>15. ASSUME NEW i \in Commands, JobStart(i) PROVE Flow'
  <2>1. /\ job[i] = "queued" /\ \A j \in Commands : j # i => UNCHANGED <<job[j], auth[j]>>
        /\ job'[i] \in {"authorizing", "executing"}
        /\ UNCHANGED <<commands, stream, wire, outbox, acked, cmd, caller, controls, p>>
    BY <1>0, <1>15 DEF JobStart, instance, bridge
  <2>2. \A j \in Commands : (Quiet(j) => Quiet(j)') /\ Orderly(j)'
    BY <1>0, <2>1 DEF Quiet, Orderly
  <2> QED BY <1>2, <2>1, <2>2
<1>16. ASSUME NEW i \in Commands, JobAuthorized(i) PROVE Flow'
  <2>1. /\ job[i] = "authorizing" /\ job' = [job EXCEPT ![i] = "executing"]
        /\ UNCHANGED <<commands, stream, wire, outbox, acked, cmd, caller, controls, p, auth>>
    BY <1>16 DEF JobAuthorized, instance, bridge
  <2>2. \A j \in Commands : (Quiet(j) => Quiet(j)') /\ Orderly(j)'
    BY <1>0, <2>1 DEF Quiet, Orderly
  <2> QED BY <1>2, <2>1, <2>2
<1>17. ASSUME NEW i \in Commands, JobEnd(i) PROVE Flow'
  <2>1. /\ job[i] \in {"authorizing", "executing"} /\ job' = [job EXCEPT ![i] = "none"]
        /\ outbox' = outbox \cup {i}
        /\ UNCHANGED <<commands, stream, wire, acked, cmd, caller, controls, p, auth>>
    BY <1>17 DEF JobEnd, instance, bridge
  <2>2. \A j \in Commands : (Quiet(j) => Quiet(j)') /\ Orderly(j)'
    BY <1>0, <2>1 DEF Quiet, Orderly
  <2> QED BY <1>2, <2>1, <2>2
<1>18. ASSUME NEW i \in Commands, NEW heard \in BOOLEAN, ReceiveResult(i, heard) PROVE Flow'
  <2>1. /\ i \in outbox /\ outbox' \subseteq outbox /\ acked' \subseteq acked \cup {i}
        /\ UNCHANGED <<commands, stream, wire, cmd, caller, controls, job, auth>>
    BY <1>18 DEF ReceiveResult, instance
  <2>2. \A j \in Commands : p'[j].dispatched = p[j].dispatched
    BY <1>0, <1>18, ReceiveResultEffect
  <2>3. \A j \in Commands : (Quiet(j) => Quiet(j)') /\ Orderly(j)'
    BY <1>0, <2>1 DEF Quiet, Orderly
  <2> QED BY <1>2, <2>1, <2>2, <2>3
<1>19. ASSUME CancelAll, UNCHANGED <<auth, acked>>
       PROVE  \A j \in Commands : (Quiet(j) => Quiet(j)') /\ Orderly(j)'
  BY <1>0, <1>19 DEF CancelAll, Quiet, Orderly
<1>20. CASE Unlink
  <2>1. /\ UNCHANGED <<commands, stream, cmd, caller, controls, p, auth, acked>>
        /\ wire' = <<>> /\ CancelAll
    BY <1>20 DEF Unlink, instance, bridge
  <2> QED BY <1>2, <1>19, <2>1
<1>21. CASE Reconfigure
  <2>1. /\ UNCHANGED <<commands, stream, cmd, caller, controls, p, auth, acked>>
        /\ wire' = <<>> /\ CancelAll
    BY <1>21 DEF Reconfigure, instance, bridge
  <2> QED BY <1>2, <1>19, <2>1
<1>22. CASE WorkerRestart
  <2>1. /\ UNCHANGED <<commands, stream, cmd, caller, controls, p, auth, acked>>
        /\ wire' = <<>> /\ outbox' = {} /\ job' = [i \in Commands |-> "none"]
    BY <1>22 DEF WorkerRestart, instance, bridge
  <2>2. \A j \in Commands : (Quiet(j) => Quiet(j)') /\ Orderly(j)'
    BY <1>0, <2>1 DEF Quiet, Orderly
  <2> QED BY <1>2, <2>1, <2>2
<1> HIDE DEF Flow, Calls, Types
<1> QED BY <1>3, <1>4, <1>5, <1>6, <1>7, <1>8, <1>9, <1>11, <1>12, <1>13, <1>14, <1>15, <1>16,
           <1>17, <1>18, <1>20, <1>21, <1>22, FlowConnect, FlowIntake, FlowEnqueue,
           FlowDispatchCancel, FlowDispatchCommand
        DEF Next
-----------------------------------------------------------------------------
(* Work on visible pages.                                                   *)

LEMMA BootType == ASSUME Types PROVE Boot \in Nat
<1>1. stream \in Nat /\ Len(boots) = stream /\ boots \in Seq(1..MaxBoots) BY DEF Types, Shape
<1>2. CASE stream = 0 BY <1>2 DEF Boot
<1>3. CASE stream # 0
  <2>1. stream \in 1..Len(boots) BY <1>1, <1>3
  <2>2. boots[stream] \in 1..MaxBoots BY <1>1, <2>1, ElementOfSeq
  <2> QED BY <1>3, <2>2, BridgeAssumption DEF Boot
<1> QED BY <1>2, <1>3

\* Most steps leave the generations alone and end no reservation of a working job.
LEMMA WorkKept ==
  ASSUME Types, Work, UNCHANGED <<boots, stream, cmd>>, closed => closed',
         extBoot' \in Nat, extBoot' >= extBoot,
         \A j \in Commands :
           /\ job'[j] = "authorizing" => job[j] = "authorizing" \/ cmd[j].visible
           /\ Active(j)' => \/ Active(j) /\ (j \in pending /\ p[j].reserved
                                              => j \in pending' /\ p'[j].reserved)
                            \/ j \in pending' /\ p'[j].reserved
  PROVE  Work'
<1>1. Boot' = Boot BY DEF Boot
<1>2. Boot \in Nat /\ extBoot \in Nat BY BootType DEF Types, Shape
<1>3. Boot' <= extBoot' BY <1>1, <1>2 DEF Work
<1>4. \A j \in Commands : job'[j] = "authorizing" => cmd'[j].visible BY DEF Work
<1>5. \A j \in Commands : Active(j)' /\ cmd'[j].boot = Boot' /\ ~closed'
                            => j \in pending' /\ p'[j].reserved
  BY <1>1 DEF Work
<1>6. \A j \in Commands : cmd'[j].boot <= Boot' BY <1>1 DEF Work
<1> QED BY <1>3, <1>4, <1>5, <1>6 DEF Work

LEMMA WorkStep == Types /\ Flow /\ Calls /\ Reservations /\ Work /\ [Next]_vars => Work'
<1> SUFFICES ASSUME Types, Flow, Calls, Reservations, Work, [Next]_vars PROVE Work' OBVIOUS
<1>0. /\ p \in [Commands -> Record] /\ pending \subseteq Commands /\ commands \in Seq(Commands)
      /\ caller \in [Commands -> {"idle", "routed", "enqueuing", "waiting", "returned"}]
      /\ cmd \in [Commands -> CommandData] /\ closed \in BOOLEAN
      /\ auth \in [Commands -> {"none", "sent", "gating", "gated", "granted", "refused"}]
      /\ job \in [Commands -> {"none", "queued", "authorizing", "executing"}]
      /\ extBoot \in Nat /\ Boot \in Nat
  BY BootType DEF Types, Shape
<1>0a. \A j \in Commands : (p[j].dispatched \/ job[j] = "none") /\ (j \in outbox => job[j] = "none")
  BY DEF Flow, Jobs, Quiet, Orderly
\* Steps of the bridge: a reserved record of a dispatched command stays.
<1>1. ASSUME UNCHANGED <<boots, stream, cmd, extBoot, job, auth>>, closed => closed',
             \A j \in Commands :
               p[j].dispatched /\ j \in pending /\ p[j].reserved /\ Active(j)
                 => closed' \/ (j \in pending' /\ p'[j].reserved)
      PROVE  Work'
  <2>1. \A j \in Commands : Active(j)' = Active(j) BY <1>1 DEF Active
  <2>2. \A j \in Commands : Active(j) => p[j].dispatched BY <1>0a DEF Active
  <2>3. Boot' = Boot BY <1>1 DEF Boot
  <2> QED BY <1>1, <2>1, <2>2, <2>3 DEF Work
<1>2. ASSUME NEW i \in Commands, Route(i) PROVE Work'
  <2>1. /\ UNCHANGED <<boots, stream, pending, p, closed, job, auth, extBoot>>
        /\ \E h : cmd' = [cmd EXCEPT ![i].handle = h]
    BY <1>2 DEF Route, bridge, instance, extension
  <2>2. \A j \in Commands : cmd'[j].boot = cmd[j].boot /\ cmd'[j].visible = cmd[j].visible
    BY <1>0, <2>1 DEF CommandData
  <2>3. Boot' = Boot BY <2>1 DEF Boot
  <2> QED BY <2>1, <2>2, <2>3 DEF Work, Active
<1>3. ASSUME NEW i \in Commands, Register(i) PROVE Work'
  <2>1. /\ UNCHANGED <<boots, stream, closed, job, auth, extBoot>> /\ pending' = pending \cup {i}
        /\ \A j \in Commands : p'[j].reserved = p[j].reserved
        /\ \A j \in Commands : j # i => cmd'[j] = cmd[j]
        /\ cmd'[i].boot = Boot
    BY <1>0, <1>3 DEF Register, instance, extension, Record, CommandData
  <2>2. ~p[i].dispatched BY <1>3 DEF Register, Calls
  <2>3. job[i] = "none" BY <1>0a, <2>2
  <2>4. Boot' = Boot BY <2>1 DEF Boot
  <2>5. \A j \in Commands : cmd'[j].boot <= Boot' BY <1>0, <2>1, <2>4 DEF Work
  <2>6. \A j \in Commands : job'[j] = "authorizing" => cmd'[j].visible BY <2>1, <2>3 DEF Work
  <2>7. \A j \in Commands : Active(j)' => j # i /\ Active(j) BY <2>1, <2>3 DEF Active
  <2>8. \A j \in Commands : Active(j)' /\ cmd'[j].boot = Boot' /\ ~closed'
                              => j \in pending' /\ p'[j].reserved
    BY <2>1, <2>4, <2>7 DEF Work
  <2>9. Boot' <= extBoot' BY <2>1, <2>4 DEF Work
  <2> QED BY <2>5, <2>6, <2>8, <2>9 DEF Work
<1>4. ASSUME NEW i \in Commands, CallReturns(i) PROVE Work'
  <2>1. UNCHANGED <<boots, stream, cmd, extBoot, job, auth, closed>>
    BY <1>4 DEF CallReturns, extension
  <2>2. /\ \A j \in Commands : p'[j].reserved = p[j].reserved
        /\ pending' = IF p[i].dispatched THEN pending ELSE pending \ {i}
    BY <1>0, <1>4, CallReturnsEffect
  <2> QED BY <1>1, <2>1, <2>2
<1>5. ASSUME NEW i \in Commands, GateWatch(i) PROVE Work'
  <2>1. UNCHANGED <<boots, stream, cmd, extBoot, job, auth, closed>>
    BY <1>5 DEF GateWatch, extension
  <2>2. /\ \A j \in Commands : p'[j].reserved = p[j].reserved
        /\ pending' = IF p[i].dispatched THEN pending ELSE pending \ {i}
    BY <1>0, <1>5, GateWatchEffect DEF Same
  <2> QED BY <1>1, <2>1, <2>2
<1>6. CASE DispatchCommand
  <2>1. UNCHANGED <<boots, stream, cmd, extBoot, job, auth, closed>>
    BY <1>6 DEF DispatchCommand, extension
  <2>2. PICK i \in Commands :
          /\ \A j \in Commands : p'[j].reserved = p[j].reserved
          /\ pending' = pending \/ (~p[i].dispatched /\ pending' = pending \ {i})
    BY <1>0, <1>6, DispatchCommandEffect DEF Same
  <2> QED BY <1>1, <2>1, <2>2
<1>7. CASE StreamLost
  <2>1. UNCHANGED <<boots, stream, cmd, extBoot, job, auth, closed>>
    BY <1>7 DEF StreamLost, extension
  <2> QED BY <1>0, <1>1, <1>7, <2>1, StreamLostEffect
<1>8. CASE Close
  <2>1. UNCHANGED <<boots, stream, cmd, extBoot, job, auth>> /\ closed'
    BY <1>8 DEF Close, extension, instance
  <2> QED BY <1>1, <2>1
<1>9. CASE Connect
  <2>1. /\ UNCHANGED <<cmd, extBoot, job, auth, closed>>
        /\ stream' = stream + 1 /\ boots' = Append(boots, extBoot)
    BY <1>9 DEF Connect, extension
  <2>2. Boot' = extBoot
    <3>1. boots \in Seq(1..MaxBoots) /\ stream = Len(boots) /\ stream \in Nat BY DEF Types, Shape
    <3>2. Append(boots, extBoot)[Len(boots) + 1] = extBoot BY <3>1
    <3> QED BY <2>1, <3>1, <3>2 DEF Boot
  <2>3. \A j \in Commands : (Active(j)' <=> Active(j)) /\ (Active(j) => p[j].dispatched)
    BY <1>0a, <2>1 DEF Active
  <2>4. \A j \in Commands : cmd'[j].boot <= Boot' /\ cmd[j].boot \in Nat
    BY <1>0, <2>1, <2>2, BridgeAssumption DEF Work, CommandData
  <2>5. \A j \in Commands : Active(j)' /\ cmd'[j].boot = Boot' /\ ~closed'
                              => j \in pending' /\ p'[j].reserved
    <3>1. CASE Boot = extBoot
      <4>1. EndedByGeneration = {} BY <3>1 DEF EndedByGeneration
      <4>2. /\ \A j \in Commands : p[j].reserved => p'[j].reserved
            /\ \A j \in pending : p[j].dispatched /\ p[j].reserved => j \in pending'
        BY <1>0, <1>9, <4>1, ConnectEffect
      <4> QED BY <2>1, <2>2, <2>3, <3>1, <4>2 DEF Work
    <3>2. CASE Boot # extBoot
      <4>1. \A j \in Commands : cmd'[j].boot # Boot'
        BY <1>0, <2>1, <2>2, <2>4, <3>2 DEF Work
      <4> QED BY <4>1
    <3> QED BY <3>1, <3>2
  <2>6. Boot' <= extBoot' BY <1>0, <2>1, <2>2
  <2>7. \A j \in Commands : job'[j] = "authorizing" => cmd'[j].visible BY <2>1 DEF Work
  <2> QED BY <2>4, <2>5, <2>6, <2>7 DEF Work
<1>10. ASSUME NEW i \in Commands, NEW heard \in BOOLEAN, ReceiveResult(i, heard) PROVE Work'
  <2>1. UNCHANGED <<boots, stream, cmd, extBoot, job, auth, closed>> /\ i \in outbox
    BY <1>10 DEF ReceiveResult, instance
  <2>2. ~Active(i) BY <1>0a, <2>1 DEF Active
  <2>3. \A j \in Commands : j # i /\ j \in pending /\ p[j].reserved => j \in pending' /\ p'[j].reserved
    BY <1>0, <1>10, ReceiveResultEffect
  <2> QED BY <1>1, <2>1, <2>2, <2>3
\* Steps of an authorization request: only a reserved command is granted.
<1>11. ASSUME NEW i \in Commands, UNCHANGED <<boots, stream, cmd, extBoot, job, closed>>,
              \A j \in Commands : auth'[j] = "granted" => auth[j] = "granted"
                                                          \/ (j \in pending' /\ p'[j].reserved),
              \A j \in Commands : j \in pending /\ p[j].reserved => j \in pending' /\ p'[j].reserved
       PROVE  Work'
  <2>1. \A j \in Commands : Active(j)' => Active(j) \/ (j \in pending' /\ p'[j].reserved)
    BY <1>11 DEF Active
  <2> QED BY <1>0, <1>11, <2>1, WorkKept
<1>12. ASSUME NEW i \in Commands, AuthorizeStart(i) PROVE Work'
  <2>1. /\ UNCHANGED <<boots, stream, cmd, extBoot, job, closed, pending>>
        /\ \A j \in Commands : j # i => auth'[j] = auth[j]
        /\ auth'[i] = "granted" => i \in pending /\ p[i].reserved
    BY <1>0, <1>12 DEF AuthorizeStart, instance, extension
  <2>2. \A j \in Commands : p'[j].reserved = p[j].reserved
    BY <1>0, <1>12, AuthorizeStartEffect DEF Same
  <2> QED BY <1>11, <2>1, <2>2
<1>13. ASSUME NEW i \in Commands, GateGranted(i) PROVE Work'
  <2>1. /\ UNCHANGED <<boots, stream, cmd, extBoot, job, closed, pending, p>>
        /\ \A j \in Commands : auth'[j] = "granted" => auth[j] = "granted"
    BY <1>0, <1>13 DEF GateGranted, instance, extension, bridge
  <2> QED BY <1>11, <2>1
<1>14. ASSUME NEW i \in Commands, GateRefused(i) PROVE Work'
  <2>1. /\ UNCHANGED <<boots, stream, cmd, extBoot, job, closed>>
        /\ \A j \in Commands : auth'[j] = "granted" => auth[j] = "granted"
    BY <1>0, <1>14 DEF GateRefused, instance, extension
  <2>2. \A j \in Commands : p'[j].reserved = p[j].reserved
    BY <1>0, <1>14, GateRefusedEffect DEF Same
  <2>3. \A j \in pending : p[j].reserved => j \in pending' BY <1>0, <1>14, GateRefusedEffect
  <2> QED BY <1>11, <2>1, <2>2, <2>3
<1>15. ASSUME NEW i \in Commands, AuthorizeEnd(i) PROVE Work'
  <2>1. UNCHANGED <<boots, stream, cmd, extBoot, job, closed>> /\ auth[i] = "gated"
    BY <1>15 DEF AuthorizeEnd, instance, extension
  <2>2. ~p[i].reserved BY <2>1 DEF Reservations
  <2>3. /\ \A j \in Commands : j # i => p'[j] = p[j] /\ auth'[j] = auth[j]
                                        /\ (j \in pending => j \in pending')
        /\ auth'[i] = "granted" => i \in pending' /\ p'[i].reserved
    BY <1>0, <1>15, AuthorizeEndEffect
  <2> QED BY <1>11, <2>1, <2>2, <2>3
\* Steps of the extension: a job starts to work only when it was granted.
<1>16. ASSUME UNCHANGED <<boots, stream, cmd, closed, pending, p>>,
              extBoot' \in Nat, extBoot' >= extBoot,
              \A j \in Commands : /\ Active(j)' => Active(j)
                                  /\ job'[j] = "authorizing" => job[j] = "authorizing" \/ cmd[j].visible
       PROVE  Work'
  BY <1>16, WorkKept
<1>17. CASE Intake
  <2>1. UNCHANGED <<boots, stream, cmd, closed, pending, p, extBoot, auth>>
    BY <1>17 DEF Intake, instance, bridge
  <2>2. \A j \in Commands : job'[j] = job[j] \/ job'[j] \in {"queued", "none"}
    BY <1>0, <1>17 DEF Intake
  <2>3. \A j \in Commands : (Active(j)' => Active(j)) /\ (job'[j] = "authorizing" => job[j] = "authorizing")
    BY <2>1, <2>2 DEF Active
  <2> QED BY <1>0, <1>16, <2>1, <2>3
<1>18. ASSUME NEW i \in Commands, JobStart(i) PROVE Work'
  <2>1. /\ UNCHANGED <<boots, stream, cmd, closed, pending, p, extBoot>>
        /\ \A j \in Commands : j # i => UNCHANGED <<job[j], auth[j]>>
        /\ \/ cmd[i].visible /\ job'[i] = "authorizing" /\ auth'[i] = "sent"
           \/ ~cmd[i].visible /\ job'[i] = "executing"
    BY <1>0, <1>18 DEF JobStart, instance, bridge
  <2>2. \A j \in Commands : Active(j)' => Active(j) BY <2>1 DEF Active
  <2>3. \A j \in Commands : job'[j] = "authorizing" => job[j] = "authorizing" \/ cmd[j].visible
    BY <2>1
  <2> QED BY <1>0, <1>16, <2>1, <2>2, <2>3
<1>19. ASSUME NEW i \in Commands, JobAuthorized(i) PROVE Work'
  <2>1. /\ UNCHANGED <<boots, stream, cmd, closed, pending, p, extBoot, auth>>
        /\ job[i] = "authorizing" /\ auth[i] = "granted" /\ job' = [job EXCEPT ![i] = "executing"]
    BY <1>19 DEF JobAuthorized, instance, bridge
  <2>2. \A j \in Commands : (Active(j)' => Active(j)) /\ (job'[j] = "authorizing" => job[j] = "authorizing")
    BY <1>0, <2>1 DEF Active
  <2> QED BY <1>0, <1>16, <2>1, <2>2
<1>20. ASSUME NEW i \in Commands, JobEnd(i) PROVE Work'
  <2>1. /\ UNCHANGED <<boots, stream, cmd, closed, pending, p, extBoot, auth>>
        /\ job' = [job EXCEPT ![i] = "none"]
    BY <1>20 DEF JobEnd, instance, bridge
  <2>2. \A j \in Commands : (Active(j)' => Active(j)) /\ (job'[j] = "authorizing" => job[j] = "authorizing")
    BY <1>0, <2>1 DEF Active
  <2> QED BY <1>0, <1>16, <2>1, <2>2
<1>21. ASSUME Unlink \/ Reconfigure \/ WorkerRestart PROVE Work'
  <2>1. /\ UNCHANGED <<boots, stream, cmd, closed, pending, p, auth>>
        /\ extBoot' \in {extBoot, extBoot + 1}
        /\ \A j \in Commands : job'[j] = job[j] \/ job'[j] = "none"
    BY <1>0, <1>21 DEF Unlink, Reconfigure, WorkerRestart, CancelAll, instance, bridge
  <2>2. \A j \in Commands : (Active(j)' => Active(j)) /\ (job'[j] = "authorizing" => job[j] = "authorizing")
    BY <2>1 DEF Active
  <2>3. extBoot' \in Nat /\ extBoot' >= extBoot BY <1>0, <2>1
  <2> QED BY <1>16, <2>1, <2>2, <2>3
<1>22. ASSUME \/ ComputerUse \/ UNCHANGED vars
              \/ \E i \in Commands : Revoke(i) \/ Enqueue(i) \/ DispatchCancel(i)
       PROVE  Work'
  <2>1. UNCHANGED <<boots, stream, cmd, extBoot, job, auth, closed, pending, p>>
    BY <1>22 DEF ComputerUse, Revoke, Enqueue, DispatchCancel, bridge, instance, extension, vars
  <2> QED BY <1>1, <2>1
<1> HIDE DEF Work, Flow, Calls, Types
<1> QED BY <1>2, <1>3, <1>4, <1>5, <1>6, <1>7, <1>8, <1>9, <1>10, <1>12, <1>13, <1>14, <1>15,
           <1>17, <1>18, <1>19, <1>20, <1>21, <1>22
        DEF Next
-----------------------------------------------------------------------------
(* Tab handles.                                                             *)

LEMMA HandlesStep == Types /\ Flow /\ Calls /\ NoStaleHandle /\ [Next]_vars => NoStaleHandle'
<1> SUFFICES ASSUME Types, Flow, Calls, NoStaleHandle, [Next]_vars PROVE NoStaleHandle' OBVIOUS
<1>0. /\ cmd \in [Commands -> CommandData]
      /\ job \in [Commands -> {"none", "queued", "authorizing", "executing"}]
      /\ \A j \in Commands : p[j].dispatched \/ job[j] = "none"
      /\ wire \in Seq(Message)
  BY DEF Types, Shape, Flow, Jobs, Quiet
<1>1. ASSUME NEW i \in Commands, Route(i) \/ Register(i) PROVE NoStaleHandle'
  <2>1. job' = job /\ \A j \in Commands : j # i => cmd'[j] = cmd[j]
    BY <1>0, <1>1 DEF Route, Register, extension
  <2>2. job[i] = "none" BY <1>0, <1>1 DEF Route, Register, Calls
  <2> QED BY <2>1, <2>2 DEF NoStaleHandle
<1>2. CASE Intake
  <2>1. PICK m \in Message : m = Head(wire) BY <1>0, <1>2, SequenceTypes DEF Intake
  <2>2. m.id \in Commands BY <2>1 DEF Message
  <2>3. 1 \in DOMAIN wire /\ m = wire[1] BY <1>0, <1>2, <2>1, TailElements DEF Intake
  <2>4. m.method = "command" => cmd[m.id].stream = stream BY <2>3 DEF Flow, Wire
  <2>5. /\ cmd' = cmd
        /\ \/ m.method = "command" /\ HandleKnown(m.id) /\ job' = [job EXCEPT ![m.id] = "queued"]
           \/ job' = [job EXCEPT ![m.id] = "none"]
           \/ job' = job
    BY <1>2, <2>1 DEF Intake
  <2> QED BY <1>0, <2>2, <2>4, <2>5 DEF NoStaleHandle, HandleKnown
<1>3. ASSUME cmd' = cmd, \A j \in Commands : job'[j] # "none" => job[j] # "none"
      PROVE  NoStaleHandle'
  BY <1>3 DEF NoStaleHandle
<1>4. ASSUME NEW i \in Commands,
             \/ Enqueue(i) \/ CallReturns(i) \/ DispatchCancel(i)
             \/ AuthorizeStart(i) \/ GateGranted(i) \/ GateRefused(i) \/ AuthorizeEnd(i)
             \/ GateWatch(i) \/ Revoke(i) \/ JobStart(i) \/ JobAuthorized(i) \/ JobEnd(i)
             \/ \E heard \in BOOLEAN : ReceiveResult(i, heard)
      PROVE  cmd' = cmd /\ \A j \in Commands : job'[j] # "none" => job[j] # "none"
  BY <1>0, <1>4 DEF Enqueue, CallReturns, DispatchCancel, AuthorizeStart, GateGranted, GateRefused,
              AuthorizeEnd, GateWatch, Revoke, JobStart, JobAuthorized, JobEnd, ReceiveResult,
              extension
<1>5. ASSUME \/ DispatchCommand \/ StreamLost \/ Connect \/ ComputerUse \/ Close
             \/ Unlink \/ Reconfigure \/ WorkerRestart \/ UNCHANGED vars
      PROVE  cmd' = cmd /\ \A j \in Commands : job'[j] # "none" => job[j] # "none"
  BY <1>0, <1>5 DEF DispatchCommand, StreamLost, Connect, ComputerUse, Close, Unlink, Reconfigure,
              WorkerRestart, CancelAll, extension, vars
<1> QED BY <1>1, <1>2, <1>3, <1>4, <1>5 DEF Next
-----------------------------------------------------------------------------
(* The capacities of the pending map and the controls queue.                *)

Capacities == Cardinality(pending) <= MaxPending /\ Cardinality(controls) <= MaxControls

LEMMA FiniteCommands == ASSUME NEW S, S \subseteq Commands PROVE IsFiniteSet(S) /\ Cardinality(S) \in Nat
  BY BridgeAssumption, FS_Subset, FS_CardinalityType

LEMMA Smaller ==
  ASSUME NEW S, S \subseteq Commands, NEW T, T \subseteq S, NEW n \in Nat, Cardinality(S) <= n
  PROVE  Cardinality(T) <= n
<1>1. IsFiniteSet(S) /\ Cardinality(S) \in Nat /\ Cardinality(T) \in Nat BY FiniteCommands
<1>2. Cardinality(T) <= Cardinality(S) BY <1>1, FS_Subset
<1> QED BY <1>1, <1>2

LEMMA OneMore ==
  ASSUME NEW S, S \subseteq Commands, NEW i \in Commands, NEW n \in Nat, Cardinality(S) < n
  PROVE  Cardinality(S \cup {i}) <= n
<1>1. IsFiniteSet(S) /\ Cardinality(S) \in Nat BY FiniteCommands
<1>2. Cardinality(S \cup {i}) = IF i \in S THEN Cardinality(S) ELSE Cardinality(S) + 1
  BY <1>1, FS_AddElement
<1> QED BY <1>1, <1>2

LEMMA CancelPendingCapacity ==
  ASSUME Types, Capacities, NEW i \in Commands, NEW q, CancelPending(i, q)
  PROVE  Capacities'
<1>0. pending \subseteq Commands /\ controls \subseteq Commands /\ Cardinality(controls) \in Nat
  BY FiniteCommands DEF Types, Shape
<1>1. pending' \subseteq pending
      /\ (controls' = controls \/ (Cardinality(controls) < MaxControls /\ controls' = controls \cup {i}))
  BY <1>0, BridgeAssumption DEF CancelPending, Uncancellable
<1>2. Cardinality(pending') <= MaxPending BY <1>0, <1>1, Smaller, BridgeAssumption DEF Capacities
<1>3. Cardinality(controls') <= MaxControls BY <1>0, <1>1, OneMore, BridgeAssumption DEF Capacities
<1> QED BY <1>2, <1>3 DEF Capacities

LEMMA CapacitiesStep == Types /\ Capacities /\ [Next]_vars => Capacities'
<1> SUFFICES ASSUME Types, Capacities, [Next]_vars PROVE Capacities' OBVIOUS
<1>0. /\ p \in [Commands -> Record] /\ commands \in Seq(Commands)
      /\ pending \subseteq Commands /\ controls \subseteq Commands
  BY DEF Types, Shape
<1>1. ASSUME pending' \subseteq pending, controls' \subseteq controls PROVE Capacities'
  BY <1>0, <1>1, Smaller, BridgeAssumption DEF Capacities
<1>2. ASSUME NEW i \in Commands, Register(i) PROVE Capacities'
  <2>1. Cardinality(pending) < MaxPending /\ pending' = pending \cup {i} /\ controls' = controls
    BY <1>2 DEF Register, instance
  <2>2. Cardinality(pending') <= MaxPending BY <1>0, <2>1, OneMore, BridgeAssumption
  <2> QED BY <2>1, <2>2 DEF Capacities
<1>3. ASSUME NEW i \in Commands, CallReturns(i) PROVE Capacities'
  <2>1. CASE i \in pending BY <1>3, <2>1, CancelPendingCapacity DEF CallReturns
  <2>2. CASE i \notin pending BY <1>1, <1>3, <2>2 DEF CallReturns
  <2> QED BY <2>1, <2>2
<1>4. ASSUME NEW i \in Commands, GateWatch(i) PROVE Capacities'
  <2>1. CASE i \in pending BY <1>4, <2>1, CancelPendingCapacity DEF GateWatch
  <2>2. CASE i \notin pending BY <1>1, <1>4, <2>2 DEF GateWatch
  <2> QED BY <2>1, <2>2
<1>5. ASSUME NEW i \in Commands, NEW heard \in BOOLEAN, ReceiveResult(i, heard)
      PROVE  pending' \subseteq pending /\ controls' \subseteq controls
  <2>1. controls' = controls BY <1>5 DEF ReceiveResult, instance
  <2> QED BY <1>0, <1>5, <2>1, ReceiveResultEffect
<1>6. CASE DispatchCommand
  <2>1. controls' = controls BY <1>6 DEF DispatchCommand
  <2> QED BY <1>0, <1>1, <1>6, <2>1, DispatchCommandEffect
<1>7. ASSUME NEW i \in Commands,
             \/ Route(i) \/ Enqueue(i) \/ DispatchCancel(i) \/ AuthorizeStart(i) \/ GateGranted(i)
             \/ GateRefused(i) \/ AuthorizeEnd(i) \/ Revoke(i) \/ JobStart(i)
             \/ JobAuthorized(i) \/ JobEnd(i)
      PROVE  pending' \subseteq pending /\ controls' \subseteq controls
  BY <1>7 DEF Route, Enqueue, DispatchCancel, AuthorizeStart, GateGranted, GateRefused, AuthorizeEnd,
              Revoke, JobStart, JobAuthorized, JobEnd, bridge, instance
<1>8. ASSUME \/ StreamLost \/ Connect \/ ComputerUse \/ Close \/ Intake
             \/ Unlink \/ Reconfigure \/ WorkerRestart \/ UNCHANGED vars
      PROVE  pending' \subseteq pending /\ controls' \subseteq controls
  BY <1>8 DEF StreamLost, Connect, ComputerUse, Close, Intake, Unlink, Reconfigure, WorkerRestart,
              bridge, instance, vars
<1> QED BY <1>1, <1>2, <1>3, <1>4, <1>5, <1>6, <1>7, <1>8 DEF Next
-----------------------------------------------------------------------------
(* Theorems.                                                                *)

IInv == Types /\ Capacities /\ BridgeIInv

LEMMA InitIInv == Init => IInv
<1> SUFFICES ASSUME Init PROVE IInv OBVIOUS
<1> USE BridgeAssumption DEF Init
<1>1. Types
  <2>1. NoCommand \in CommandData BY DEF NoCommand, CommandData
  <2>2. NoRecord \in Record BY DEF NoRecord, Record
  <2>3. cmd \in [Commands -> CommandData] /\ p \in [Commands -> Record] BY <2>1, <2>2
  <2>4. boots \in Seq(1..MaxBoots) /\ Len(boots) = stream OBVIOUS
  <2>5. commands \in Seq(Commands) /\ wire \in Seq(Message) OBVIOUS
  <2>6. stream \in 0..MaxStreams /\ extBoot \in 1..MaxBoots OBVIOUS
  <2> QED BY <2>3, <2>4, <2>5, <2>6 DEF Types, Shape
<1>2. Capacities
  <2>1. Cardinality(pending) = 0 /\ Cardinality(controls) = 0 BY FS_EmptySet
  <2> QED BY <2>1 DEF Capacities
<1>3. Flow
  <2>1. DOMAIN commands = {} /\ DOMAIN wire = {} OBVIOUS
  <2> QED BY <2>1 DEF Flow, Queue, Wire, Jobs, Quiet, Orderly
<1>4. Calls BY DEF Calls, NoRecord
<1>5. Reservations BY DEF Reservations, ReservationsMatchGate, NoRecord
<1>6. Work BY DEF Work, Active, Boot, NoCommand
<1>7. NoStaleHandle BY DEF NoStaleHandle
<1> QED BY <1>1, <1>2, <1>3, <1>4, <1>5, <1>6, <1>7 DEF IInv, BridgeIInv

\* The invariant that the properties of the bridge rest on: a command's way is queue,
\* wire, job, result; records follow calls; the gate follows reservations.
THEOREM BridgeInvariance == Spec => []IInv
<1>1. IInv /\ [Next]_vars => IInv'
  <2> SUFFICES ASSUME Types, Capacities, Flow, Calls, Reservations, Work, NoStaleHandle, [Next]_vars
               PROVE  IInv'
    BY DEF IInv, BridgeIInv
  <2>1. Types' BY TypesStep
  <2>2. Capacities' BY CapacitiesStep
  <2>3. Flow' BY FlowStep
  <2>4. Calls' BY CallsStep
  <2>5. Reservations' BY ReservationsStep
  <2>6. Work' BY WorkStep
  <2>7. NoStaleHandle' BY HandlesStep
  <2> QED BY <2>1, <2>2, <2>3, <2>4, <2>5, <2>6, <2>7 DEF IInv, BridgeIInv
<1> QED BY InitIInv, <1>1, PTL DEF Spec

\* Types, capacities, and reservations that are neither leaked nor given back early.
THEOREM ReservationsAreKept == Spec => []BridgeInv
<1>1. IInv => BridgeInv
  <2> SUFFICES ASSUME IInv PROVE BridgeInv OBVIOUS
  <2>1. sent \in [Commands -> 0..2]
    <3>1. sent \in [Commands -> 0..1] BY DEF IInv, BridgeIInv, Calls
    <3>2. \A i \in Commands : sent[i] \in 0..2 BY <3>1
    <3> QED BY <3>1, <3>2
  <2>2. TypeOK BY <2>1 DEF IInv, Types, Shape, Capacities, TypeOK, CommandData
  <2>3. ReservationsMatchGate BY DEF IInv, BridgeIInv, Reservations
  <2> QED BY <2>2, <2>3 DEF BridgeInv
<1> QED BY BridgeInvariance, <1>1, PTL

\* No result, reconnection or restart answers a call a second time, so the channel
\* with room for one answer never blocks a handler that holds the mutex.
THEOREM AnsweredOnce == Spec => []OneResponsePerCall
<1>1. IInv => OneResponsePerCall
  <2> SUFFICES ASSUME IInv, NEW i \in Commands PROVE sent[i] <= 1 BY DEF OneResponsePerCall
  <2>1. sent[i] \in 0..1 BY DEF IInv, BridgeIInv, Calls
  <2> QED BY <2>1
<1> QED BY BridgeInvariance, <1>1, PTL

\* Work of the connected generation on a visible page never runs without the desktop.
THEOREM DesktopIsHeld == Spec => []VisibleWorkHoldsDesktop
<1>1. IInv => VisibleWorkHoldsDesktop
  <2> SUFFICES ASSUME IInv, NEW i \in Commands, job[i] = "executing", cmd[i].visible,
                      cmd[i].boot = Boot, ~closed
               PROVE  gate = i
    BY DEF VisibleWorkHoldsDesktop
  <2>1. i \in pending /\ p[i].reserved BY DEF IInv, BridgeIInv, Work, Active
  <2> QED BY <2>1 DEF IInv, BridgeIInv, Reservations, ReservationsMatchGate
<1> QED BY BridgeInvariance, <1>1, PTL

\* A result the bridge accepted speaks for an execution that is over for good.
THEOREM ResultsAreFinal == Spec => []AcknowledgedWorkIsOver
<1>1. IInv => AcknowledgedWorkIsOver
  <2> SUFFICES ASSUME IInv, NEW i \in acked
               PROVE  job[i] = "none"
                      /\ \A k \in DOMAIN wire : wire[k] # [method |-> "command", id |-> i]
    BY DEF AcknowledgedWorkIsOver
  <2>1. i \in Commands BY DEF IInv, Types, Shape
  <2>2. job[i] = "none" BY <2>1 DEF IInv, BridgeIInv, Flow, Jobs, Orderly
  <2>3. ASSUME NEW k \in DOMAIN wire, wire[k] = [method |-> "command", id |-> i] PROVE FALSE
    <3>1. wire[k].method = "command" /\ wire[k].id = i BY <2>3
    <3>2. Quiet(i) BY <3>1 DEF IInv, BridgeIInv, Flow, Wire
    <3> QED BY <3>2 DEF Quiet
  <2> QED BY <2>2, <2>3
<1> QED BY BridgeInvariance, <1>1, PTL

\* A tab handle never selects a tab on a stream it was not issued for.
THEOREM HandlesAreFresh == Spec => []NoStaleHandle
<1>1. IInv => NoStaleHandle BY DEF IInv, BridgeIInv
<1> QED BY BridgeInvariance, <1>1, PTL

\* A command is dispatched only for a call that still waits, on the stream it was
\* queued for: nothing is replayed.
THEOREM NothingReplayed == Spec => NoReplay
<1>1. IInv /\ [Next]_vars =>
        [\A i \in Commands : ~p[i].dispatched /\ p'[i].dispatched =>
           caller[i] = "waiting" /\ cmd[i].stream = stream /\ up]_vars
  <2> SUFFICES ASSUME IInv, [Next]_vars, NEW i \in Commands, ~p[i].dispatched, p'[i].dispatched
               PROVE  caller[i] = "waiting" /\ cmd[i].stream = stream /\ up
    OBVIOUS
  <2>0. /\ p \in [Commands -> Record] /\ commands \in Seq(Commands) /\ pending \subseteq Commands
    BY DEF IInv, Types, Shape
  <2>1. DispatchCommand
    <3>1. ASSUME NEW j \in Commands,
                 \/ Route(j) \/ Register(j) \/ Enqueue(j) \/ DispatchCancel(j) \/ GateGranted(j)
                 \/ Revoke(j) \/ JobStart(j) \/ JobAuthorized(j) \/ JobEnd(j)
          PROVE  p'[i].dispatched = p[i].dispatched
      BY <2>0, <3>1 DEF Route, Register, Enqueue, DispatchCancel, GateGranted, Revoke, JobStart,
                        JobAuthorized, JobEnd, bridge, Record
    <3>2. ASSUME NEW j \in Commands,
                 \/ CallReturns(j) \/ AuthorizeStart(j) \/ GateRefused(j) \/ AuthorizeEnd(j)
                 \/ GateWatch(j) \/ \E heard \in BOOLEAN : ReceiveResult(j, heard)
          PROVE  p'[i].dispatched = p[i].dispatched
      BY <2>0, <3>2, CallReturnsEffect, AuthorizeStartEffect, GateRefusedEffect,
         AuthorizeEndEffect, GateWatchEffect, ReceiveResultEffect DEF Same
    <3>3. ASSUME StreamLost \/ Connect \/ Close PROVE p'[i].dispatched = p[i].dispatched
      BY <2>0, <3>3, StreamLostEffect, ConnectEffect, CloseEffect
    <3>4. ASSUME \/ ComputerUse \/ Intake \/ Unlink \/ Reconfigure \/ WorkerRestart \/ UNCHANGED vars
          PROVE  p'[i].dispatched = p[i].dispatched
      BY <3>4 DEF ComputerUse, Intake, Unlink, Reconfigure, WorkerRestart, bridge, vars
    <3> QED BY <3>1, <3>2, <3>3, <3>4 DEF Next
  <2>2. i = Head(commands) /\ commands # <<>> /\ Dispatchable(i)
    BY <2>0, <2>1, DispatchCommandEffect DEF Same
  <2>3. 1 \in DOMAIN commands /\ i = commands[1] BY <2>0, <2>2, TailElements
  <2>4. caller[i] \in {"waiting", "returned"} /\ cmd[i].stream = stream
    BY <2>3 DEF IInv, BridgeIInv, Flow, Queue
  <2>5. caller[i] # "returned" BY <2>2 DEF IInv, BridgeIInv, Calls, Dispatchable
  <2> QED BY <2>1, <2>4, <2>5 DEF DispatchCommand
<1> QED BY BridgeInvariance, <1>1, PTL DEF Spec, NoReplay
=============================================================================
