------------------------ MODULE NativeControllerProofs ------------------------
(***************************************************************************)
(* Theorems about NativeController and the worker it drives, for any calls *)
(* and any numbers of workers, troubles, observations and waiting calls.   *)
(***************************************************************************)
EXTENDS NativeController, SequenceTheorems, FiniteSetTheorems, TLAPS

(***************************************************************************)
(* Sequences.                                                              *)
(***************************************************************************)

LEMMA InAppend ==
  ASSUME NEW S, NEW s \in Seq(S), NEW x \in S
  PROVE  Append(s, x) \in Seq(S) /\ ToSet(Append(s, x)) = ToSet(s) \cup {x}
<1>1. /\ Append(s, x) \in Seq(S) /\ DOMAIN Append(s, x) = DOMAIN s \cup {Len(s) + 1}
      /\ \A i \in DOMAIN s : Append(s, x)[i] = s[i]
      /\ Append(s, x)[Len(s) + 1] = x
  OBVIOUS
<1> QED BY <1>1 DEF ToSet

LEMMA InTail ==
  ASSUME NEW S, NEW s \in Seq(S), s # <<>>
  PROVE  /\ Tail(s) \in Seq(S) /\ Head(s) \in S
         /\ ToSet(s) = ToSet(Tail(s)) \cup {Head(s)}
<1>1. /\ Tail(s) \in Seq(S) /\ Head(s) = s[1] /\ 1 \in DOMAIN s
      /\ \A i \in DOMAIN Tail(s) : i + 1 \in DOMAIN s /\ Tail(s)[i] = s[i + 1]
      /\ \A k \in DOMAIN s : k = 1 \/ k - 1 \in DOMAIN Tail(s)
      /\ \A k \in DOMAIN s : k \in Int /\ k - 1 + 1 = k
  OBVIOUS
<1>2. ToSet(s) \subseteq ToSet(Tail(s)) \cup {Head(s)}
  <2> SUFFICES ASSUME NEW k \in DOMAIN s PROVE s[k] \in ToSet(Tail(s)) \cup {Head(s)}
    BY DEF ToSet
  <2>1. CASE k = 1 BY <1>1, <2>1
  <2>2. CASE k - 1 \in DOMAIN Tail(s)
    <3>1. Tail(s)[k - 1] = s[k] BY <1>1, <2>2
    <3> QED BY <2>2, <3>1 DEF ToSet
  <2> QED BY <1>1, <2>1, <2>2
<1>3. ToSet(Tail(s)) \cup {Head(s)} \subseteq ToSet(s) BY <1>1 DEF ToSet
<1>4. s[1] \in S OBVIOUS
<1>5. ToSet(s) = ToSet(Tail(s)) \cup {Head(s)} BY <1>2, <1>3
<1> QED BY <1>1, <1>4, <1>5

\* A sequence cut in two.
LEMMA InCut ==
  ASSUME NEW S, NEW s \in Seq(S), NEW n \in 0..Len(s)
  PROVE  /\ SubSeq(s, 1, n) \in Seq(S)
         /\ ToSet(s) = ToSet(SubSeq(s, 1, n)) \cup ToSet(SubSeq(s, n + 1, Len(s)))
<1>0. Len(s) \in Nat /\ n \in Nat /\ n <= Len(s) /\ DOMAIN s = 1..Len(s) OBVIOUS
<1>1. /\ SubSeq(s, 1, n) \in Seq(S) /\ DOMAIN SubSeq(s, 1, n) = 1..n
      /\ \A i \in 1..n : SubSeq(s, 1, n)[i] = s[i]
  BY <1>0
<1> DEFINE d == SubSeq(s, n + 1, Len(s))
<1>2. /\ DOMAIN d = 1..(Len(s) - n)
      /\ \A i \in 1..(Len(s) - n) : d[i] = s[n + i]
  BY <1>0
<1> HIDE DEF d
<1>3. ToSet(s) \subseteq ToSet(SubSeq(s, 1, n)) \cup ToSet(d)
  <2> SUFFICES ASSUME NEW k \in DOMAIN s PROVE s[k] \in ToSet(SubSeq(s, 1, n)) \cup ToSet(d)
    BY DEF ToSet
  <2>1. CASE k <= n BY <1>0, <1>1, <2>1 DEF ToSet
  <2>2. CASE k > n
    <3>1. k - n \in DOMAIN d /\ n + (k - n) = k BY <1>0, <1>2, <2>2
    <3>2. d[k - n] = s[k] BY <1>2, <3>1
    <3> QED BY <3>1, <3>2 DEF ToSet
  <2> QED BY <1>0, <2>1, <2>2
<1>4. ToSet(SubSeq(s, 1, n)) \subseteq ToSet(s) BY <1>0, <1>1 DEF ToSet
<1>5. ToSet(d) \subseteq ToSet(s)
  <2> SUFFICES ASSUME NEW i \in DOMAIN d PROVE d[i] \in ToSet(s) BY DEF ToSet
  <2>1. n + i \in DOMAIN s /\ d[i] = s[n + i] BY <1>0, <1>2
  <2> QED BY <2>1 DEF ToSet
<1> QED BY <1>1, <1>3, <1>4, <1>5 DEF d

(***************************************************************************)
(* Types.                                                                  *)
(***************************************************************************)

\* What the main thread executes, and what the reader handles by itself.
WorkReqs     == [kind : {"hello", "work"}, of : Calls]
Interrupting == [kind : {"cancel"}, of : Calls] \cup [kind : {"stop"}, of : Nat]
ActReqs      == [kind : {"work"}, of : Acts]

Messages == [type : {"down", "up"}, keys : SUBSET Acts] \cup {LocalStopped}
              \cup [type : {"reply"}, to : Requests, result : {"ok", "error", "settling"}]

MainPlaces == {"idle", "look", "record", "clear", "act", "press", "pressing", "pressed", "release",
               "submit", "await", "fail", "reply", "forget"}
Acting == {"act", "press", "pressing", "pressed", "release", "submit"}
Places == {"idle", "gate", "release", "releasing", "start", "send", "await", "drain", "stop", "kill",
           "wait", "stop_release", "stop_releasing", "ok", "error", "canceled", "settling", "done",
           "read", "ended"}

MainTypes ==
  /\ main \in [pc : MainPlaces, req : WorkReqs \cup {NoRequest}, result : {"ok", "error"}]
  /\ main.pc = "idle" => main.req = NoRequest
  /\ main.pc # "idle" => main.req \in WorkReqs
  /\ main.pc \in Acting => main.req \in ActReqs

ReaderTypes ==
  /\ reader \in [pc : {"read", "release", "bump", "answer", "gone"},
                 msg : Interrupting \cup {NoRequest}, clean : BOOLEAN]
  /\ reader.pc = "answer" => reader.msg # NoRequest

UiaTypes ==
  /\ stops \in Nat /\ settled \in Nat
  /\ uia \in [pc : {"idle", "queued", "dispatching"}, of : Acts \cup {NoRequest},
              cancel : BOOLEAN, gen : Nat, answer : {"none", "ok", "error"}]

WorkerTypes ==
  /\ hostUp \in BOOLEAN /\ alive \in BOOLEAN /\ open \in BOOLEAN
  /\ worker \in 0..MaxWorkers /\ (alive => worker \in Workers)
  /\ stdin \in Seq(Requests) /\ out \in [Workers -> Seq(Messages)] /\ queue \in Seq(WorkReqs)
  /\ active \in WorkReqs \cup {NoRequest}
  /\ journal \subseteq Acts /\ held \subseteq Acts /\ refused \subseteq Acts
  /\ troubles \in 0..MaxTroubles
  /\ MainTypes /\ ReaderTypes /\ UiaTypes

\* What a thread at a place has asked for, when the requests `registered` are registered.
Asked(t, place, r, registered) ==
  /\ t \in Calls /\ place \in {"send", "await", "drain", "stop", "kill", "wait", "stop_release",
                               "stop_releasing"} => r \in {Hello(t), Work(t), Cancel(t)}
  /\ t = Resetter /\ place \in {"send", "await"} => r \in [kind : {"stop"}, of : Nat]
  /\ place \in {"send", "await"} => t \in Calls \cup {Resetter}
  /\ place = "start" => t \in Calls
  /\ place = "await" => r \in registered

Asks == \A t \in Threads : Asked(t, at[t], req[t], DOMAIN pending)

HostTypes ==
  /\ at \in [Threads -> Places] /\ req \in [Threads -> Requests \cup {NoRequest}]
  /\ gate \in Calls \cup {NoCall} /\ cmd \in 0..MaxWorkers
  /\ DOMAIN pending \subseteq Requests
  /\ pending \in [DOMAIN pending -> {"none", "ok", "error", "settling"}]
  /\ inputs \subseteq Acts /\ rel \in [Threads -> SUBSET Acts] /\ lost \subseteq Acts
  /\ reaped \subseteq Workers /\ closed \in BOOLEAN /\ resets \in Nat
  /\ known \subseteq Looks /\ covered \subseteq Acts /\ quiet \subseteq Acts
  /\ Asks

Types == WorkerTypes /\ HostTypes

LEMMA RequestKinds ==
  ASSUME NEW r \in Requests
  PROVE  /\ r.kind \in {"hello", "work"} => r \in WorkReqs
         /\ r.kind \in {"cancel", "stop"} => r \in Interrupting
         /\ r \in WorkReqs \/ r \in Interrupting
BY DEF Requests, WorkReqs, Interrupting

LEMMA WorkKinds ==
  /\ WorkReqs \subseteq Requests /\ Interrupting \subseteq Requests /\ ActReqs \subseteq WorkReqs
  /\ WorkReqs \cap Interrupting = {}
  /\ NoRequest \notin WorkReqs /\ NoRequest \notin Interrupting
  /\ \A c \in Calls : Hello(c) \in WorkReqs /\ Work(c) \in WorkReqs /\ Cancel(c) \in Interrupting
  /\ \A n \in Nat : Stop(n) \in Interrupting
  /\ \A r \in WorkReqs : r.of \in Calls /\ r.kind \in {"hello", "work"}
  /\ \A r \in ActReqs : r.of \in Acts /\ r = Work(r.of)
  /\ \A r \in WorkReqs : r.kind = "work" /\ r.of \notin Looks => r \in ActReqs
  /\ \A r \in WorkReqs : r = Hello(r.of) \/ r = Work(r.of)
<1>1. WorkReqs \subseteq Requests /\ Interrupting \subseteq Requests /\ ActReqs \subseteq WorkReqs
  BY DEF Requests, WorkReqs, Interrupting, ActReqs, Calls
<1>2. WorkReqs \cap Interrupting = {} BY DEF WorkReqs, Interrupting
<1>3. NoRequest \notin WorkReqs /\ NoRequest \notin Interrupting
  BY <1>1, WorkerAssumption
<1>4. /\ \A c \in Calls : Hello(c) \in WorkReqs /\ Work(c) \in WorkReqs /\ Cancel(c) \in Interrupting
      /\ \A n \in Nat : Stop(n) \in Interrupting
  BY DEF WorkReqs, Interrupting, Hello, Work, Cancel, Stop, Request
<1>5. /\ \A r \in WorkReqs : r.of \in Calls /\ r.kind \in {"hello", "work"}
      /\ \A r \in ActReqs : r.of \in Acts /\ r = Work(r.of)
      /\ \A r \in WorkReqs : r.kind = "work" /\ r.of \notin Looks => r \in ActReqs
      /\ \A r \in WorkReqs : r = Hello(r.of) \/ r = Work(r.of)
  BY DEF WorkReqs, ActReqs, Hello, Work, Request, Calls
<1> QED BY <1>1, <1>2, <1>3, <1>4, <1>5

LEMMA MessageKinds ==
  /\ \A c \in Acts : Down(c) \in Messages
  /\ \A S \in SUBSET Acts : Up(S) \in Messages
  /\ LocalStopped \in Messages
  /\ \A r \in Requests : \A res \in {"ok", "error", "settling"} : Reply(r, res) \in Messages
BY DEF Messages, Down, Up, LocalStopped, Reply

\* What the worker processes have said and the host has not read.
Said == UNION {ToSet(out[w]) : w \in Workers}

LEMMA Written ==
  ASSUME out \in [Workers -> Seq(Messages)], worker \in Workers, NEW m \in Messages, Write(m)
  PROVE  out' \in [Workers -> Seq(Messages)] /\ Said' = Said \cup {m}
<1>1. out[worker] \in Seq(Messages) OBVIOUS
<1>2. /\ Append(out[worker], m) \in Seq(Messages)
      /\ ToSet(Append(out[worker], m)) = ToSet(out[worker]) \cup {m}
  BY <1>1, InAppend
<1>3. /\ out' \in [Workers -> Seq(Messages)] /\ out'[worker] = Append(out[worker], m)
      /\ \A w \in Workers \ {worker} : out'[w] = out[w]
  BY <1>2 DEF Write
<1>4. /\ ToSet(out'[worker]) = ToSet(out[worker]) \cup {m}
      /\ \A w \in Workers \ {worker} : ToSet(out'[w]) = ToSet(out[w])
  BY <1>2, <1>3
<1>5. ASSUME NEW x PROVE x \in Said' <=> x \in Said \cup {m}
  <2>1. x \in Said' <=> \E w \in Workers : x \in ToSet(out'[w]) BY DEF Said
  <2>2. x \in Said <=> \E w \in Workers : x \in ToSet(out[w]) BY DEF Said
  <2> QED BY <1>4, <2>1, <2>2
<1> QED BY <1>3, <1>5

LEMMA TroubleTypes ==
  ASSUME troubles \in 0..MaxTroubles, NEW n \in Nat, Trouble(n)
  PROVE  troubles' \in 0..MaxTroubles
BY WorkerAssumption DEF Trouble

LEMMA ActsAreFew ==
  ASSUME NEW S \in SUBSET Acts PROVE Cardinality(S) \in Nat
BY WorkerAssumption, FS_Subset, FS_CardinalityType DEF Calls

LEMMA ReleaseTypes ==
  ASSUME WorkerTypes, alive, NEW rejected, ReleaseAll(rejected)
  PROVE  /\ journal' \subseteq Acts /\ held' \subseteq Acts /\ refused' \subseteq Acts
         /\ troubles' \in 0..MaxTroubles /\ out' \in [Workers -> Seq(Messages)]
         /\ Said' = Said \/ Said' = Said \cup {Up(journal \ rejected)}
<1>1. journal \subseteq Acts /\ held \subseteq Acts /\ refused \subseteq Acts
      /\ troubles \in 0..MaxTroubles /\ out \in [Workers -> Seq(Messages)] /\ worker \in Workers
  BY DEF WorkerTypes
<1>2. /\ rejected \subseteq journal /\ journal' = rejected /\ held' = held \ (journal \ rejected)
      /\ refused' = refused \cup rejected /\ Trouble(Cardinality(rejected))
      /\ out' = out \/ Write(Up(journal \ rejected))
  BY DEF ReleaseAll
<1>3. troubles' \in 0..MaxTroubles BY <1>1, <1>2, ActsAreFew, TroubleTypes
<1>4. Up(journal \ rejected) \in Messages BY <1>1, MessageKinds
<1>5. CASE out' = out BY <1>1, <1>2, <1>3, <1>5 DEF Said
<1>6. CASE Write(Up(journal \ rejected)) BY <1>1, <1>2, <1>3, <1>4, <1>6, Written
<1> QED BY <1>2, <1>5, <1>6

LEMMA EndTypes ==
  ASSUME WorkerEnds
  PROVE  /\ alive' = FALSE /\ stdin' \in Seq(Requests) /\ queue' \in Seq(WorkReqs)
         /\ active' \in WorkReqs \cup {NoRequest} /\ journal' \subseteq Acts
         /\ MainTypes' /\ ReaderTypes' /\ UiaTypes'
BY WorkKinds DEF WorkerEnds, IdleMain, IdleReader, IdleUia, MainTypes, ReaderTypes, UiaTypes,
   MainPlaces, Acting

LEMMA ReaderKeepsTypes ==
  ASSUME WorkerTypes, ReaderStep
  PROVE  WorkerTypes'
<1> USE DEF procVars, pipeVars, inputVars, loopVars, obsVars
<1>1. CASE ReadWork
  <2>1. stdin # <<>> /\ Head(stdin).kind \in {"hello", "work"} /\ stdin' = Tail(stdin)
        /\ active' = Head(stdin) /\ queue' = Append(queue, Head(stdin))
    BY <1>1 DEF ReadWork
  <2>2. stdin \in Seq(Requests) /\ queue \in Seq(WorkReqs) BY DEF WorkerTypes
  <2>3. Head(stdin) \in Requests /\ stdin' \in Seq(Requests) BY <2>1, <2>2, InTail
  <2>4. Head(stdin) \in WorkReqs BY <2>1, <2>3, RequestKinds
  <2>5. queue' \in Seq(WorkReqs) BY <2>1, <2>2, <2>4, InAppend
  <2> QED BY <1>1, <2>1, <2>3, <2>4, <2>5 DEF ReadWork, WorkerTypes, MainTypes, ReaderTypes, UiaTypes
<1>2. CASE ReadInterrupt
  <2>1. stdin # <<>> /\ Head(stdin).kind \in {"cancel", "stop"} /\ stdin' = Tail(stdin)
        /\ reader' = [pc |-> IF Head(stdin).kind = "stop" \/ Cancels(Head(stdin))
                             THEN "release" ELSE "answer",
                      msg |-> Head(stdin), clean |-> TRUE]
    BY <1>2 DEF ReadInterrupt
  <2>2. Head(stdin) \in Requests /\ stdin' \in Seq(Requests) BY <2>1, InTail DEF WorkerTypes
  <2>3. Head(stdin) \in Interrupting BY <2>1, <2>2, RequestKinds
  <2>4. ReaderTypes' BY <2>1, <2>3, WorkKinds DEF ReaderTypes
  <2> QED BY <1>2, <2>2, <2>4 DEF ReadInterrupt, WorkerTypes, MainTypes, UiaTypes
<1>3. CASE ReadEnd
  <2>1. ReaderTypes' BY <1>3 DEF ReadEnd, ReaderTypes
  <2> QED BY <1>3, <2>1 DEF ReadEnd, WorkerTypes, MainTypes, UiaTypes
<1>4. CASE ReaderRelease
  <2>1. alive /\ \E rejected \in SUBSET journal : ReleaseAll(rejected)
    BY <1>4 DEF ReaderRelease, ReaderAt
  <2>2. /\ journal' \subseteq Acts /\ held' \subseteq Acts /\ refused' \subseteq Acts
        /\ troubles' \in 0..MaxTroubles /\ out' \in [Workers -> Seq(Messages)]
    BY <2>1, ReleaseTypes
  <2>3. ReaderTypes'
    <3>1. PICK rejected \in SUBSET journal : reader' = [reader EXCEPT
            !.pc = IF reader.msg # NoRequest /\ reader.msg.kind = "cancel" THEN "answer" ELSE "bump",
            !.clean = (rejected = {})]
      BY <1>4 DEF ReaderRelease
    <3> QED BY <3>1 DEF WorkerTypes, ReaderTypes
  <2> QED BY <1>4, <2>2, <2>3 DEF ReaderRelease, WorkerTypes, MainTypes, UiaTypes
<1>5. CASE ReaderBump
  <2>1. alive /\ worker \in Workers /\ out \in [Workers -> Seq(Messages)]
    BY <1>5 DEF ReaderBump, ReaderAt, WorkerTypes
  <2>2. out' = out \/ Write(LocalStopped) BY <1>5 DEF ReaderBump
  <2>3. out' \in [Workers -> Seq(Messages)] BY <2>1, <2>2, MessageKinds, Written
  <2>4. ReaderTypes' BY <1>5 DEF ReaderBump, ReaderTypes, WorkerTypes
  <2> QED BY <1>5, <2>3, <2>4 DEF ReaderBump, WorkerTypes, MainTypes, UiaTypes
<1>6. CASE ReaderAnswer
  <2>1. alive /\ worker \in Workers /\ out \in [Workers -> Seq(Messages)]
    BY <1>6 DEF ReaderAnswer, ReaderAt, WorkerTypes
  <2>2. Write(Reply(reader.msg, InterruptResult(reader.msg))) BY <1>6 DEF ReaderAnswer
  <2>3. reader.msg \in Requests
    BY <1>6, WorkKinds DEF ReaderAnswer, ReaderAt, WorkerTypes, ReaderTypes
  <2>4. InterruptResult(reader.msg) \in {"ok", "error", "settling"} BY DEF InterruptResult
  <2>5. out' \in [Workers -> Seq(Messages)] BY <2>1, <2>2, <2>3, <2>4, MessageKinds, Written
  <2>6. ReaderTypes' BY <1>6 DEF ReaderAnswer, ReaderTypes, IdleReader
  <2>7. UiaTypes'
    <3>1. stops' = stops /\ uia' = uia /\ (settled' = stops \/ settled' = settled)
      BY <1>6 DEF ReaderAnswer
    <3> QED BY <3>1 DEF WorkerTypes, UiaTypes
  <2> QED BY <1>6, <2>5, <2>6, <2>7 DEF ReaderAnswer, WorkerTypes, MainTypes
<1> QED BY <1>1, <1>2, <1>3, <1>4, <1>5, <1>6 DEF ReaderStep

LEMMA OverlayKeepsTypes ==
  ASSUME WorkerTypes, OverlayStep
  PROVE  WorkerTypes'
<1> USE DEF procVars, pipeVars, inputVars, loopVars, obsVars
<1>1. CASE Click
  <2>1. troubles' \in 0..MaxTroubles BY <1>1, TroubleTypes DEF Click, WorkerTypes
  <2> QED BY <1>1, <2>1 DEF Click, WorkerTypes, MainTypes, ReaderTypes, UiaTypes
<1>2. CASE ClickRelease
  <2>1. alive /\ \E rejected \in SUBSET journal : ReleaseAll(rejected)
    BY <1>2 DEF ClickRelease
  <2>2. /\ journal' \subseteq Acts /\ held' \subseteq Acts /\ refused' \subseteq Acts
        /\ troubles' \in 0..MaxTroubles /\ out' \in [Workers -> Seq(Messages)]
    BY <2>1, ReleaseTypes
  <2> QED BY <1>2, <2>2 DEF ClickRelease, WorkerTypes, MainTypes, ReaderTypes, UiaTypes
<1>3. CASE ClickDone
  <2>1. out' \in [Workers -> Seq(Messages)]
    BY <1>3, MessageKinds, Written DEF ClickDone, WorkerTypes
  <2> QED BY <1>3, <2>1 DEF ClickDone, WorkerTypes, MainTypes, ReaderTypes, UiaTypes
<1> QED BY <1>1, <1>2, <1>3 DEF OverlayStep

LEMMA UiaKeepsTypes ==
  ASSUME WorkerTypes, UiaStep
  PROVE  WorkerTypes'
<1> USE DEF procVars, pipeVars, inputVars, loopVars, obsVars
<1>1. UiaTypes' BY DEF UiaStep, Dispatch, Dispatched, UiaTypes, WorkerTypes
<1>2. CASE Dispatch BY <1>1, <1>2 DEF Dispatch, WorkerTypes, MainTypes, ReaderTypes
<1>3. CASE Dispatched BY <1>1, <1>3 DEF Dispatched, WorkerTypes, MainTypes, ReaderTypes
<1> QED BY <1>2, <1>3 DEF UiaStep

\* Where a step of the main thread that goes on with its request may lead.
LEMMA GoesTypes ==
  ASSUME MainTypes, main.pc # "idle", NEW pc \in MainPlaces \ {"idle"},
         Goes(pc) \/ Replies("ok") \/ Replies("error"),
         pc \in Acting => main.req \in ActReqs
  PROVE  MainTypes'
BY DEF MainTypes, Goes, Replies, MainPlaces, Acting

LEMMA MainKeepsTypes ==
  ASSUME WorkerTypes, MainStep
  PROVE  WorkerTypes'
<1> USE DEF procVars, pipeVars, inputVars, loopVars, obsVars, restOfLoop
<1>0. /\ MainTypes /\ UiaTypes /\ journal \subseteq Acts /\ held \subseteq Acts /\ refused \subseteq Acts
      /\ troubles \in 0..MaxTroubles /\ out \in [Workers -> Seq(Messages)]
      /\ (alive => worker \in Workers)
  BY DEF WorkerTypes
<1>a. main.pc \in Acting => MainCall \in Acts /\ main.req \in ActReqs
  BY <1>0, WorkKinds DEF MainTypes, MainCall
<1>b. \A n \in {0, 1} : Trouble(n) => troubles' \in 0..MaxTroubles
  BY <1>0, TroubleTypes
<1>c. \A m \in Messages : alive /\ Write(m) => out' \in [Workers -> Seq(Messages)]
  BY <1>0, Written
<1>d. ASSUME alive, \E rejected \in SUBSET journal : ReleaseAll(rejected)
      PROVE  /\ journal' \subseteq Acts /\ held' \subseteq Acts /\ refused' \subseteq Acts
             /\ troubles' \in 0..MaxTroubles /\ out' \in [Workers -> Seq(Messages)]
  BY <1>d, ReleaseTypes
<1>1. CASE MainReceive
  <2>1. queue # <<>> /\ queue' = Tail(queue) /\ main.pc = "idle" BY <1>1 DEF MainReceive, MainAt
  <2>2. Head(queue) \in WorkReqs /\ queue' \in Seq(WorkReqs) BY <2>1, InTail DEF WorkerTypes
  <2>3. MainTypes'
    <3>1. PICK pc \in {"fail", "reply", "look", "clear", "act"} :
            /\ main' = [pc |-> pc, req |-> Head(queue), result |-> "ok"]
            /\ pc = "act" => Head(queue).kind # "hello" /\ Head(queue).of \notin Looks
      BY <1>1 DEF MainReceive
    <3>2. pc = "act" => Head(queue) \in ActReqs BY <2>2, <3>1, WorkKinds
    <3> QED BY <2>2, <3>1, <3>2 DEF MainTypes, MainPlaces, Acting
  <2> QED BY <1>1, <2>2, <2>3 DEF MainReceive, WorkerTypes, ReaderTypes, UiaTypes
<1>2. CASE LookCheck
  <2>1. MainTypes' BY <1>0, <1>2, GoesTypes DEF LookCheck, MainAt, MainPlaces, Acting
  <2> QED BY <1>2, <2>1 DEF LookCheck, WorkerTypes, ReaderTypes, UiaTypes
<1>3. CASE LookRecord
  <2>1. MainTypes' BY <1>0, <1>3, GoesTypes DEF LookRecord, MainAt, MainPlaces, Acting
  <2> QED BY <1>3, <2>1 DEF LookRecord, WorkerTypes, ReaderTypes, UiaTypes
<1>4. CASE MainClear
  <2>1. MainTypes' BY <1>0, <1>4, GoesTypes DEF MainClear, MainAt, MainPlaces, Acting
  <2> QED BY <1>4, <2>1 DEF MainClear, WorkerTypes, ReaderTypes, UiaTypes
<1>5. CASE ActCheck
  <2>1. main.pc = "act" /\ (Goes("fail") \/ Goes("submit") \/ Goes("press"))
    BY <1>5 DEF ActCheck, MainAt
  <2>2. MainTypes' BY <1>0, <1>a, <2>1, GoesTypes DEF MainPlaces, Acting
  <2> QED BY <1>5, <2>2 DEF ActCheck, WorkerTypes, ReaderTypes, UiaTypes
<1>6. CASE PressJournal
  <2>1. main.pc = "press" /\ alive /\ MainCall \in Acts /\ main.req \in ActReqs
    BY <1>6, <1>a DEF PressJournal, MainAt, Acting
  <2>2. (Goes("fail") \/ Goes("pressing")) BY <1>6 DEF PressJournal
  <2>3. MainTypes' BY <1>0, <2>1, <2>2, GoesTypes DEF MainPlaces, Acting
  <2>4. journal' \subseteq Acts /\ out' \in [Workers -> Seq(Messages)]
    BY <1>0, <1>6, <1>c, <2>1, MessageKinds DEF PressJournal
  <2> QED BY <1>6, <2>3, <2>4 DEF PressJournal, WorkerTypes, ReaderTypes, UiaTypes
<1>7. CASE PressSend
  <2>1. main.pc = "pressing" /\ alive /\ MainCall \in Acts /\ main.req \in ActReqs
    BY <1>7, <1>a DEF PressSend, MainAt, Acting
  <2>2. Goes("fail") \/ Goes("pressed") BY <1>7 DEF PressSend
  <2>3. MainTypes' BY <1>0, <2>1, <2>2, GoesTypes DEF MainPlaces, Acting
  <2>4. Up({MainCall}) \in Messages BY <2>1, MessageKinds
  <2>5. /\ journal' \subseteq Acts /\ held' \subseteq Acts /\ troubles' \in 0..MaxTroubles
        /\ out' \in [Workers -> Seq(Messages)]
    BY <1>0, <1>7, <1>b, <1>c, <2>1, <2>4 DEF PressSend
  <2> QED BY <1>7, <2>3, <2>5 DEF PressSend, WorkerTypes, ReaderTypes, UiaTypes
<1>8. CASE PressUp
  <2>1. main.pc = "pressed" /\ alive /\ MainCall \in Acts /\ main.req \in ActReqs
    BY <1>8, <1>a DEF PressUp, MainAt, Acting
  <2>2. Goes("fail") \/ Goes("release") BY <1>8 DEF PressUp
  <2>3. MainTypes' BY <1>0, <2>1, <2>2, GoesTypes DEF MainPlaces, Acting
  <2>4. Up({MainCall}) \in Messages BY <2>1, MessageKinds
  <2>5. /\ journal' \subseteq Acts /\ held' \subseteq Acts /\ troubles' \in 0..MaxTroubles
        /\ out' \in [Workers -> Seq(Messages)]
    BY <1>0, <1>8, <1>b, <1>c, <2>1, <2>4 DEF PressUp
  <2> QED BY <1>8, <2>3, <2>5 DEF PressUp, WorkerTypes, ReaderTypes, UiaTypes
<1>9. CASE ActRelease
  <2>1. main.pc = "release" /\ alive /\ \E rejected \in SUBSET journal : ReleaseAll(rejected)
    BY <1>9 DEF ActRelease, MainAt
  <2>2. Goes("fail") \/ Replies("ok") BY <1>9 DEF ActRelease
  <2>3. MainTypes' BY <1>0, <2>1, <2>2, GoesTypes DEF MainPlaces, Acting
  <2> QED BY <1>9, <1>d, <2>1, <2>3 DEF ActRelease, WorkerTypes, ReaderTypes, UiaTypes
<1>10. CASE MainFail
  <2>1. main.pc = "fail" /\ alive /\ \E rejected \in SUBSET journal : ReleaseAll(rejected)
    BY <1>10 DEF MainFail, MainAt
  <2>2. Replies("error") BY <1>10 DEF MainFail
  <2>3. MainTypes' BY <1>0, <2>1, <2>2, GoesTypes DEF MainPlaces, Acting
  <2> QED BY <1>10, <1>d, <2>1, <2>3 DEF MainFail, WorkerTypes, ReaderTypes, UiaTypes
<1>11. CASE MainReply
  <2>1. main.pc = "reply" /\ alive /\ Goes("forget") /\ Write(Reply(main.req, main.result))
    BY <1>11 DEF MainReply, MainAt
  <2>2. MainTypes' BY <1>0, <2>1, GoesTypes DEF MainPlaces, Acting
  <2>3. Reply(main.req, main.result) \in Messages
    BY <1>0, <2>1, MessageKinds, WorkKinds DEF MainTypes
  <2>4. out' \in [Workers -> Seq(Messages)] BY <1>c, <2>1, <2>3
  <2> QED BY <1>11, <2>2, <2>4 DEF MainReply, WorkerTypes, ReaderTypes, UiaTypes
<1>12. CASE MainBroken
  BY <1>12, EndTypes DEF MainBroken, WorkerTypes
<1>13. CASE MainForget
  <2>1. MainTypes' BY <1>13 DEF MainForget, IdleMain, MainTypes, MainPlaces, Acting
  <2>2. active' \in WorkReqs \cup {NoRequest} BY <1>13 DEF MainForget, StillActive, WorkerTypes
  <2> QED BY <1>13, <2>1, <2>2 DEF MainForget, WorkerTypes, ReaderTypes, UiaTypes
<1>14. CASE MainExit
  <2>1. PICK rejected \in SUBSET journal :
          /\ held' = held \ (journal \ rejected) /\ refused' = refused \cup rejected
          /\ Trouble(Cardinality(rejected))
    BY <1>14 DEF MainExit
  <2>2. troubles' \in 0..MaxTroubles BY <1>0, <2>1, ActsAreFew, TroubleTypes
  <2> QED BY <1>14, <2>1, <2>2, EndTypes DEF MainExit, WorkerTypes
<1>15. CASE Submit
  <2>1. main.pc = "submit" /\ MainCall \in Acts BY <1>15, <1>a DEF Submit, MainAt, Acting
  <2>2. MainTypes' BY <1>0, <1>15, <2>1, GoesTypes DEF Submit, MainPlaces, Acting
  <2>3. UiaTypes'
    <3>1. /\ stops' = stops /\ settled' = settled
          /\ \/ uia' = uia
             \/ uia' = [pc |-> "queued", of |-> MainCall, cancel |-> FALSE, gen |-> stops,
                        answer |-> "none"]
      BY <1>15 DEF Submit
    <3>2. MainCall \in Acts \cup {NoRequest} /\ stops \in Nat /\ settled \in Nat
      BY <1>0, <2>1 DEF UiaTypes
    <3>3. CASE uia' = uia BY <1>0, <3>1, <3>3 DEF UiaTypes
    <3>4. CASE uia' = [pc |-> "queued", of |-> MainCall, cancel |-> FALSE, gen |-> stops,
                       answer |-> "none"]
      BY <3>1, <3>2, <3>4 DEF UiaTypes
    <3> QED BY <3>1, <3>3, <3>4
  <2> QED BY <1>15, <2>2, <2>3 DEF Submit, WorkerTypes, ReaderTypes
<1>16. CASE Await
  <2>1. main.pc = "await" BY <1>16 DEF Await, MainAt
  <2>2. MainTypes' BY <1>0, <1>16, <2>1, GoesTypes DEF Await, MainPlaces, Acting
  <2>3. UiaTypes' BY <1>0, <1>16 DEF Await, UiaTypes
  <2> QED BY <1>16, <2>2, <2>3 DEF Await, WorkerTypes, ReaderTypes
<1> QED BY <1>1, <1>2, <1>3, <1>4, <1>5, <1>6, <1>7, <1>8, <1>9, <1>10, <1>11, <1>12, <1>13,
           <1>14, <1>15, <1>16 DEF MainStep

LEMMA ReadSaid ==
  ASSUME out \in [Workers -> Seq(Messages)], NEW w \in Workers, Read(w)
  PROVE  /\ out' \in [Workers -> Seq(Messages)] /\ Head(out[w]) \in Messages
         /\ Said = Said' \cup {Head(out[w])}
<1>1. out[w] \in Seq(Messages) /\ out[w] # <<>> /\ out' = [out EXCEPT ![w] = Tail(out[w])]
  BY DEF Read
<1>2. /\ Tail(out[w]) \in Seq(Messages) /\ Head(out[w]) \in Messages
      /\ ToSet(out[w]) = ToSet(Tail(out[w])) \cup {Head(out[w])}
  BY <1>1, InTail
<1>3. out' \in [Workers -> Seq(Messages)] BY <1>1, <1>2
<1>4. /\ ToSet(out[w]) = ToSet(out'[w]) \cup {Head(out[w])}
      /\ \A v \in Workers \ {w} : ToSet(out'[v]) = ToSet(out[v])
  BY <1>1, <1>2
<1>5. ASSUME NEW x PROVE x \in Said <=> x \in Said' \cup {Head(out[w])}
  <2>1. x \in Said' <=> \E v \in Workers : x \in ToSet(out'[v]) BY DEF Said
  <2>2. x \in Said <=> \E v \in Workers : x \in ToSet(out[v]) BY DEF Said
  <2> QED BY <1>4, <2>1, <2>2
<1> QED BY <1>2, <1>3, <1>5

LEMMA ReapSaid ==
  ASSUME out \in [Workers -> Seq(Messages)], NEW w \in Workers, NEW n \in 0..Len(out[w]),
         out' = [out EXCEPT ![w] = SubSeq(out[w], 1, n)]
  PROVE  /\ out' \in [Workers -> Seq(Messages)]
         /\ Said = Said' \cup ToSet(SubSeq(out[w], n + 1, Len(out[w])))
<1>1. out[w] \in Seq(Messages) OBVIOUS
<1> DEFINE cut == ToSet(SubSeq(out[w], n + 1, Len(out[w])))
<1>2. /\ SubSeq(out[w], 1, n) \in Seq(Messages)
      /\ ToSet(out[w]) = ToSet(SubSeq(out[w], 1, n)) \cup cut
  BY <1>1, InCut
<1> HIDE DEF cut
<1>3. out' \in [Workers -> Seq(Messages)] BY <1>2
<1>4. /\ ToSet(out[w]) = ToSet(out'[w]) \cup cut
      /\ \A v \in Workers \ {w} : ToSet(out'[v]) = ToSet(out[v])
  BY <1>2
<1>5. ASSUME NEW x PROVE x \in Said <=> x \in Said' \cup cut
  <2>1. x \in Said' <=> \E v \in Workers : x \in ToSet(out'[v]) BY DEF Said
  <2>2. x \in Said <=> \E v \in Workers : x \in ToSet(out[v]) BY DEF Said
  <2> QED BY <1>4, <2>1, <2>2
<1>6. Said = Said' \cup cut BY <1>5
<1> QED BY <1>3, <1>6 DEF cut

\* The threads are told apart by where they come from.
LEMMA ThreadKinds ==
  /\ Calls \subseteq Threads /\ Workers \subseteq Threads /\ Resetter \in Threads /\ Closer \in Threads
  /\ Resetter \notin Calls /\ Closer \notin Calls /\ Resetter \notin Workers /\ Closer \notin Workers
  /\ Resetter # Closer /\ Calls \cap Workers = {}
BY ControllerAssumption DEF Threads

LEMMA RequestOf ==
  /\ \A c \in Calls : /\ {Hello(c), Work(c), Cancel(c)} \subseteq Requests
                      /\ \A r \in {Hello(c), Work(c), Cancel(c)} : r.of = c /\ r.kind # "stop"
  /\ [kind : {"stop"}, of : Nat] \subseteq Requests
  /\ \A r \in [kind : {"stop"}, of : Nat] : r.kind = "stop"
  /\ \A n \in Nat : Stop(n) \in [kind : {"stop"}, of : Nat]
BY DEF Requests, Hello, Work, Cancel, Stop, Request, Calls

\* One thread moves and no registered request is forgotten.
LEMMA OneMoves ==
  ASSUME HostTypes, NEW t \in Threads, NEW place \in Places, NEW r \in Requests \cup {NoRequest},
         Goto(t, place), req' = [req EXCEPT ![t] = r],
         DOMAIN pending \subseteq DOMAIN pending', Asked(t, place, r, DOMAIN pending')
  PROVE  at' \in [Threads -> Places] /\ req' \in [Threads -> Requests \cup {NoRequest}] /\ Asks'
<1>1. at \in [Threads -> Places] /\ req \in [Threads -> Requests \cup {NoRequest}]
  BY DEF HostTypes
<1>2. /\ at' \in [Threads -> Places] /\ req' \in [Threads -> Requests \cup {NoRequest}]
      /\ at'[t] = place /\ req'[t] = r
      /\ \A s \in Threads \ {t} : at'[s] = at[s] /\ req'[s] = req[s]
  BY <1>1 DEF Goto
<1>3. ASSUME NEW s \in Threads PROVE Asked(s, at'[s], req'[s], DOMAIN pending')
  <2>1. CASE s = t BY <1>2, <2>1
  <2>2. CASE s # t
    <3>1. Asked(s, at[s], req[s], DOMAIN pending) BY DEF HostTypes, Asks
    <3>2. at'[s] = at[s] /\ req'[s] = req[s] BY <1>2, <2>2
    <3> QED BY <3>1, <3>2 DEF Asked
  <2> QED BY <2>1, <2>2
<1> QED BY <1>2, <1>3 DEF Asks

\* ... and makes no new request.
LEMMA OneGoes ==
  ASSUME HostTypes, NEW t \in Threads, NEW place \in Places, Goto(t, place), req' = req,
         DOMAIN pending \subseteq DOMAIN pending', Asked(t, place, req[t], DOMAIN pending')
  PROVE  at' \in [Threads -> Places] /\ req' \in [Threads -> Requests \cup {NoRequest}] /\ Asks'
<1>1. req' = [req EXCEPT ![t] = req[t]] /\ req[t] \in Requests \cup {NoRequest}
  BY DEF HostTypes
<1> QED BY <1>1, OneMoves

\* Failed and Registered.
LEMMA PendingTypes ==
  ASSUME HostTypes, NEW r \in Requests
  PROVE  /\ DOMAIN Failed(pending) = DOMAIN pending
         /\ Failed(pending) \in [DOMAIN pending -> {"none", "ok", "error", "settling"}]
         /\ DOMAIN Registered(r) = DOMAIN pending \cup {r}
         /\ Registered(r) \in [DOMAIN Registered(r) -> {"none", "ok", "error", "settling"}]
         /\ Registered(r)[r] = "none"
         /\ \A x \in DOMAIN pending \ {r} : Registered(r)[x] = pending[x]
BY DEF HostTypes, Failed, Registered

LEMMA HostKeepsWorkerTypes ==
  ASSUME WorkerTypes, HostTypes, HostNext
  PROVE  WorkerTypes'
<1> USE DEF procVars, pipeVars, inputVars, loopVars, obsVars
<1>0. /\ troubles \in 0..MaxTroubles /\ out \in [Workers -> Seq(Messages)]
      /\ held \subseteq Acts /\ refused \subseteq Acts
  BY DEF WorkerTypes
<1>a. ASSUME UNCHANGED workerVars PROVE WorkerTypes'
  BY <1>a DEF workerVars, WorkerTypes, MainTypes, ReaderTypes, UiaTypes
<1>b. Trouble(1) => troubles' \in 0..MaxTroubles BY <1>0, TroubleTypes
<1>1. ASSUME NEW t \in Threads, Release(t) PROVE WorkerTypes'
  BY <1>1, <1>a DEF Release
<1>2. ASSUME NEW t \in Threads, ReleaseSend(t) PROVE WorkerTypes'
  <2>1. PICK rejected \in SUBSET rel[t] :
          /\ held' = held \ (rel[t] \ rejected) /\ refused' = refused \cup rejected
          /\ Trouble(Cardinality(rejected))
    BY <1>2 DEF ReleaseSend
  <2>2. rel[t] \subseteq Acts BY DEF HostTypes
  <2>3. troubles' \in 0..MaxTroubles BY <1>0, <2>1, <2>2, ActsAreFew, TroubleTypes
  <2>4. held' \subseteq Acts /\ refused' \subseteq Acts BY <1>0, <2>1, <2>2
  <2> QED BY <1>2, <2>3, <2>4 DEF ReleaseSend, WorkerTypes, MainTypes, ReaderTypes, UiaTypes
<1>3. ASSUME NEW t \in Threads, StopTake(t) PROVE WorkerTypes'
  <2>1. open' \in BOOLEAN BY <1>3 DEF StopTake, WorkerTypes
  <2> QED BY <1>3, <2>1 DEF StopTake, WorkerTypes, MainTypes, ReaderTypes, UiaTypes
<1>4. ASSUME NEW t \in Threads, Kill(t) PROVE WorkerTypes'
  BY <1>4, EndTypes DEF Kill, WorkerTypes
<1>5. ASSUME NEW t \in Threads, WaitExit(t) PROVE WorkerTypes'
  <2>1. troubles' \in 0..MaxTroubles BY <1>0, <1>5, <1>b DEF WaitExit
  <2> QED BY <1>5, <2>1 DEF WaitExit, WorkerTypes, MainTypes, ReaderTypes, UiaTypes
<1>6. ASSUME NEW t \in Threads, Send(t) PROVE WorkerTypes'
  <2>1. stdin' \in Seq(Requests)
    <3>1. CASE stdin' = stdin BY <3>1 DEF WorkerTypes
    <3>2. CASE at[t] = "send" /\ stdin' = Append(stdin, req[t])
      <4>1. req[t] \in Requests
        BY <3>2, RequestOf DEF HostTypes, Asks, Asked
      <4> QED BY <3>2, <4>1, InAppend DEF WorkerTypes
    <3> QED BY <1>6, <3>1, <3>2 DEF Send
  <2> QED BY <1>6, <2>1 DEF Send, WorkerTypes, MainTypes, ReaderTypes, UiaTypes
<1>7. ASSUME NEW c \in Calls, Enter(c) PROVE WorkerTypes'
  BY <1>7 DEF Enter, WorkerTypes, MainTypes, ReaderTypes, UiaTypes
<1>8. ASSUME NEW c \in Calls, Start(c) PROVE WorkerTypes'
  <2>1. CASE UNCHANGED workerVars BY <1>a, <2>1
  <2>2. CASE WorkerStarts /\ worker < MaxWorkers
    <3>1. worker \in 0..MaxWorkers /\ MaxWorkers \in Nat BY ControllerAssumption DEF WorkerTypes
    <3>2. worker' \in Workers BY <2>2, <3>1 DEF WorkerStarts, Workers
    <3>3. MainTypes' /\ ReaderTypes' /\ UiaTypes'
      BY <2>2 DEF WorkerStarts, IdleMain, IdleReader, IdleUia, MainTypes, ReaderTypes, UiaTypes,
                  MainPlaces, Acting
    <3>4. worker' \in 0..MaxWorkers BY <3>1, <3>2 DEF Workers
    <3> QED BY <2>2, <3>2, <3>3, <3>4 DEF WorkerStarts, WorkerTypes
  <2> QED BY <1>8, <2>1, <2>2 DEF Start
<1>9. ASSUME NEW c \in Calls, TakeGate(c) \/ CallAnswered(c) \/ CallExpires(c) \/ Drain(c) \/ Return(c)
      PROVE  WorkerTypes'
  BY <1>9, <1>a DEF TakeGate, CallAnswered, CallExpires, Drain, Return, aside
<1>10. CASE ResetBegin \/ CloseBegin
  <2>1. troubles' \in 0..MaxTroubles BY <1>b, <1>10 DEF ResetBegin, CloseBegin
  <2> QED BY <1>10, <2>1 DEF ResetBegin, CloseBegin, WorkerTypes, MainTypes, ReaderTypes, UiaTypes
<1>11. CASE ResetStep
  BY <1>11, <1>a DEF ResetStep, ResetAnswered, ResetEnd, aside
<1>12. ASSUME NEW w \in Workers, Read(w) PROVE WorkerTypes'
  <2>1. out' \in [Workers -> Seq(Messages)] BY <1>0, <1>12, ReadSaid
  <2> QED BY <1>12, <2>1 DEF Read, WorkerTypes, MainTypes, ReaderTypes, UiaTypes
<1>13. ASSUME NEW w \in Workers, ReadEnds(w) PROVE WorkerTypes'
  BY <1>13, <1>a DEF ReadEnds
<1>14. ASSUME NEW w \in Workers, Reap(w) PROVE WorkerTypes'
  <2>1. PICK n \in 0..Len(out[w]) : out' = [out EXCEPT ![w] = SubSeq(out[w], 1, n)]
    BY <1>14 DEF Reap, Cuts
  <2>2. out' \in [Workers -> Seq(Messages)] BY <1>0, <2>1, ReapSaid
  <2> QED BY <1>14, <2>2 DEF Reap, WorkerTypes, MainTypes, ReaderTypes, UiaTypes
<1>15. CASE Crash
  <2>1. troubles' \in 0..MaxTroubles BY <1>b, <1>15 DEF Crash
  <2> QED BY <1>15, <2>1, EndTypes DEF Crash, WorkerTypes
<1>16. CASE HostDies
  <2>1. troubles' \in 0..MaxTroubles BY <1>b, <1>16 DEF HostDies
  <2>2. /\ hostUp' = FALSE /\ open' = FALSE
        /\ UNCHANGED <<worker, alive, stdin, out, reader, active, queue, main, journal, held, refused,
                       stops, uia, settled>>
    BY <1>16 DEF HostDies
  <2>3. MainTypes' /\ ReaderTypes' /\ UiaTypes'
    BY <2>2 DEF WorkerTypes, MainTypes, ReaderTypes, UiaTypes
  <2> QED BY <2>1, <2>2, <2>3 DEF WorkerTypes
<1> QED
  BY <1>1, <1>2, <1>3, <1>4, <1>5, <1>6, <1>7, <1>8, <1>9, <1>10, <1>11, <1>12, <1>13, <1>14,
     <1>15, <1>16
  DEF HostNext, StopStep, CallStep, ReadStep

LEMMA HostKeepsHostTypes ==
  ASSUME WorkerTypes, HostTypes, HostNext
  PROVE  HostTypes'
<1> USE DEF callVars, endVars, histVars
<1>0. /\ at \in [Threads -> Places] /\ req \in [Threads -> Requests \cup {NoRequest}]
      /\ DOMAIN pending \subseteq Requests
      /\ pending \in [DOMAIN pending -> {"none", "ok", "error", "settling"}]
      /\ inputs \subseteq Acts /\ rel \in [Threads -> SUBSET Acts] /\ lost \subseteq Acts
  BY DEF HostTypes
<1>a. \A t \in Threads : Asked(t, at[t], req[t], DOMAIN pending) BY DEF HostTypes, Asks
<1>b. ASSUME NEW t \in Threads, at[t] \in {"release", "releasing", "stop_release", "stop_releasing", "stop"},
             NEW place,
             \/ \E clean \in BOOLEAN : place = AfterRelease(t, clean) /\ at[t] \in {"release", "releasing"}
             \/ place = AfterStop(t) /\ at[t] \notin {"release", "releasing"}
             \/ place \in {"releasing"} /\ at[t] = "release"
             \/ place \in {"stop_releasing"} /\ at[t] = "stop_release"
      PROVE  place \in Places /\ Asked(t, place, req[t], DOMAIN pending)
  <2>1. Asked(t, at[t], req[t], DOMAIN pending) BY <1>a
  <2> QED BY <1>b, <2>1, ThreadKinds DEF Places, Asked, AfterRelease, AfterStop
<1>1. ASSUME NEW t \in Threads, Release(t) PROVE HostTypes'
  <2>1. PICK place : /\ Goto(t, place)
                     /\ \/ \E clean \in BOOLEAN : place = AfterRelease(t, clean) /\ at[t] = "release"
                        \/ place = AfterStop(t) /\ at[t] = "stop_release"
                        \/ place = "releasing" /\ at[t] = "release"
                        \/ place = "stop_releasing" /\ at[t] = "stop_release"
    BY <1>1 DEF Release
  <2>2. place \in Places /\ Asked(t, place, req[t], DOMAIN pending) BY <1>b, <2>1
  <2>3. req' = req /\ pending' = pending BY <1>1 DEF Release
  <2>4. at' \in [Threads -> Places] /\ req' \in [Threads -> Requests \cup {NoRequest}] /\ Asks'
    BY <2>1, <2>2, <2>3, OneGoes
  <2> QED BY <1>0, <1>1, <2>4 DEF Release, HostTypes
<1>2. ASSUME NEW t \in Threads, ReleaseSend(t) PROVE HostTypes'
  <2>1. PICK place : /\ Goto(t, place)
                     /\ \/ \E clean \in BOOLEAN : place = AfterRelease(t, clean) /\ at[t] = "releasing"
                        \/ place = AfterStop(t) /\ at[t] = "stop_releasing"
    BY <1>2 DEF ReleaseSend
  <2>2. place \in Places /\ Asked(t, place, req[t], DOMAIN pending) BY <1>b, <2>1
  <2>3. req' = req /\ pending' = pending BY <1>2 DEF ReleaseSend
  <2>4. at' \in [Threads -> Places] /\ req' \in [Threads -> Requests \cup {NoRequest}] /\ Asks'
    BY <2>1, <2>2, <2>3, OneGoes
  <2>5. inputs' \subseteq Acts /\ rel' \in [Threads -> SUBSET Acts] /\ lost' \subseteq Acts
    BY <1>0, <1>2 DEF ReleaseSend, Kept
  <2> QED BY <1>2, <2>4, <2>5 DEF ReleaseSend, HostTypes
<1>3. ASSUME NEW t \in Threads, StopTake(t) PROVE HostTypes'
  <2>1. PICK place : Goto(t, place) /\ ((place = AfterStop(t) /\ t \in Workers) \/ place \in {"stop_release", "kill"})
    BY <1>3 DEF StopTake
  <2>2. at[t] = "stop" /\ req' = req BY <1>3 DEF StopTake
  <2>3. pending' = pending \/ pending' = Failed(pending) BY <1>3 DEF StopTake
  <2>4. /\ DOMAIN pending' = DOMAIN pending
        /\ pending' \in [DOMAIN pending -> {"none", "ok", "error", "settling"}]
    BY <1>0, <2>3, RequestOf, PendingTypes DEF Failed
  <2>5. place \in Places /\ Asked(t, place, req[t], DOMAIN pending)
    <3>1. Asked(t, "stop", req[t], DOMAIN pending) BY <1>a, <2>2
    <3>2. CASE place = AfterStop(t) BY <1>b, <2>2, <3>2
    <3>3. CASE place \in {"stop_release", "kill"} BY <3>1, <3>3 DEF Places, Asked
    <3> QED BY <2>1, <3>2, <3>3
  <2>6. at' \in [Threads -> Places] /\ req' \in [Threads -> Requests \cup {NoRequest}] /\ Asks'
    BY <2>1, <2>2, <2>4, <2>5, OneGoes
  <2>7. cmd' \in 0..MaxWorkers BY <1>3, ControllerAssumption DEF StopTake, HostTypes
  <2> QED BY <1>0, <1>3, <2>4, <2>6, <2>7 DEF StopTake, HostTypes
<1>4. ASSUME NEW t \in Threads, Kill(t) PROVE HostTypes'
  <2>1. at[t] = "kill" /\ Goto(t, "wait") /\ req' = req /\ pending' = pending BY <1>4 DEF Kill
  <2>2. "wait" \in Places /\ Asked(t, "wait", req[t], DOMAIN pending)
    BY <1>a, <2>1 DEF Places, Asked
  <2>3. at' \in [Threads -> Places] /\ req' \in [Threads -> Requests \cup {NoRequest}] /\ Asks'
    BY <2>1, <2>2, OneGoes
  <2> QED BY <1>4, <2>3 DEF Kill, HostTypes
<1>5. ASSUME NEW t \in Threads, WaitExit(t) PROVE HostTypes'
  <2>1. at[t] = "wait" /\ Goto(t, "stop_release") /\ req' = req /\ pending' = pending
    BY <1>5 DEF WaitExit
  <2>2. "stop_release" \in Places /\ Asked(t, "stop_release", req[t], DOMAIN pending)
    BY <1>a, <2>1 DEF Places, Asked
  <2>3. at' \in [Threads -> Places] /\ req' \in [Threads -> Requests \cup {NoRequest}] /\ Asks'
    BY <2>1, <2>2, OneGoes
  <2> QED BY <1>5, <2>3 DEF WaitExit, HostTypes
<1>6. ASSUME NEW t \in Threads, Send(t) PROVE HostTypes'
  <2>1. at[t] = "send" /\ req' = req BY <1>6 DEF Send
  <2>2. Asked(t, "send", req[t], DOMAIN pending) BY <1>a, <2>1
  <2>3. req[t] \in Requests /\ t \in Calls \cup {Resetter} BY <2>2, RequestOf DEF Asked
  <2>4. CASE pending' = pending /\ \E p \in {"stop", "error"} : Goto(t, p)
    <3>1. PICK place \in {"stop", "error"} : Goto(t, place) BY <2>4
    <3>2. place \in Places /\ Asked(t, place, req[t], DOMAIN pending) BY <2>2 DEF Places, Asked
    <3>3. at' \in [Threads -> Places] /\ req' \in [Threads -> Requests \cup {NoRequest}] /\ Asks'
      BY <2>1, <2>4, <3>1, <3>2, OneGoes
    <3> QED BY <1>6, <2>4, <3>3 DEF Send, HostTypes
  <2>5. CASE Goto(t, "await") /\ pending' = Registered(req[t])
    <3>1. /\ DOMAIN pending' = DOMAIN pending \cup {req[t]}
          /\ pending' \in [DOMAIN pending' -> {"none", "ok", "error", "settling"}]
      BY <2>3, <2>5, PendingTypes
    <3>2. "await" \in Places /\ Asked(t, "await", req[t], DOMAIN pending')
      BY <2>2, <3>1, ThreadKinds DEF Places, Asked
    <3>3. at' \in [Threads -> Places] /\ req' \in [Threads -> Requests \cup {NoRequest}] /\ Asks'
      BY <2>1, <2>5, <3>1, <3>2, OneGoes
    <3>4. DOMAIN pending' \subseteq Requests BY <1>0, <2>3, <3>1
    <3> QED BY <1>6, <3>1, <3>3, <3>4 DEF Send, HostTypes
  <2> QED BY <1>6, <2>4, <2>5 DEF Send
<1>c. ASSUME NEW t \in Threads, NEW place \in Places \ {"start"}, Goto(t, place), req' = req,
             DOMAIN pending \subseteq DOMAIN pending',
             \/ place \in {"idle", "gate", "release", "ok", "error", "canceled", "settling", "done",
                           "read", "ended"}
             \/ t \notin Calls /\ place # "send" /\ place # "await"
             \/ at[t] \in {"await", "send", "drain"} /\ place \in {"drain", "stop"}
      PROVE  at' \in [Threads -> Places] /\ req' \in [Threads -> Requests \cup {NoRequest}] /\ Asks'
  <2>1. Asked(t, at[t], req[t], DOMAIN pending) BY <1>a
  <2>2. Asked(t, place, req[t], DOMAIN pending') BY <1>c, <2>1 DEF Asked
  <2> QED BY <1>c, <2>2, OneGoes
<1>d. ASSUME NEW c \in Calls, NEW r \in {Hello(c), Work(c), Cancel(c)},
             NEW place \in {"send", "stop", "canceled"},
             Goto(c, place), req' = [req EXCEPT ![c] = r], pending' = pending
      PROVE  at' \in [Threads -> Places] /\ req' \in [Threads -> Requests \cup {NoRequest}] /\ Asks'
  <2>1. c \in Threads /\ c # Resetter BY ThreadKinds
  <2>2. place \in Places /\ r \in Requests BY RequestOf DEF Places
  <2>3. Asked(c, place, r, DOMAIN pending') BY <2>1 DEF Asked
  <2> QED BY <1>d, <2>1, <2>2, <2>3, OneMoves
<1>7. ASSUME NEW c \in Calls, Enter(c) PROVE HostTypes'
  <2>1. PICK place \in {"gate", "done"} : Goto(c, place) BY <1>7 DEF Enter
  <2>2. at' \in [Threads -> Places] /\ req' \in [Threads -> Requests \cup {NoRequest}] /\ Asks'
    BY <1>7, <1>c, <2>1, ThreadKinds DEF Enter, Places
  <2> QED BY <1>7, <2>2 DEF Enter, HostTypes
<1>8. ASSUME NEW c \in Calls, TakeGate(c) PROVE HostTypes'
  <2>1. PICK place \in {"release", "canceled"} : Goto(c, place) BY <1>8 DEF TakeGate
  <2>2. at' \in [Threads -> Places] /\ req' \in [Threads -> Requests \cup {NoRequest}] /\ Asks'
    BY <1>8, <1>c, <2>1, ThreadKinds DEF TakeGate, Places
  <2>3. gate' \in Calls \cup {NoCall} BY <1>8 DEF TakeGate, HostTypes
  <2> QED BY <1>8, <2>2, <2>3 DEF TakeGate, HostTypes
<1>9. ASSUME NEW c \in Calls, Start(c) PROVE HostTypes'
  <2>1. CASE Ask(c, Work(c)) /\ UNCHANGED <<workerVars, cmd>>
    <3>1. at' \in [Threads -> Places] /\ req' \in [Threads -> Requests \cup {NoRequest}] /\ Asks'
      BY <1>9, <1>d, <2>1 DEF Start, Ask
    <3> QED BY <1>9, <2>1, <3>1 DEF Start, HostTypes
  <2>2. CASE Goto(c, "error") /\ UNCHANGED <<workerVars, req, cmd>>
    <3>1. at' \in [Threads -> Places] /\ req' \in [Threads -> Requests \cup {NoRequest}] /\ Asks'
      BY <1>9, <1>c, <2>2, ThreadKinds DEF Start, Places
    <3> QED BY <1>9, <2>2, <3>1 DEF Start, HostTypes
  <2>3. CASE /\ worker < MaxWorkers /\ cmd' = worker + 1 /\ req' = [req EXCEPT ![c] = Hello(c)]
             /\ at' = [at EXCEPT ![c] = "send", ![worker + 1] = "read"]
    <3>1. worker \in 0..MaxWorkers /\ MaxWorkers \in Nat BY ControllerAssumption DEF WorkerTypes
    <3>2. worker + 1 \in Workers /\ cmd' \in 0..MaxWorkers BY <2>3, <3>1 DEF Workers
    <3>3. Hello(c) \in Requests /\ c \in Threads /\ worker + 1 \in Threads /\ c # worker + 1
          /\ worker + 1 # Resetter /\ c # Resetter
      BY <3>2, RequestOf, ThreadKinds
    <3>4. /\ at' \in [Threads -> Places] /\ req' \in [Threads -> Requests \cup {NoRequest}]
          /\ at'[c] = "send" /\ req'[c] = Hello(c) /\ at'[worker + 1] = "read"
          /\ \A s \in Threads \ {c, worker + 1} : at'[s] = at[s] /\ req'[s] = req[s]
      BY <1>0, <2>3, <3>3 DEF Places
    <3>5. pending' = pending BY <1>9 DEF Start
    <3>6. Asks'
      <4> SUFFICES ASSUME NEW s \in Threads PROVE Asked(s, at'[s], req'[s], DOMAIN pending')
        BY DEF Asks
      <4>1. CASE s = c BY <3>3, <3>4, <4>1 DEF Asked
      <4>2. CASE s = worker + 1 BY <3>4, <4>2 DEF Asked
      <4>3. CASE s \notin {c, worker + 1} BY <1>a, <3>4, <3>5, <4>3
      <4> QED BY <4>1, <4>2, <4>3
    <3> QED BY <1>9, <3>2, <3>4, <3>6 DEF Start, HostTypes
  <2> QED BY <1>9, <2>1, <2>2, <2>3 DEF Start
<1>10. ASSUME NEW c \in Calls, CallAnswered(c) PROVE HostTypes'
  <2>1. at[c] = "await" /\ pending' = pending BY <1>10 DEF CallAnswered, Arrived, aside
  <2>2. c \in Threads /\ c # Resetter BY ThreadKinds
  <2>3. Asked(c, at[c], req[c], DOMAIN pending) BY <1>a, <2>2
  <2>4. pending[req[c]] \in {"none", "ok", "error", "settling"} BY <1>0, <2>1, <2>3 DEF Asked
  <2>5. req[c].kind \in {"work", "hello", "cancel"}
    BY <2>1, <2>2, <2>3 DEF Asked, Hello, Work, Cancel, Request
  <2>6. pending[req[c]] # "none" BY <1>10 DEF CallAnswered, Arrived, Answer
  <2>7. \/ Ask(c, Work(c))
        \/ req' = req /\ \E place \in {"ok", "error", "settling", "stop", "drain"} : Goto(c, place)
    BY <1>10, <2>4, <2>5, <2>6 DEF CallAnswered, Answer
  <2>8. at' \in [Threads -> Places] /\ req' \in [Threads -> Requests \cup {NoRequest}] /\ Asks'
    <3>1. CASE Ask(c, Work(c)) BY <1>d, <2>1, <3>1 DEF Ask
    <3>2. CASE req' = req /\ \E place \in {"ok", "error", "settling", "stop", "drain"} : Goto(c, place)
      BY <1>c, <2>1, <2>2, <3>2 DEF Places
    <3> QED BY <2>7, <3>1, <3>2
  <2> QED BY <1>10, <2>8 DEF CallAnswered, aside, HostTypes
<1>11. ASSUME NEW c \in Calls, CallExpires(c) PROVE HostTypes'
  <2>1. at[c] = "await" /\ pending' = pending /\ (Ask(c, Cancel(c)) \/ (Goto(c, "stop") /\ req' = req))
    BY <1>11 DEF CallExpires, Interrupts, aside
  <2>2. at' \in [Threads -> Places] /\ req' \in [Threads -> Requests \cup {NoRequest}] /\ Asks'
    <3>1. CASE Ask(c, Cancel(c)) BY <1>d, <2>1, <3>1 DEF Ask
    <3>2. CASE Goto(c, "stop") /\ req' = req BY <1>c, <2>1, <3>2, ThreadKinds DEF Places
    <3> QED BY <2>1, <3>1, <3>2
  <2> QED BY <1>11, <2>2 DEF CallExpires, aside, HostTypes
<1>12. ASSUME NEW c \in Calls, Drain(c) PROVE HostTypes'
  <2>1. at' \in [Threads -> Places] /\ req' \in [Threads -> Requests \cup {NoRequest}] /\ Asks'
    BY <1>12, <1>d DEF Drain, aside
  <2> QED BY <1>12, <2>1 DEF Drain, aside, HostTypes
<1>e. ASSUME NEW t \in Threads, NEW place \in {"done", "idle"}, NEW gone,
             Goto(t, place), req' = [req EXCEPT ![t] = NoRequest],
             pending' = [r \in DOMAIN pending \ gone |-> pending[r]],
             \A s \in Threads \ {t} : at[s] = "await" => req[s] \notin gone
      PROVE  /\ at' \in [Threads -> Places] /\ req' \in [Threads -> Requests \cup {NoRequest}] /\ Asks'
             /\ DOMAIN pending' \subseteq Requests
             /\ pending' \in [DOMAIN pending' -> {"none", "ok", "error", "settling"}]
  <2>1. /\ at' \in [Threads -> Places] /\ req' \in [Threads -> Requests \cup {NoRequest}]
        /\ at'[t] = place
        /\ \A s \in Threads \ {t} : at'[s] = at[s] /\ req'[s] = req[s]
    BY <1>0, <1>e DEF Goto, Places
  <2>2. Asks'
    <3> SUFFICES ASSUME NEW s \in Threads PROVE Asked(s, at'[s], req'[s], DOMAIN pending')
      BY DEF Asks
    <3>1. CASE s = t BY <1>e, <2>1, <3>1 DEF Asked
    <3>2. CASE s # t
      <4>1. Asked(s, at[s], req[s], DOMAIN pending) /\ at'[s] = at[s] /\ req'[s] = req[s]
        BY <1>a, <2>1, <3>2
      <4>2. DOMAIN pending' = DOMAIN pending \ gone BY <1>e
      <4> QED BY <1>e, <3>2, <4>1, <4>2 DEF Asked
    <3> QED BY <3>1, <3>2
  <2>3. DOMAIN pending' \subseteq Requests
        /\ pending' \in [DOMAIN pending' -> {"none", "ok", "error", "settling"}]
    BY <1>0, <1>e
  <2> QED BY <2>1, <2>2, <2>3
<1>13. ASSUME NEW c \in Calls, Return(c) PROVE HostTypes'
  <2> DEFINE gone == {r \in DOMAIN pending : ~(r.kind = "stop" \/ r.of # c)}
  <2>1. pending' = [r \in DOMAIN pending \ gone |-> pending[r]]
    <3>1. DOMAIN pending \ gone = {r \in DOMAIN pending : r.kind = "stop" \/ r.of # c} OBVIOUS
    <3> QED BY <1>13, <3>1 DEF Return
  <2>2. ASSUME NEW s \in Threads \ {c}, at[s] = "await" PROVE req[s] \notin gone
    <3>1. Asked(s, "await", req[s], DOMAIN pending) BY <1>a, <2>2
    <3>2. s \in Calls => req[s].of = s BY <3>1, RequestOf DEF Asked
    <3>3. s = Resetter => req[s].kind = "stop" BY <3>1, RequestOf DEF Asked
    <3> QED BY <3>1, <3>2, <3>3 DEF Asked
  <2>3. Goto(c, "done") /\ req' = [req EXCEPT ![c] = NoRequest] /\ c \in Threads
    BY <1>13, ThreadKinds DEF Return
  <2> HIDE DEF gone
  <2>4. /\ at' \in [Threads -> Places] /\ req' \in [Threads -> Requests \cup {NoRequest}] /\ Asks'
        /\ DOMAIN pending' \subseteq Requests
        /\ pending' \in [DOMAIN pending' -> {"none", "ok", "error", "settling"}]
    BY <1>e, <2>1, <2>2, <2>3
  <2>5. gate' \in Calls \cup {NoCall} BY <1>13 DEF Return, HostTypes
  <2>6. known' \subseteq Looks BY <1>13 DEF Return, HostTypes
  <2> QED BY <1>13, <2>4, <2>5, <2>6 DEF Return, HostTypes
<1>14. CASE ResetBegin
  <2>1. pending' = pending /\ Resetter \in Threads /\ resets \in Nat
    BY <1>14, ThreadKinds DEF ResetBegin, HostTypes
  <2>2. at' \in [Threads -> Places] /\ req' \in [Threads -> Requests \cup {NoRequest}] /\ Asks'
    <3>1. CASE Goto(Resetter, "release") /\ req' = req
      BY <1>c, <2>1, <3>1 DEF Places
    <3>2. CASE Ask(Resetter, Stop(resets + 1))
      <4>1. Stop(resets + 1) \in [kind : {"stop"}, of : Nat] /\ Stop(resets + 1) \in Requests
        BY <2>1, RequestOf
      <4>2. Asked(Resetter, "send", Stop(resets + 1), DOMAIN pending')
        BY <4>1, ThreadKinds DEF Asked
      <4>3. "send" \in Places BY DEF Places
      <4> QED BY <2>1, <3>2, <4>1, <4>2, <4>3, OneMoves DEF Ask
    <3> QED BY <1>14, <3>1, <3>2 DEF ResetBegin
  <2>3. covered' \subseteq Acts /\ resets' \in Nat BY <1>14, <2>1 DEF ResetBegin
  <2> QED BY <1>14, <2>2, <2>3 DEF ResetBegin, HostTypes
<1>15. CASE ResetAnswered
  <2>1. at[Resetter] = "await" /\ req' = req /\ pending' = pending
        /\ \E place \in {"stop", "ok", "settling"} : Goto(Resetter, place)
    BY <1>15 DEF ResetAnswered, aside
  <2>2. at' \in [Threads -> Places] /\ req' \in [Threads -> Requests \cup {NoRequest}] /\ Asks'
    BY <1>c, <2>1, ThreadKinds DEF Places
  <2> QED BY <1>15, <2>2 DEF ResetAnswered, aside, HostTypes
<1>16. CASE ResetEnd
  <2> DEFINE gone == {r \in DOMAIN pending : r.kind = "stop"}
  <2>1. pending' = [r \in DOMAIN pending \ gone |-> pending[r]]
    <3>1. DOMAIN pending \ gone = {r \in DOMAIN pending : r.kind # "stop"} OBVIOUS
    <3> QED BY <1>16, <3>1 DEF ResetEnd
  <2>2. ASSUME NEW s \in Threads \ {Resetter}, at[s] = "await" PROVE req[s] \notin gone
    <3>1. Asked(s, "await", req[s], DOMAIN pending) BY <1>a, <2>2
    <3> QED BY <2>2, <3>1, RequestOf DEF Asked
  <2>3. Goto(Resetter, "idle") /\ req' = [req EXCEPT ![Resetter] = NoRequest] /\ Resetter \in Threads
    BY <1>16, ThreadKinds DEF ResetEnd
  <2> HIDE DEF gone
  <2>4. /\ at' \in [Threads -> Places] /\ req' \in [Threads -> Requests \cup {NoRequest}] /\ Asks'
        /\ DOMAIN pending' \subseteq Requests
        /\ pending' \in [DOMAIN pending' -> {"none", "ok", "error", "settling"}]
    BY <1>e, <2>1, <2>2, <2>3
  <2>5. covered' \subseteq Acts /\ quiet' \subseteq Acts BY <1>16 DEF ResetEnd, HostTypes
  <2> QED BY <1>16, <2>4, <2>5 DEF ResetEnd, HostTypes
<1>17. CASE CloseBegin
  <2>1. at' \in [Threads -> Places] /\ req' \in [Threads -> Requests \cup {NoRequest}] /\ Asks'
    BY <1>17, <1>c, ThreadKinds DEF CloseBegin, Places
  <2> QED BY <1>17, <2>1 DEF CloseBegin, HostTypes
<1>18. ASSUME NEW w \in Workers, Read(w) PROVE HostTypes'
  <2>1. Head(out[w]) \in Messages BY <1>18, ReadSaid DEF WorkerTypes
  <2>2. inputs' \subseteq Acts
    <3>1. inputs' = Applied(Head(out[w])) BY <1>18 DEF Read
    <3>2. Head(out[w]).type = "down" => Head(out[w]).keys \subseteq Acts
      BY <2>1 DEF Messages, LocalStopped
    <3> QED BY <1>0, <3>1, <3>2 DEF Applied
  <2>3. DOMAIN pending' = DOMAIN pending
        /\ pending' \in [DOMAIN pending -> {"none", "ok", "error", "settling"}]
    <3>1. Head(out[w]).type = "reply" => Head(out[w]).result \in {"none", "ok", "error", "settling"}
      BY <2>1 DEF Messages, LocalStopped
    <3>2. \/ pending' = pending
          \/ Head(out[w]).type = "reply"
               /\ pending' = [pending EXCEPT ![Head(out[w]).to] = Head(out[w]).result]
      BY <1>18 DEF Read
    <3> QED BY <1>0, <3>1, <3>2
  <2>4. at' = at /\ req' = req BY <1>18 DEF Read
  <2>5. Asks' BY <2>3, <2>4 DEF HostTypes, Asks
  <2> QED BY <1>0, <1>18, <2>2, <2>3, <2>4, <2>5 DEF Read, HostTypes
<1>19. ASSUME NEW w \in Workers, ReadEnds(w) PROVE HostTypes'
  <2>1. w \in Threads /\ w \notin Calls BY ThreadKinds
  <2>2. req' = req /\ \E place \in {"stop", "ended"} : Goto(w, place)
    BY <1>19 DEF ReadEnds
  <2>3. DOMAIN pending' = DOMAIN pending
        /\ pending' \in [DOMAIN pending -> {"none", "ok", "error", "settling"}]
    <3>1. pending' = pending \/ pending' = Failed(pending) BY <1>19 DEF ReadEnds
    <3> QED BY <1>0, <3>1 DEF Failed
  <2>4. at' \in [Threads -> Places] /\ req' \in [Threads -> Requests \cup {NoRequest}] /\ Asks'
    BY <1>c, <2>1, <2>2, <2>3 DEF Places
  <2> QED BY <1>0, <1>19, <2>3, <2>4 DEF ReadEnds, HostTypes
<1>20. ASSUME NEW w \in Workers, Reap(w) PROVE HostTypes'
  <2>1. PICK n \in 0..Len(out[w]) : lost' = lost \cup Downs(SubSeq(out[w], n + 1, Len(out[w])))
    BY <1>20 DEF Reap, Cuts
  <2>2. lost' \subseteq Acts
    <3>1. out[w] \in Seq(Messages) BY DEF WorkerTypes
    <3>2. \A m \in Messages : m.type = "down" => m.keys \subseteq Acts
      BY DEF Messages, LocalStopped
    <3>3. ToSet(out[w]) = ToSet(SubSeq(out[w], 1, n)) \cup ToSet(SubSeq(out[w], n + 1, Len(out[w])))
      BY <3>1, InCut
    <3>4. ToSet(out[w]) \subseteq Messages BY <3>1 DEF ToSet
    <3>5. Downs(SubSeq(out[w], n + 1, Len(out[w]))) \subseteq Acts
      BY <3>2, <3>3, <3>4 DEF Downs, ToSet
    <3> QED BY <1>0, <2>1, <3>5
  <2>3. reaped' \subseteq Workers BY <1>20 DEF Reap, HostTypes
  <2>4. at' = at /\ req' = req /\ pending' = pending BY <1>20 DEF Reap
  <2>5. Asks' BY <2>4 DEF HostTypes, Asks
  <2> QED BY <1>0, <1>20, <2>2, <2>3, <2>4, <2>5 DEF Reap, HostTypes
<1>21. CASE Crash
  <2>1. UNCHANGED ctlVars BY <1>21 DEF Crash
  <2> QED BY <2>1 DEF ctlVars, HostTypes, Asks
<1>22. CASE HostDies
  <2>1. /\ at' = [t \in Threads |-> "idle"] /\ req' = [t \in Threads |-> NoRequest]
        /\ gate' = NoCall /\ cmd' = 0 /\ pending' = NoEntry
        /\ inputs' = {} /\ rel' = [t \in Threads |-> {}] /\ covered' = {} /\ quiet' = {}
        /\ UNCHANGED <<known, reaped, closed, resets, lost>>
    BY <1>22 DEF HostDies
  <2>2. cmd' \in 0..MaxWorkers BY <2>1, ControllerAssumption
  <2>3. Asks' BY <2>1 DEF Asks, Asked
  <2>4. pending' \in [DOMAIN pending' -> {"none", "ok", "error", "settling"}]
        /\ DOMAIN pending' \subseteq Requests
    BY <2>1 DEF NoEntry
  <2>5. at' \in [Threads -> Places] /\ req' \in [Threads -> Requests \cup {NoRequest}]
    BY <2>1 DEF Places
  <2> QED BY <2>1, <2>2, <2>3, <2>4, <2>5 DEF HostTypes
<1> QED
  BY <1>1, <1>2, <1>3, <1>4, <1>5, <1>6, <1>7, <1>8, <1>9, <1>10, <1>11, <1>12, <1>13, <1>14,
     <1>15, <1>16, <1>17, <1>18, <1>19, <1>20, <1>21, <1>22
  DEF HostNext, StopStep, CallStep, ResetStep, ReadStep

LEMMA TypesStep ==
  ASSUME Types, [Next]_vars
  PROVE  Types'
<1>1. CASE WorkerNext /\ UNCHANGED ctlVars
  <2>1. WorkerTypes'
    BY <1>1, ReaderKeepsTypes, OverlayKeepsTypes, MainKeepsTypes, UiaKeepsTypes DEF WorkerNext, Types
  <2>2. HostTypes'
    BY <1>1 DEF Types, ctlVars, callVars, endVars, histVars, HostTypes, Asks
  <2> QED BY <2>1, <2>2 DEF Types
<1>2. CASE HostNext BY <1>2, HostKeepsWorkerTypes, HostKeepsHostTypes DEF Types
<1>3. CASE UNCHANGED vars
  BY <1>3 DEF vars, workerVars, procVars, pipeVars, inputVars, loopVars, obsVars, ctlVars, callVars,
     endVars, histVars, Types, WorkerTypes, MainTypes, ReaderTypes, UiaTypes, HostTypes, Asks
<1> QED BY <1>1, <1>2, <1>3 DEF Next

LEMMA TypesInit == Init => Types
<1> SUFFICES ASSUME Init PROVE Types OBVIOUS
<1>1. WorkerTypes
  <2>1. MainTypes /\ ReaderTypes /\ UiaTypes
    BY DEF Init, WorkerInit, MainTypes, ReaderTypes, UiaTypes, IdleMain, IdleReader, IdleUia,
           MainPlaces, Acting
  <2>2. troubles \in 0..MaxTroubles /\ worker \in 0..MaxWorkers
    BY WorkerAssumption, ControllerAssumption DEF Init, WorkerInit
  <2>3. stdin \in Seq(Requests) /\ queue \in Seq(WorkReqs) /\ out \in [Workers -> Seq(Messages)]
    BY DEF Init, WorkerInit
  <2> QED BY <2>1, <2>2, <2>3 DEF Init, WorkerInit, WorkerTypes
<1>2. HostTypes
  <2>1. at \in [Threads -> Places] /\ req \in [Threads -> Requests \cup {NoRequest}] /\ Asks
    BY DEF Init, Asks, Asked, Places
  <2>2. pending \in [DOMAIN pending -> {"none", "ok", "error", "settling"}]
        /\ DOMAIN pending \subseteq Requests
    BY DEF Init, NoEntry
  <2>3. cmd \in 0..MaxWorkers BY ControllerAssumption DEF Init
  <2> QED BY <2>1, <2>2, <2>3 DEF Init, HostTypes
<1> QED BY <1>1, <1>2 DEF Types

(***************************************************************************)
(* Presses that Windows would not release, and values being set.           *)
(***************************************************************************)

LEMMA LeftDownStep ==
  ASSUME Types, NothingLeftDown, [Next]_vars
  PROVE  NothingLeftDown'
<1> USE DEF procVars, pipeVars, inputVars, loopVars, obsVars, restOfLoop
<1>0. main = [main EXCEPT !.pc = main.pc] /\ DOMAIN main = {"pc", "req", "result"}
  BY DEF Types, WorkerTypes, MainTypes
\* Whoever releases leaves down only what was rejected.
<1>a. ASSUME \E rejected \in SUBSET journal : ReleaseAll(rejected)
      PROVE  journal' \subseteq refused'
  BY <1>a DEF ReleaseAll
<1>b. ASSUME UNCHANGED <<alive, main, journal, refused>> \/ alive' = FALSE PROVE NothingLeftDown'
  BY <1>b DEF NothingLeftDown
<1>c. ASSUME journal' \subseteq refused' PROVE NothingLeftDown' BY <1>c DEF NothingLeftDown
<1>d. ASSUME UNCHANGED <<alive, journal, refused>>,
             \/ main'.pc \in {"pressing", "pressed", "release", "fail"}
             \/ main.pc \notin {"pressing", "pressed", "release", "fail"}
      PROVE  NothingLeftDown'
  BY <1>d DEF NothingLeftDown
<1>1. CASE ReaderStep /\ UNCHANGED ctlVars
  <2>1. CASE ReaderRelease BY <2>1, <1>a, <1>c DEF ReaderRelease
  <2>2. CASE ReadWork \/ ReadInterrupt \/ ReadEnd \/ ReaderBump \/ ReaderAnswer
    BY <2>2, <1>b DEF ReadWork, ReadInterrupt, ReadEnd, ReaderBump, ReaderAnswer
  <2> QED BY <1>1, <2>1, <2>2 DEF ReaderStep
<1>2. CASE OverlayStep
  <2>1. CASE ClickRelease BY <2>1, <1>a, <1>c DEF ClickRelease
  <2>2. CASE Click \/ ClickDone BY <2>2, <1>b DEF Click, ClickDone
  <2> QED BY <1>2, <2>1, <2>2 DEF OverlayStep
<1>3. CASE UiaStep BY <1>3, <1>b DEF UiaStep, Dispatch, Dispatched
<1>4. CASE MainStep
  <2>1. CASE ActRelease \/ MainFail BY <2>1, <1>a, <1>c DEF ActRelease, MainFail
  <2>2. CASE MainBroken \/ MainExit BY <2>2, <1>b DEF MainBroken, MainExit, WorkerEnds
  <2>3. CASE \/ MainReceive \/ LookCheck \/ LookRecord \/ MainClear \/ ActCheck \/ MainReply
             \/ MainForget \/ Submit \/ Await
    <3>1. UNCHANGED <<alive, journal, refused>>
      BY <2>3 DEF MainReceive, LookCheck, LookRecord, MainClear, ActCheck, MainReply, MainForget,
                  Submit, Await
    <3>2. main.pc \notin {"pressing", "pressed", "release", "fail"}
      BY <2>3 DEF MainReceive, LookCheck, LookRecord, MainClear, ActCheck, MainReply, MainForget,
                  Submit, Await, MainAt
    <3> QED BY <3>1, <3>2, <1>d
  <2>4. CASE PressJournal
    <3>1. CASE Goes("fail") /\ UNCHANGED <<journal, out>>
      BY <1>0, <1>d, <2>4, <3>1 DEF PressJournal, Goes
    <3>2. CASE Goes("pressing") BY <1>0, <3>2 DEF Goes, NothingLeftDown
    <3> QED BY <2>4, <3>1, <3>2 DEF PressJournal
  <2>5. CASE PressSend \/ PressUp
    <3>1. Goes("pressed") \/ Goes("release") \/ Goes("fail") BY <2>5 DEF PressSend, PressUp
    <3> QED BY <1>0, <3>1 DEF Goes, NothingLeftDown
  <2> QED BY <1>4, <2>1, <2>2, <2>3, <2>4, <2>5 DEF MainStep
<1>5. CASE HostNext
  <2>1. ASSUME NEW t \in Threads, StopStep(t) \/ Send(t) PROVE NothingLeftDown'
    <3>1. CASE ReleaseSend(t)
      <4>1. UNCHANGED <<alive, main, journal>> /\ refused \subseteq refused'
        BY <3>1 DEF ReleaseSend
      <4> QED BY <4>1 DEF NothingLeftDown
    <3>2. CASE Release(t) \/ StopTake(t) \/ WaitExit(t) \/ Send(t)
      BY <3>2, <1>b DEF Release, workerVars, StopTake, WaitExit, Send
    <3>3. CASE Kill(t) BY <3>3, <1>b DEF Kill, WorkerEnds
    <3> QED BY <2>1, <3>1, <3>2, <3>3 DEF StopStep
  <2>2. ASSUME NEW c \in Calls, Enter(c) \/ CallStep(c) PROVE NothingLeftDown'
    <3>1. CASE Start(c)
      <4>1. UNCHANGED workerVars \/ journal' = {} BY <3>1 DEF Start, WorkerStarts
      <4> QED BY <1>b, <1>c, <4>1 DEF workerVars
    <3>2. CASE Enter(c) BY <3>2, <1>b DEF Enter
    <3>3. CASE TakeGate(c) \/ CallAnswered(c) \/ CallExpires(c) \/ Drain(c) \/ Return(c)
      BY <3>3, <1>b DEF TakeGate, CallAnswered, CallExpires, Drain, Return, aside, workerVars
    <3> QED BY <2>2, <3>1, <3>2, <3>3 DEF CallStep
  <2>3. CASE ResetBegin \/ ResetStep \/ CloseBegin
    BY <2>3, <1>b DEF ResetBegin, ResetStep, ResetAnswered, ResetEnd, CloseBegin, aside, workerVars
  <2>4. ASSUME NEW w \in Workers, ReadStep(w) PROVE NothingLeftDown'
    BY <2>4, <1>b DEF ReadStep, Read, ReadEnds, Reap, workerVars
  <2>5. CASE Crash BY <2>5, <1>b DEF Crash, WorkerEnds
  <2>6. CASE HostDies BY <2>6, <1>b DEF HostDies
  <2> QED BY <1>5, <2>1, <2>2, <2>3, <2>4, <2>5, <2>6 DEF HostNext
<1>6. CASE UNCHANGED vars BY <1>6, <1>b DEF vars, workerVars
<1> QED BY <1>1, <1>2, <1>3, <1>4, <1>5, <1>6 DEF Next, WorkerNext

\* The generation of a successful answer is one the worker has reached, and no value that
\* is being set is older.
Settled == settled <= stops /\ StoppedIsQuiet

LEMMA SettledStep ==
  ASSUME Types, Settled, [Next]_vars
  PROVE  Settled'
<1> USE DEF procVars, pipeVars, inputVars, loopVars, obsVars, restOfLoop
<1>0. /\ stops \in Nat /\ settled \in Nat /\ uia.gen \in Nat
      /\ uia \in [pc : {"idle", "queued", "dispatching"}, of : Acts \cup {NoRequest},
                  cancel : BOOLEAN, gen : Nat, answer : {"none", "ok", "error"}]
  BY DEF Types, WorkerTypes, UiaTypes
<1>a. ASSUME UNCHANGED <<alive, stops, settled, uia>> PROVE Settled'
  BY <1>a DEF Settled, StoppedIsQuiet
<1>b. ASSUME settled' = 0, stops' = 0, alive' = FALSE \/ uia' = IdleUia PROVE Settled'
  BY <1>b DEF Settled, StoppedIsQuiet, IdleUia
<1>1. CASE ReaderStep
  <2>1. CASE ReadWork \/ ReadInterrupt \/ ReadEnd \/ ReaderRelease
    BY <2>1, <1>a DEF ReadWork, ReadInterrupt, ReadEnd, ReaderRelease
  <2>2. CASE ReaderBump
    BY <1>0, <2>2 DEF ReaderBump, Settled, StoppedIsQuiet
  <2>3. CASE ReaderAnswer
    <3>1. CASE reader.msg.kind = "stop" /\ InterruptResult(reader.msg) = "ok"
      <4>1. settled' = stops /\ UNCHANGED <<stops, uia, alive>> BY <2>3, <3>1 DEF ReaderAnswer
      <4>2. uia.pc # "dispatching" BY <3>1 DEF InterruptResult
      <4> QED BY <1>0, <4>1, <4>2 DEF Settled, StoppedIsQuiet
    <3>2. CASE ~(reader.msg.kind = "stop" /\ InterruptResult(reader.msg) = "ok")
      BY <1>a, <2>3, <3>2 DEF ReaderAnswer
    <3> QED BY <3>1, <3>2
  <2> QED BY <1>1, <2>1, <2>2, <2>3 DEF ReaderStep
<1>2. CASE OverlayStep
  <2>1. CASE ClickDone BY <1>0, <2>1 DEF ClickDone, Settled, StoppedIsQuiet
  <2>2. CASE Click \/ ClickRelease BY <2>2, <1>a DEF Click, ClickRelease
  <2> QED BY <1>2, <2>1, <2>2 DEF OverlayStep
<1>3. CASE UiaStep
  <2>1. UNCHANGED <<stops, settled>> BY <1>3 DEF UiaStep, Dispatch, Dispatched
  <2>2. uia'.pc = "dispatching" => uia'.gen = uia.gen /\ uia.gen = stops
    BY <1>0, <1>3 DEF UiaStep, Dispatch, Dispatched, MayDispatch
  <2> QED BY <1>0, <2>1, <2>2 DEF Settled, StoppedIsQuiet
<1>4. CASE MainStep
  <2>1. CASE MainBroken \/ MainExit
    BY <2>1, <1>b DEF MainBroken, MainExit, WorkerEnds
  <2>2. CASE Submit \/ Await
    <3>1. UNCHANGED <<stops, settled, alive>> BY <2>2 DEF Submit, Await
    <3>2. uia'.pc = "dispatching" => uia.pc = "dispatching" /\ uia'.gen = uia.gen
      BY <1>0, <2>2 DEF Submit, Await
    <3> QED BY <1>0, <3>1, <3>2 DEF Settled, StoppedIsQuiet
  <2>3. CASE \/ MainReceive \/ LookCheck \/ LookRecord \/ MainClear \/ ActCheck \/ PressJournal
             \/ PressSend \/ PressUp \/ ActRelease \/ MainFail \/ MainReply \/ MainForget
    BY <2>3, <1>a DEF MainReceive, LookCheck, LookRecord, MainClear, ActCheck, PressJournal, PressSend,
                      PressUp, ActRelease, MainFail, MainReply, MainForget
  <2> QED BY <1>4, <2>1, <2>2, <2>3 DEF MainStep
<1>5. CASE HostNext
  <2>1. ASSUME NEW t \in Threads, StopStep(t) \/ Send(t) PROVE Settled'
    <3>1. CASE Kill(t) BY <3>1, <1>b DEF Kill, WorkerEnds
    <3>2. CASE Release(t) \/ ReleaseSend(t) \/ StopTake(t) \/ WaitExit(t) \/ Send(t)
      BY <3>2, <1>a DEF Release, workerVars, ReleaseSend, StopTake, WaitExit, Send
    <3> QED BY <2>1, <3>1, <3>2 DEF StopStep
  <2>2. ASSUME NEW c \in Calls, Enter(c) \/ CallStep(c) PROVE Settled'
    <3>1. CASE Start(c)
      <4>1. UNCHANGED workerVars \/ WorkerStarts BY <3>1 DEF Start
      <4> QED BY <1>a, <1>b, <4>1 DEF workerVars, WorkerStarts
    <3>2. CASE Enter(c) BY <3>2, <1>a DEF Enter
    <3>3. CASE TakeGate(c) \/ CallAnswered(c) \/ CallExpires(c) \/ Drain(c) \/ Return(c)
      BY <3>3, <1>a DEF TakeGate, CallAnswered, CallExpires, Drain, Return, aside, workerVars
    <3> QED BY <2>2, <3>1, <3>2, <3>3 DEF CallStep
  <2>3. CASE ResetBegin \/ ResetStep \/ CloseBegin
    BY <2>3, <1>a DEF ResetBegin, ResetStep, ResetAnswered, ResetEnd, CloseBegin, aside, workerVars
  <2>4. ASSUME NEW w \in Workers, ReadStep(w) PROVE Settled'
    BY <2>4, <1>a DEF ReadStep, Read, ReadEnds, Reap, workerVars
  <2>5. CASE Crash BY <2>5, <1>b DEF Crash, WorkerEnds
  <2>6. CASE HostDies BY <2>6, <1>a DEF HostDies
  <2> QED BY <1>5, <2>1, <2>2, <2>3, <2>4, <2>5, <2>6 DEF HostNext
<1>6. CASE UNCHANGED vars BY <1>6, <1>a DEF vars, workerVars
<1> QED BY <1>1, <1>2, <1>3, <1>4, <1>5, <1>6 DEF Next, WorkerNext

\* While a value waits for the UI Automation thread and is not canceled, the main thread
\* waits for its answer.
ValueAwaited ==
  alive /\ uia.pc = "queued" /\ ~uia.cancel =>
    main.pc = "await" /\ main.req = Work(uia.of) /\ uia.answer = "none"

LEMMA ValueAwaitedStep ==
  ASSUME Types, ValueAwaited, [Next]_vars
  PROVE  ValueAwaited'
<1> USE DEF procVars, pipeVars, inputVars, loopVars, obsVars, restOfLoop
<1>0. /\ uia \in [pc : {"idle", "queued", "dispatching"}, of : Acts \cup {NoRequest},
                  cancel : BOOLEAN, gen : Nat, answer : {"none", "ok", "error"}]
      /\ main.pc = "submit" => main.req \in ActReqs
  BY DEF Types, WorkerTypes, UiaTypes, MainTypes, Acting
<1>a. ASSUME UNCHANGED <<alive, main, uia>> PROVE ValueAwaited'
  BY <1>a DEF ValueAwaited
<1>b. ASSUME alive' = FALSE \/ uia' = IdleUia PROVE ValueAwaited'
  BY <1>b DEF ValueAwaited, IdleUia
<1>1. CASE ReaderStep
  <2>1. CASE ReadWork \/ ReadInterrupt \/ ReadEnd
    BY <2>1, <1>a DEF ReadWork, ReadInterrupt, ReadEnd
  <2>2. CASE ReaderRelease
    <3>1. UNCHANGED <<alive, main, uia>> BY <2>2 DEF ReaderRelease
    <3> QED BY <3>1, <1>a
  <2>3. CASE ReaderBump BY <2>3, <1>a DEF ReaderBump
  <2>4. CASE ReaderAnswer BY <2>4, <1>a DEF ReaderAnswer
  <2> QED BY <1>1, <2>1, <2>2, <2>3, <2>4 DEF ReaderStep
<1>2. CASE OverlayStep BY <1>2, <1>a DEF OverlayStep, Click, ClickRelease, ClickDone
<1>3. CASE UiaStep
  <2>1. uia'.pc # "queued" BY <1>0, <1>3 DEF UiaStep, Dispatch, Dispatched
  <2> QED BY <2>1 DEF ValueAwaited
<1>4. CASE MainStep
  <2>1. CASE MainBroken \/ MainExit
    BY <2>1, <1>b DEF MainBroken, MainExit, WorkerEnds
  <2>2. CASE Submit
    <3>1. CASE UNCHANGED uia /\ Goes("fail")
      <4>1. uia.pc # "queued" \/ uia.cancel BY <2>2 DEF Submit, MainAt, ValueAwaited
      <4> QED BY <3>1, <4>1 DEF ValueAwaited
    <3>2. CASE /\ Goes("await")
               /\ uia' = [pc |-> "queued", of |-> MainCall, cancel |-> FALSE, gen |-> stops,
                          answer |-> "none"]
      <4>1. main.req = Work(MainCall) BY <1>0, <2>2, WorkKinds DEF Submit, MainAt, MainCall
      <4>2. main'.pc = "await" /\ main'.req = main.req BY <3>2 DEF Goes
      <4> QED BY <3>2, <4>1, <4>2 DEF ValueAwaited
    <3> QED BY <2>2, <3>1, <3>2 DEF Submit
  <2>3. CASE Await
    <3>1. CASE uia' = [uia EXCEPT !.cancel = TRUE] BY <1>0, <3>1 DEF ValueAwaited
    <3>2. CASE uia.answer # "none" /\ UNCHANGED uia
      <4>1. UNCHANGED alive BY <2>3 DEF Await
      <4> QED BY <3>2, <4>1 DEF ValueAwaited
    <3> QED BY <2>3, <3>1, <3>2 DEF Await
  <2>4. CASE \/ MainReceive \/ LookCheck \/ LookRecord \/ MainClear \/ ActCheck \/ PressJournal
             \/ PressSend \/ PressUp \/ ActRelease \/ MainFail \/ MainReply \/ MainForget
    <3>1. UNCHANGED <<alive, uia>> /\ main.pc # "await"
      BY <2>4 DEF MainAt, MainReceive, LookCheck, LookRecord, MainClear, ActCheck, PressJournal, PressSend,
                  PressUp, ActRelease, MainFail, MainReply, MainForget
    <3> QED BY <3>1 DEF ValueAwaited
  <2> QED BY <1>4, <2>1, <2>2, <2>3, <2>4 DEF MainStep
<1>5. CASE HostNext
  <2>1. ASSUME NEW t \in Threads, StopStep(t) \/ Send(t) PROVE ValueAwaited'
    <3>1. CASE Kill(t) BY <3>1, <1>b DEF Kill, WorkerEnds
    <3>2. CASE Release(t) \/ ReleaseSend(t) \/ StopTake(t) \/ WaitExit(t) \/ Send(t)
      BY <3>2, <1>a DEF Release, workerVars, ReleaseSend, StopTake, WaitExit, Send
    <3> QED BY <2>1, <3>1, <3>2 DEF StopStep
  <2>2. ASSUME NEW c \in Calls, Enter(c) \/ CallStep(c) PROVE ValueAwaited'
    <3>1. CASE Start(c)
      <4>1. UNCHANGED workerVars \/ WorkerStarts BY <3>1 DEF Start
      <4> QED BY <1>a, <1>b, <4>1 DEF workerVars, WorkerStarts
    <3>2. CASE Enter(c) BY <3>2, <1>a DEF Enter
    <3>3. CASE TakeGate(c) \/ CallAnswered(c) \/ CallExpires(c) \/ Drain(c) \/ Return(c)
      BY <3>3, <1>a DEF TakeGate, CallAnswered, CallExpires, Drain, Return, aside, workerVars
    <3> QED BY <2>2, <3>1, <3>2, <3>3 DEF CallStep
  <2>3. CASE ResetBegin \/ ResetStep \/ CloseBegin
    BY <2>3, <1>a DEF ResetBegin, ResetStep, ResetAnswered, ResetEnd, CloseBegin, aside, workerVars
  <2>4. ASSUME NEW w \in Workers, ReadStep(w) PROVE ValueAwaited'
    BY <2>4, <1>a DEF ReadStep, Read, ReadEnds, Reap, workerVars
  <2>5. CASE Crash BY <2>5, <1>b DEF Crash, WorkerEnds
  <2>6. CASE HostDies BY <2>6, <1>a DEF HostDies
  <2> QED BY <1>5, <2>1, <2>2, <2>3, <2>4, <2>5, <2>6 DEF HostNext
<1>6. CASE UNCHANGED vars BY <1>6, <1>a DEF vars, workerVars
<1> QED BY <1>1, <1>2, <1>3, <1>4, <1>5, <1>6 DEF Next, WorkerNext

(***************************************************************************)
(* Requests in a worker.  At most one request is there that the main       *)
(* thread has to execute, in the pipe, in the channel or in execution, and *)
(* the call that sent it waits for it; each is sent to one worker once.    *)
(***************************************************************************)

Busy      == main.pc \notin {"idle", "forget"}
Queued(r) == r \in ToSet(stdin) \cup ToSet(queue)
Inside(r) == Queued(r) \/ (Busy /\ main.req = r)

\* What has been said of a request or of a press, and not read.
Replied(r) == \E m \in Said : m.type = "reply" /\ m.to = r
Upped(x)   == \E m \in Said : m.type = "up" /\ x \in m.keys
Downed(x)  == \E m \in Said : m.type = "down" /\ x \in m.keys

NoWork(s)  == ToSet(s) \cap WorkReqs = {}
OneWork(s) == \A i, k \in DOMAIN s : s[i] \in WorkReqs /\ s[k] \in WorkReqs => i = k

InLine ==
  /\ OneWork(stdin)
  /\ queue # <<>> => Len(queue) = 1 /\ NoWork(stdin)
  /\ Busy => queue = <<>> /\ NoWork(stdin)

\* A call that has not sent a request yet.
Early == {"idle", "gate", "release", "releasing", "start"}
Unsent(r) ==
  \/ at[r.of] \in Early
  \/ at[r.of] = "send" /\ req[r.of] = r
  \/ r.kind = "work" /\ at[r.of] \in {"send", "await"} /\ req[r.of].kind = "hello"

Untouched == \A r \in WorkReqs : hostUp /\ Unsent(r) => ~Inside(r) /\ main.req # r /\ ~Replied(r)

\* A request is new when it is received, and not answered before its execution ends.
Once ==
  /\ \A r \in WorkReqs : Queued(r) => main.req # r /\ ~Replied(r)
  /\ Busy => ~Replied(main.req)

\* The call that sent it waits for it or is about to stop the worker.
Waits(r) ==
  \/ req[r.of] = r /\ at[r.of] \in {"await", "stop"}
  \/ r.kind = "work" /\ req[r.of] = Cancel(r.of) /\ at[r.of] \in {"send", "await", "drain", "stop"}

Awaited(r) == Waits(r) /\ r \in DOMAIN pending /\ pending[r] = "none"

Outside == {"idle", "gate", "canceled", "done"}

Charge ==
  /\ \A c \in Calls : at[c] \notin Outside => gate = c
  /\ hostUp /\ alive /\ cmd = 0 => \E t \in Threads : at[t] = "kill"
  /\ cmd # 0 => cmd = worker
  /\ \A w \in Workers : hostUp /\ w > worker => at[w] = "idle"
  /\ ~hostUp => \A t \in Threads : at[t] = "idle"
  /\ \A r \in WorkReqs : hostUp /\ alive /\ cmd # 0 /\ Inside(r) => Awaited(r)

Orderly == InLine /\ StopReachesWork /\ Untouched /\ Once /\ Charge

LEMMA OneWorkAppend ==
  ASSUME NEW s \in Seq(Requests), NEW r \in Requests, OneWork(s), NoWork(s) \/ r \notin WorkReqs
  PROVE  OneWork(Append(s, r))
<1>1. /\ DOMAIN Append(s, r) = DOMAIN s \cup {Len(s) + 1} /\ Append(s, r)[Len(s) + 1] = r
      /\ \A i \in DOMAIN s : Append(s, r)[i] = s[i]
  OBVIOUS
<1>2. r \in WorkReqs => \A i \in DOMAIN s : s[i] \notin WorkReqs BY DEF NoWork, ToSet
<1> QED BY <1>1, <1>2 DEF OneWork

LEMMA OneWorkTail ==
  ASSUME NEW s \in Seq(Requests), s # <<>>, OneWork(s)
  PROVE  /\ OneWork(Tail(s))
         /\ Head(s) \in WorkReqs => NoWork(Tail(s))
         /\ Head(s) \notin WorkReqs => ToSet(Tail(s)) \cap WorkReqs = ToSet(s) \cap WorkReqs
<1>1. /\ 1 \in DOMAIN s /\ Head(s) = s[1]
      /\ \A i \in DOMAIN Tail(s) : i \in Nat /\ i # 0 /\ i + 1 \in DOMAIN s /\ Tail(s)[i] = s[i + 1]
  OBVIOUS
<1>2. OneWork(Tail(s))
  <2> SUFFICES ASSUME NEW i \in DOMAIN Tail(s), NEW k \in DOMAIN Tail(s),
                      Tail(s)[i] \in WorkReqs, Tail(s)[k] \in WorkReqs
               PROVE  i = k
    BY DEF OneWork
  <2>1. i + 1 = k + 1 BY <1>1 DEF OneWork
  <2> QED BY <1>1, <2>1
<1>3. ASSUME Head(s) \in WorkReqs PROVE NoWork(Tail(s))
  <2> SUFFICES ASSUME NEW i \in DOMAIN Tail(s) PROVE Tail(s)[i] \notin WorkReqs
    BY DEF NoWork, ToSet
  <2>1. i + 1 \in DOMAIN s /\ i + 1 # 1 /\ Tail(s)[i] = s[i + 1] BY <1>1
  <2> QED BY <1>1, <1>3, <2>1 DEF OneWork
<1>4. ASSUME Head(s) \notin WorkReqs PROVE ToSet(Tail(s)) \cap WorkReqs = ToSet(s) \cap WorkReqs
  BY <1>4, InTail
<1> QED BY <1>2, <1>3, <1>4

LEMMA MessageTypes ==
  /\ \A c : Down(c).type = "down" /\ Down(c).keys = {c}
  /\ \A S : Up(S).type = "up" /\ Up(S).keys = S
  /\ LocalStopped.type = "local_stop"
  /\ \A r, res : Reply(r, res).type = "reply" /\ Reply(r, res).to = r
BY DEF Down, Up, LocalStopped, Reply

\* A request inside a worker has not been answered.
LEMMA InsideUnanswered ==
  ASSUME Once, NEW r \in WorkReqs, Inside(r)
  PROVE  ~Replied(r)
BY DEF Once, Inside

\* Nothing that the main thread has to execute moves.
Quiet ==
  /\ UNCHANGED <<queue, active, alive, worker, hostUp>>
  /\ main'.req = main.req /\ (Busy' <=> Busy)
  /\ ToSet(stdin') \cap WorkReqs = ToSet(stdin) \cap WorkReqs
  /\ OneWork(stdin) => OneWork(stdin')
  /\ \A r \in WorkReqs : Replied(r)' => Replied(r)

LEMMA QuietKeeps ==
  ASSUME Types, Orderly, Quiet
  PROVE  /\ InLine' /\ StopReachesWork' /\ Once'
         /\ \A r \in WorkReqs : (Inside(r)' <=> Inside(r)) /\ (Queued(r)' <=> Queued(r))
<1>1. NoWork(stdin') <=> NoWork(stdin) BY DEF Quiet, NoWork
<1>2. InLine' BY <1>1 DEF Orderly, InLine, Quiet
<1>3. StopReachesWork' BY DEF Orderly, StopReachesWork, Quiet, Busy
<1>4. \A r \in WorkReqs : (Queued(r)' <=> Queued(r)) /\ (Inside(r)' <=> Inside(r))
  BY DEF Quiet, Queued, Inside
<1>5. Once'
  <2>1. \A r \in WorkReqs : Queued(r)' => main'.req # r /\ ~Replied(r)'
    BY <1>4 DEF Orderly, Once, Quiet
  <2>2. Busy' => ~Replied(main.req)'
    <3>1. Busy => main.req \in WorkReqs BY DEF Types, WorkerTypes, MainTypes, Busy
    <3> QED BY <3>1 DEF Orderly, Once, Quiet
  <2>3. main'.req = main.req BY DEF Quiet
  <2> QED BY <2>1, <2>2, <2>3 DEF Once, Replied
<1> QED BY <1>2, <1>3, <1>4, <1>5

LEMMA QuietWorker ==
  ASSUME Types, Orderly, Quiet, UNCHANGED <<at, req, gate, cmd, pending>>
  PROVE  Orderly'
<1>1. /\ InLine' /\ StopReachesWork' /\ Once'
      /\ \A r \in WorkReqs : (Inside(r)' <=> Inside(r)) /\ (Queued(r)' <=> Queued(r))
  BY QuietKeeps
<1>2. Untouched' BY <1>1 DEF Orderly, Untouched, Unsent, Quiet
<1>3. Charge' BY <1>1 DEF Orderly, Charge, Awaited, Waits, Quiet
<1> QED BY <1>1, <1>2, <1>3 DEF Orderly

\* A thread of the host moves from one place to another.
LEMMA ThreadMoves ==
  ASSUME Types, Orderly, Quiet, hostUp, UNCHANGED cmd,
         NEW t \in Threads, NEW place, at' = [at EXCEPT ![t] = place],
         \A s \in Threads \ {t} : req'[s] = req[s],
         at[t] # "kill", t \in Workers => at[t] # "idle",
         \A c \in Calls \ {t} : gate = c => gate' = c,
         t \in Calls /\ place \notin Outside => gate' = t,
         \A r \in WorkReqs : r.of = t /\ Unsent(r)' => Unsent(r),
         alive => \A r \in WorkReqs : r.of # t /\ Inside(r) /\ r \in DOMAIN pending /\ pending[r] = "none"
                    => r \in DOMAIN pending' /\ pending'[r] = "none",
         alive /\ cmd # 0 => \A r \in WorkReqs : r.of = t /\ Inside(r) => Awaited(r)'
  PROVE  Orderly'
<1>1. /\ InLine' /\ StopReachesWork' /\ Once'
      /\ \A r \in WorkReqs : (Inside(r)' <=> Inside(r)) /\ (Queued(r)' <=> Queued(r))
  BY QuietKeeps
<1>2. at \in [Threads -> Places] BY DEF Types, HostTypes
<1>3. at'[t] = place /\ \A s \in Threads \ {t} : at'[s] = at[s] /\ req'[s] = req[s] BY <1>2
<1>4. \A r \in WorkReqs : r.of \in Threads BY WorkKinds, ThreadKinds
<1>5. Untouched'
  <2> SUFFICES ASSUME NEW r \in WorkReqs, hostUp, Unsent(r)'
               PROVE  ~Inside(r) /\ main.req # r /\ ~Replied(r)
    BY <1>1 DEF Untouched, Quiet
  <2>1. r.of # t => (Unsent(r)' <=> Unsent(r)) BY <1>3, <1>4 DEF Unsent
  <2>2. Unsent(r) BY <2>1
  <2> QED BY <2>2 DEF Orderly, Untouched
<1>6. Charge'
  <2>0. UNCHANGED <<alive, worker, hostUp, cmd>> BY DEF Quiet
  <2>1. \A c \in Calls : at'[c] \notin Outside => gate' = c
    BY <1>3, ThreadKinds DEF Orderly, Charge
  <2>2. alive /\ cmd = 0 => \E s \in Threads : at'[s] = "kill"
    BY <1>3 DEF Orderly, Charge
  <2>3. \A w \in Workers : w > worker => at'[w] = "idle"
    BY <1>3, ThreadKinds DEF Orderly, Charge
  <2>4. ASSUME NEW r \in WorkReqs, alive, cmd # 0, Inside(r) PROVE Awaited(r)'
    <3>1. CASE r.of = t BY <2>4, <3>1
    <3>2. CASE r.of # t
      <4>1. Awaited(r) BY <2>4 DEF Orderly, Charge
      <4>2. Waits(r)' BY <1>3, <1>4, <3>2, <4>1 DEF Awaited, Waits
      <4>3. r \in DOMAIN pending' /\ pending'[r] = "none" BY <2>4, <3>2, <4>1 DEF Awaited
      <4> QED BY <4>2, <4>3 DEF Awaited
    <3> QED BY <3>1, <3>2
  <2>5. cmd # 0 => cmd = worker BY DEF Orderly, Charge
  <2> QED BY <1>1, <2>0, <2>1, <2>2, <2>3, <2>4, <2>5 DEF Charge
<1> QED BY <1>1, <1>5, <1>6 DEF Orderly

\* The worker ends: it is killed by the thread that has taken it, or by itself.
LEMMA WorkerGone ==
  ASSUME Types, Orderly, WorkerEnds, UNCHANGED <<hostUp, worker, out, req, gate, cmd, pending>>,
         \/ at' = at
         \/ \E t \in Threads : at[t] = "kill" /\ Goto(t, "wait")
  PROVE  Orderly'
<1>1. /\ stdin' = <<>> /\ queue' = <<>> /\ ~Busy' /\ main'.req = NoRequest /\ alive' = FALSE
  BY DEF WorkerEnds, IdleMain, Busy
<1>2. ToSet(stdin') = {} /\ ToSet(queue') = {} BY <1>1 DEF ToSet
<1>3. \A r \in WorkReqs : ~Queued(r)' /\ ~Inside(r)' /\ main'.req # r
  BY <1>1, <1>2, WorkKinds DEF Queued, Inside
<1>4. InLine' BY <1>1 DEF InLine, OneWork, NoWork
<1>5. StopReachesWork' BY <1>1 DEF StopReachesWork
<1>6. Once' BY <1>1, <1>3 DEF Once
<1>7. \A r \in WorkReqs : r.of \in Calls /\ r.of \in Threads BY WorkKinds, ThreadKinds
<1>8. \A s \in Threads : \/ at'[s] = at[s]
                         \/ at[s] = "kill" /\ at'[s] = "wait"
  BY DEF Types, HostTypes, Goto
<1>9. Untouched'
  <2> SUFFICES ASSUME NEW r \in WorkReqs, hostUp, Unsent(r)' PROVE ~Replied(r)'
    BY <1>3 DEF Untouched
  <2>1. Unsent(r) BY <1>7, <1>8 DEF Unsent, Early
  <2>2. ~Replied(r) BY <2>1 DEF Orderly, Untouched
  <2>3. Said' = Said BY DEF Said
  <2> QED BY <2>2, <2>3 DEF Replied
<1>10. Charge'
  <2>1. \A c \in Calls : at'[c] \notin Outside => gate' = c
    BY <1>8, ThreadKinds DEF Orderly, Charge, Outside
  <2>2. \A w \in Workers : hostUp /\ w > worker => at'[w] = "idle"
    BY <1>8, ThreadKinds DEF Orderly, Charge
  <2>3. ~hostUp => \A s \in Threads : at'[s] = "idle" BY <1>8 DEF Orderly, Charge
  <2>4. cmd' # 0 => cmd' = worker' BY DEF Orderly, Charge
  <2> QED BY <1>1, <2>1, <2>2, <2>3, <2>4 DEF Charge
<1> QED BY <1>4, <1>5, <1>6, <1>9, <1>10 DEF Orderly

LEMMA MainTakes ==
  ASSUME Types, Orderly, MainReceive, UNCHANGED ctlVars
  PROVE  Orderly'
<1>1. /\ main.pc = "idle" /\ queue # <<>> /\ queue' = Tail(queue)
      /\ main'.req = Head(queue) /\ main'.pc \in {"fail", "reply", "look", "clear", "act"}
      /\ UNCHANGED <<stdin, active, alive, worker, hostUp, out>>
      /\ UNCHANGED <<at, req, gate, cmd, pending>>
  BY DEF MainReceive, MainAt, procVars, pipeVars, ctlVars, callVars
<1>2. queue \in Seq(WorkReqs) /\ Len(queue) = 1 /\ NoWork(stdin)
  BY <1>1 DEF Types, WorkerTypes, Orderly, InLine
<1>3. Head(queue) \in WorkReqs /\ queue' = <<>> /\ Last(queue) = Head(queue)
  BY <1>1, <1>2, InTail DEF Last
<1>4. ToSet(queue) = {Head(queue)} /\ ToSet(queue') = {}
  <2>1. ToSet(Tail(queue)) = {} BY <1>1, <1>3 DEF ToSet
  <2> QED BY <1>1, <1>2, <2>1, InTail
<1>5. ~Busy /\ Busy' BY <1>1 DEF Busy
<1>6. \A r \in WorkReqs : (Inside(r)' <=> Inside(r)) /\ ~Queued(r)' /\ (Queued(r) <=> r = Head(queue))
  BY <1>1, <1>2, <1>4, <1>5 DEF Inside, Queued, NoWork
<1>7. Said' = Said BY <1>1 DEF Said
<1>8. InLine' BY <1>1, <1>2, <1>3 DEF InLine, Orderly
<1>9. StopReachesWork' BY <1>1, <1>3 DEF Orderly, StopReachesWork
<1>10. Once' BY <1>1, <1>3, <1>6, <1>7 DEF Orderly, Once, Replied
<1>11. Untouched'
  <2> SUFFICES ASSUME NEW r \in WorkReqs, hostUp, Unsent(r)'
               PROVE  ~Inside(r)' /\ main'.req # r /\ ~Replied(r)'
    BY <1>1 DEF Untouched
  <2>1. Unsent(r) BY <1>1 DEF Unsent
  <2>2. ~Inside(r) /\ ~Replied(r) BY <2>1 DEF Orderly, Untouched
  <2> QED BY <1>1, <1>3, <1>6, <1>7, <2>2 DEF Replied, Inside
<1>12. Charge' BY <1>1, <1>6 DEF Orderly, Charge, Awaited, Waits
<1> QED BY <1>8, <1>9, <1>10, <1>11, <1>12 DEF Orderly

LEMMA ReaderTakes ==
  ASSUME Types, Orderly, ReadWork, UNCHANGED ctlVars
  PROVE  Orderly'
<1> DEFINE h == Head(stdin)
<1>1. /\ stdin # <<>> /\ h.kind \in {"hello", "work"} /\ stdin' = Tail(stdin) /\ active' = h
      /\ queue' = Append(queue, h)
      /\ UNCHANGED <<main, alive, worker, hostUp, out>> /\ UNCHANGED <<at, req, gate, cmd, pending>>
  BY DEF ReadWork, procVars, ctlVars, callVars
<1>2. stdin \in Seq(Requests) /\ queue \in Seq(WorkReqs) /\ OneWork(stdin)
  BY DEF Types, WorkerTypes, Orderly, InLine
<1>3. h \in WorkReqs /\ h \in ToSet(stdin) BY <1>1, <1>2, InTail, RequestKinds
<1>4. queue = <<>> /\ ~Busy BY <1>3 DEF Orderly, InLine, NoWork
<1>5. OneWork(stdin') /\ NoWork(stdin') BY <1>1, <1>2, <1>3, OneWorkTail
<1>6. queue' = <<h>> /\ ToSet(queue') = {h} /\ Last(queue') = h /\ ToSet(queue) = {}
  BY <1>1, <1>4 DEF ToSet, Last
<1>7. \A r \in WorkReqs : (Queued(r)' <=> Queued(r)) /\ (Inside(r)' <=> Inside(r))
  <2>1. ToSet(stdin) = ToSet(stdin') \cup {h} BY <1>1, <1>2, InTail
  <2>2. \A r \in WorkReqs : r \in ToSet(stdin) <=> r = h BY <1>5, <2>1 DEF NoWork
  <2>3. \A r \in WorkReqs : Queued(r)' <=> Queued(r)
    BY <1>5, <1>6, <2>2 DEF Queued, NoWork
  <2> QED BY <1>1, <2>3 DEF Inside, Busy
<1>8. Said' = Said BY <1>1 DEF Said
<1> HIDE DEF h
<1>9. InLine' BY <1>1, <1>4, <1>5, <1>6 DEF InLine, Busy
<1>10. StopReachesWork' BY <1>1, <1>4, <1>6 DEF StopReachesWork, Busy
<1>11. Once' BY <1>1, <1>4, <1>7, <1>8 DEF Orderly, Once, Replied, Busy
<1>12. Untouched' BY <1>1, <1>7, <1>8 DEF Orderly, Untouched, Unsent, Replied
<1>13. Charge' BY <1>1, <1>7 DEF Orderly, Charge, Awaited, Waits
<1> QED BY <1>9, <1>10, <1>11, <1>12, <1>13 DEF Orderly

LEMMA MainAnswers ==
  ASSUME Types, Orderly, MainReply, UNCHANGED ctlVars
  PROVE  Orderly'
<1>1. /\ main.pc = "reply" /\ alive /\ Goes("forget") /\ Write(Reply(main.req, main.result))
      /\ UNCHANGED <<stdin, queue, active, alive, worker, hostUp>>
      /\ UNCHANGED <<at, req, gate, cmd, pending>>
  BY DEF MainReply, MainAt, procVars, restOfLoop, ctlVars, callVars
<1>2. main'.req = main.req /\ ~Busy' /\ Busy /\ main.req \in WorkReqs /\ main'.pc = "forget"
  BY <1>1 DEF Types, WorkerTypes, MainTypes, Goes, Busy
<1>3. Said' = Said \cup {Reply(main.req, main.result)}
  <2>1. Reply(main.req, main.result) \in Messages
    BY <1>2, MessageKinds, WorkKinds DEF Types, WorkerTypes, MainTypes
  <2> QED BY <1>1, <2>1, Written DEF Types, WorkerTypes
<1>4. \A r \in WorkReqs : Replied(r)' => Replied(r) \/ r = main.req
  BY <1>3, MessageTypes DEF Replied
<1>5. \A r \in WorkReqs : (Queued(r)' <=> Queued(r)) /\ (Inside(r)' => Inside(r))
  BY <1>1, <1>2 DEF Queued, Inside
<1>6. InLine' BY <1>1, <1>2 DEF Orderly, InLine
<1>7. StopReachesWork' BY <1>1, <1>2 DEF Orderly, StopReachesWork
<1>8. Once' BY <1>2, <1>4, <1>5 DEF Orderly, Once
<1>9. Untouched'
  <2> SUFFICES ASSUME NEW r \in WorkReqs, hostUp, Unsent(r)'
               PROVE  ~Inside(r)' /\ main'.req # r /\ ~Replied(r)'
    BY <1>1 DEF Untouched
  <2>1. Unsent(r) BY <1>1 DEF Unsent
  <2>2. ~Inside(r) /\ ~Replied(r) /\ main.req # r BY <2>1 DEF Orderly, Untouched
  <2> QED BY <1>2, <1>4, <1>5, <2>2
<1>10. Charge' BY <1>1, <1>5 DEF Orderly, Charge, Awaited, Waits
<1> QED BY <1>6, <1>7, <1>8, <1>9, <1>10 DEF Orderly

LEMMA MainForgets ==
  ASSUME Types, Orderly, MainForget, UNCHANGED ctlVars
  PROVE  Orderly'
<1>1. /\ main.pc = "forget" /\ alive /\ main'.pc = "idle" /\ main'.req = NoRequest
      /\ active' = StillActive
      /\ UNCHANGED <<stdin, queue, alive, worker, hostUp, out>>
      /\ UNCHANGED <<at, req, gate, cmd, pending>>
  BY DEF MainForget, MainAt, procVars, pipeVars, ctlVars, callVars, IdleMain
<1>2. ~Busy' /\ ~Busy BY <1>1 DEF Busy
<1>3. \A r \in WorkReqs : (Queued(r)' <=> Queued(r)) /\ (Inside(r)' <=> Inside(r)) /\ main'.req # r
  BY <1>1, <1>2, WorkKinds DEF Queued, Inside
<1>4. Said' = Said BY <1>1 DEF Said
<1>5. InLine' BY <1>1, <1>2 DEF Orderly, InLine
<1>6. StopReachesWork'
  <2> SUFFICES ASSUME queue # <<>> PROVE active' = Last(queue)
    BY <1>1 DEF StopReachesWork
  <2>1. active = Last(queue) BY <1>1 DEF Orderly, StopReachesWork
  <2>2. queue \in Seq(WorkReqs) /\ Len(queue) = 1 BY DEF Types, WorkerTypes, Orderly, InLine
  <2>3. Last(queue) = queue[1] /\ 1 \in DOMAIN queue /\ queue[1] \in WorkReqs BY <2>2 DEF Last
  <2>4. Queued(Last(queue)) BY <2>3 DEF Queued, ToSet
  <2>5. main.req # Last(queue) BY <2>3, <2>4 DEF Orderly, Once
  <2> QED BY <1>1, <2>1, <2>5 DEF StillActive
<1>7. Once' BY <1>2, <1>3, <1>4 DEF Orderly, Once, Replied
<1>8. Untouched' BY <1>1, <1>3, <1>4 DEF Orderly, Untouched, Unsent, Replied
<1>9. Charge' BY <1>1, <1>3 DEF Orderly, Charge, Awaited, Waits
<1> QED BY <1>5, <1>6, <1>7, <1>8, <1>9 DEF Orderly

LEMMA ReleaseSays ==
  ASSUME Types, alive, \E rejected \in SUBSET journal : ReleaseAll(rejected)
  PROVE  \E m : Said' \subseteq Said \cup {m} /\ m.type # "reply"
<1>1. PICK rejected \in SUBSET journal : ReleaseAll(rejected) OBVIOUS
<1>2. Said' = Said \/ Said' = Said \cup {Up(journal \ rejected)} BY <1>1, ReleaseTypes DEF Types
<1>3. Said' \subseteq Said \cup {Up(journal \ rejected)} /\ Up(journal \ rejected).type # "reply"
  BY <1>2, MessageTypes
<1> QED BY <1>3

\* The other steps of the worker.
LEMMA QuietSteps ==
  ASSUME Types, Orderly,
         \/ ReadInterrupt \/ ReadEnd \/ ReaderRelease \/ ReaderBump \/ ReaderAnswer \/ OverlayStep
         \/ LookCheck \/ LookRecord \/ MainClear \/ ActCheck \/ PressJournal \/ PressSend \/ PressUp
         \/ ActRelease \/ MainFail \/ Submit \/ Await \/ UiaStep
  PROVE  Quiet
<1> USE DEF procVars, pipeVars, inputVars, loopVars, obsVars, restOfLoop
<1>0. /\ stdin \in Seq(Requests) /\ (alive => worker \in Workers)
      /\ out \in [Workers -> Seq(Messages)] /\ MainTypes /\ OneWork(stdin)
  BY DEF Types, WorkerTypes, Orderly, InLine
<1>a. ASSUME UNCHANGED <<queue, active, alive, worker, hostUp, stdin>>,
             main'.req = main.req, Busy' <=> Busy,
             \A r \in WorkReqs : Replied(r)' => Replied(r)
      PROVE  Quiet
  BY <1>a DEF Quiet
<1>b. out' = out => \A r \in WorkReqs : Replied(r)' => Replied(r) BY DEF Replied, Said
<1>c. (\E m : Said' \subseteq Said \cup {m} /\ m.type # "reply")
        => \A r \in WorkReqs : Replied(r)' => Replied(r)
  BY DEF Replied
<1>d. \A m \in Messages : alive /\ Write(m) => Said' = Said \cup {m} BY <1>0, Written
<1>e. main' = main => main'.req = main.req /\ (Busy' <=> Busy) BY DEF Busy
<1>f. ASSUME NEW pc \in MainPlaces \ {"idle", "forget"}, Goes(pc) \/ Replies("ok") \/ Replies("error"),
             main.pc \notin {"idle", "forget"}
      PROVE  main'.req = main.req /\ (Busy' <=> Busy)
  <2>1. main' = [main EXCEPT !.pc = pc] \/ main' = [main EXCEPT !.pc = "reply", !.result = "ok"]
        \/ main' = [main EXCEPT !.pc = "reply", !.result = "error"]
    BY <1>f DEF Goes, Replies
  <2>2. DOMAIN main = {"pc", "req", "result"} BY <1>0 DEF MainTypes
  <2>3. main'.req = main.req /\ main'.pc \in {pc, "reply"} BY <2>1, <2>2
  <2> QED BY <1>f, <2>3 DEF Busy
<1>1. CASE ReadInterrupt
  <2>1. stdin # <<>> /\ Head(stdin).kind \in {"cancel", "stop"} /\ stdin' = Tail(stdin)
        /\ UNCHANGED <<queue, active, alive, worker, hostUp, main, out>>
    BY <1>1 DEF ReadInterrupt
  <2>2. Head(stdin) \notin WorkReqs
    <3>1. Head(stdin) \in Requests BY <1>0, <2>1, InTail
    <3> QED BY <2>1, <3>1, RequestKinds, WorkKinds
  <2>3. OneWork(stdin') /\ ToSet(stdin') \cap WorkReqs = ToSet(stdin) \cap WorkReqs
    BY <1>0, <2>1, <2>2, OneWorkTail
  <2> QED BY <1>b, <1>e, <2>1, <2>3 DEF Quiet
<1>2. CASE ReadEnd BY <1>2, <1>a, <1>b, <1>e DEF ReadEnd
<1>3. CASE ReaderRelease
  <2>1. alive /\ \E rejected \in SUBSET journal : ReleaseAll(rejected)
    BY <1>3 DEF ReaderRelease, ReaderAt
  <2>2. UNCHANGED <<queue, active, alive, worker, hostUp, stdin, main>> BY <1>3 DEF ReaderRelease
  <2> QED BY <1>a, <1>c, <1>e, <2>1, <2>2, ReleaseSays
<1>4. CASE ReaderBump
  <2>1. UNCHANGED <<queue, active, alive, worker, hostUp, stdin, main>> BY <1>4 DEF ReaderBump
  <2>2. alive /\ (out' = out \/ Write(LocalStopped)) BY <1>4 DEF ReaderBump, ReaderAt
  <2>3. \A r \in WorkReqs : Replied(r)' => Replied(r)
    BY <1>b, <1>c, <1>d, <2>2, MessageKinds, MessageTypes
  <2> QED BY <1>a, <1>e, <2>1, <2>3
<1>5. CASE ReaderAnswer
  <2>1. UNCHANGED <<queue, active, alive, worker, hostUp, stdin, main>> BY <1>5 DEF ReaderAnswer
  <2>2. alive /\ Write(Reply(reader.msg, InterruptResult(reader.msg)))
    BY <1>5 DEF ReaderAnswer, ReaderAt
  <2>3. reader.msg \in Interrupting
    BY <1>5 DEF ReaderAnswer, ReaderAt, Types, WorkerTypes, ReaderTypes
  <2>4. InterruptResult(reader.msg) \in {"ok", "error", "settling"} BY DEF InterruptResult
  <2>5. Reply(reader.msg, InterruptResult(reader.msg)) \in Messages
    BY <2>3, <2>4, MessageKinds, WorkKinds
  <2>6. Said' = Said \cup {Reply(reader.msg, InterruptResult(reader.msg))} BY <1>d, <2>2, <2>5
  <2>7. reader.msg \notin WorkReqs BY <2>3, WorkKinds
  <2>8. \A r \in WorkReqs : Replied(r)' => Replied(r) BY <2>6, <2>7, MessageTypes DEF Replied
  <2> QED BY <1>a, <1>e, <2>1, <2>8
<1>6. CASE OverlayStep
  <2>1. UNCHANGED <<queue, active, alive, worker, hostUp, stdin, main>> /\ alive
    BY <1>6 DEF OverlayStep, Click, ClickRelease, ClickDone
  <2>2. \/ out' = out \/ Write(LocalStopped) \/ \E rejected \in SUBSET journal : ReleaseAll(rejected)
    BY <1>6 DEF OverlayStep, Click, ClickRelease, ClickDone
  <2>3. \A r \in WorkReqs : Replied(r)' => Replied(r)
    BY <1>b, <1>c, <1>d, <2>1, <2>2, MessageKinds, MessageTypes, ReleaseSays
  <2> QED BY <1>a, <1>e, <2>1, <2>3
<1>7. CASE LookCheck \/ LookRecord \/ MainClear \/ ActCheck \/ Submit \/ Await
  <2>1. UNCHANGED <<queue, active, alive, worker, hostUp, stdin, out>>
    BY <1>7 DEF LookCheck, LookRecord, MainClear, ActCheck, Submit, Await
  <2>2. main.pc \notin {"idle", "forget"}
    BY <1>7 DEF LookCheck, LookRecord, MainClear, ActCheck, Submit, Await, MainAt
  <2>3. Replies("ok") \/ \E pc \in {"fail", "record", "submit", "press", "await"} : Goes(pc)
    BY <1>7 DEF LookCheck, LookRecord, MainClear, ActCheck, Submit, Await
  <2>4. main'.req = main.req /\ (Busy' <=> Busy) BY <1>f, <2>2, <2>3 DEF MainPlaces
  <2> QED BY <1>a, <1>b, <2>1, <2>4
<1>8. CASE PressJournal \/ PressSend \/ PressUp
  <2>1. UNCHANGED <<queue, active, alive, worker, hostUp, stdin>>
    BY <1>8 DEF PressJournal, PressSend, PressUp
  <2>2. main.pc \in {"press", "pressing", "pressed"} /\ alive
    BY <1>8 DEF PressJournal, PressSend, PressUp, MainAt
  <2>3. \E pc \in {"fail", "pressing", "pressed", "release"} : Goes(pc)
    BY <1>8 DEF PressJournal, PressSend, PressUp
  <2>4. main'.req = main.req /\ (Busy' <=> Busy) BY <1>f, <2>2, <2>3 DEF MainPlaces
  <2>5. MainCall \in Acts BY <1>0, <2>2, WorkKinds DEF MainTypes, Acting, MainCall
  <2>6. out' = out \/ Write(Down(MainCall)) \/ Write(Up({MainCall}))
    BY <1>8 DEF PressJournal, PressSend, PressUp
  <2>7. Down(MainCall) \in Messages /\ Up({MainCall}) \in Messages BY <2>5, MessageKinds
  <2>8. \A r \in WorkReqs : Replied(r)' => Replied(r)
    BY <1>b, <1>c, <1>d, <2>2, <2>6, <2>7, MessageTypes
  <2> QED BY <1>a, <2>1, <2>4, <2>8
<1>9. CASE ActRelease \/ MainFail
  <2>1. UNCHANGED <<queue, active, alive, worker, hostUp, stdin>> BY <1>9 DEF ActRelease, MainFail
  <2>2. alive /\ main.pc \in {"release", "fail"} /\ \E rejected \in SUBSET journal : ReleaseAll(rejected)
    BY <1>9 DEF ActRelease, MainFail, MainAt
  <2>3. Replies("ok") \/ Replies("error") \/ Goes("fail") BY <1>9 DEF ActRelease, MainFail
  <2>4. main'.req = main.req /\ (Busy' <=> Busy) BY <1>f, <2>2, <2>3 DEF MainPlaces
  <2> QED BY <1>a, <1>c, <2>1, <2>2, <2>4, ReleaseSays
<1>10. CASE UiaStep BY <1>10, <1>a, <1>b, <1>e DEF UiaStep, Dispatch, Dispatched
<1> QED BY <1>1, <1>2, <1>3, <1>4, <1>5, <1>6, <1>7, <1>8, <1>9, <1>10

LEMMA WorkerKeepsOrder ==
  ASSUME Types, Orderly, WorkerNext, UNCHANGED ctlVars
  PROVE  Orderly'
<1>1. UNCHANGED <<at, req, gate, cmd, pending>> BY DEF ctlVars, callVars
<1>2. CASE MainBroken BY <1>1, <1>2, WorkerGone DEF MainBroken
<1>3. CASE MainExit BY <1>1, <1>3, WorkerGone DEF MainExit
<1>4. CASE ReadWork \/ MainReceive \/ MainReply \/ MainForget
  BY <1>4, ReaderTakes, MainTakes, MainAnswers, MainForgets
<1>5. CASE Quiet BY <1>1, <1>5, QuietWorker
<1> QED BY <1>2, <1>3, <1>4, <1>5, QuietSteps DEF WorkerNext, ReaderStep, MainStep

LEMMA HostIsQuiet ==
  ASSUME UNCHANGED <<stdin, queue, active, alive, worker, hostUp, main>>,
         \A r \in WorkReqs : Replied(r)' => Replied(r)
  PROVE  Quiet
BY DEF Quiet, Busy

LEMMA SameOutput ==
  ASSUME UNCHANGED out, NEW r
  PROVE  Replied(r)' <=> Replied(r)
BY DEF Replied, Said

\* A thread that is not at a request: a releaseInputs, the end of a kill.
LEMMA AsideMoves ==
  ASSUME Types, Orderly, hostUp, UNCHANGED <<out, stdin, queue, active, alive, worker, hostUp, main>>,
         UNCHANGED <<req, gate, cmd, pending>>, NEW t \in Threads, NEW place, Goto(t, place),
         at[t] \notin Outside \cup {"kill", "send", "await", "drain", "stop"},
         t \in Calls /\ place \in Early \cup {"send", "await"}
           => at[t] \in Early /\ place # "send" /\ place # "await"
  PROVE  Orderly'
<1>1. Quiet BY HostIsQuiet, SameOutput
<1>2. at' = [at EXCEPT ![t] = place] BY DEF Goto
<1>3. t \in Calls => gate' = t BY DEF Orderly, Charge
<1>4. at'[t] = place BY <1>2 DEF Types, HostTypes
<1>5. \A r \in WorkReqs : r.of = t /\ Unsent(r)' => Unsent(r) BY <1>4, WorkKinds DEF Unsent
<1>6. alive /\ cmd # 0 => \A r \in WorkReqs : r.of = t => ~Inside(r)
  BY DEF Orderly, Charge, Awaited, Waits
<1> QED BY <1>1, <1>2, <1>3, <1>5, <1>6, ThreadMoves DEF Outside

\* A thread that is no call moves; what calls wait for is left alone while the worker runs.
LEMMA OthersMove ==
  ASSUME Types, Orderly, hostUp, UNCHANGED <<out, stdin, queue, active, alive, worker, hostUp, main>>,
         UNCHANGED <<gate, cmd>>, NEW t \in Threads \ Calls, NEW place, Goto(t, place),
         \A s \in Threads \ {t} : req'[s] = req[s],
         at[t] # "kill", t \in Workers => at[t] # "idle",
         alive => \A r \in WorkReqs : r \in DOMAIN pending /\ pending[r] = "none"
                    => r \in DOMAIN pending' /\ pending'[r] = "none"
  PROVE  Orderly'
<1>1. Quiet BY HostIsQuiet, SameOutput
<1>2. at' = [at EXCEPT ![t] = place] BY DEF Goto
<1>3. \A r \in WorkReqs : r.of # t BY WorkKinds
<1> QED BY <1>1, <1>2, <1>3, ThreadMoves

\* A call moves between places where it waits for no one else; others' requests stay.
LEMMA CallMoves ==
  ASSUME Types, Orderly, hostUp, UNCHANGED <<out, stdin, queue, active, alive, worker, hostUp, main>>,
         UNCHANGED cmd, NEW c \in Calls, NEW place, Goto(c, place),
         \A s \in Threads \ {c} : req'[s] = req[s], at[c] # "kill",
         \A d \in Calls \ {c} : gate = d => gate' = d,
         place \notin Outside => gate' = c,
         \A r \in WorkReqs : r.of = c /\ Unsent(r)' => Unsent(r),
         alive => \A r \in WorkReqs : r.of # c /\ r \in DOMAIN pending /\ pending[r] = "none"
                    => r \in DOMAIN pending' /\ pending'[r] = "none",
         alive /\ cmd # 0 => \A r \in WorkReqs : r.of = c /\ Inside(r) => Awaited(r)'
  PROVE  Orderly'
<1>1. Quiet BY HostIsQuiet, SameOutput
<1>2. at' = [at EXCEPT ![c] = place] BY DEF Goto
<1>3. c \in Threads /\ c \notin Workers BY ThreadKinds
<1> QED BY <1>1, <1>2, <1>3, ThreadMoves

\* The requests of a call differ.
LEMMA OwnRequests ==
  ASSUME NEW c \in Calls
  PROVE  /\ Hello(c) # Work(c) /\ Work(c) # Cancel(c) /\ Hello(c) # Cancel(c)
         /\ Hello(c).kind = "hello" /\ Work(c).kind = "work" /\ Cancel(c).kind = "cancel"
         /\ \A r \in WorkReqs : r.of = c => r \in {Hello(c), Work(c)}
         /\ \A r \in WorkReqs : r.of = c /\ r.kind = "work" => r = Work(c)
         /\ \A r \in WorkReqs : r # Cancel(c)
BY WorkKinds DEF Hello, Work, Cancel, Request, WorkReqs

LEMMA StopKeepsOrder ==
  ASSUME Types, Orderly, hostUp, NEW t \in Threads, StopStep(t)
  PROVE  Orderly'
<1> USE DEF procVars, pipeVars, inputVars, loopVars, obsVars, callVars
<1>0. Asked(t, at[t], req[t], DOMAIN pending) /\ at \in [Threads -> Places]
  BY DEF Types, HostTypes, Asks
<1>1. CASE Release(t)
  <2>1. /\ UNCHANGED <<out, stdin, queue, active, alive, worker, hostUp, main>>
        /\ UNCHANGED <<req, gate, cmd, pending>> /\ at[t] \in {"release", "stop_release"}
    BY <1>1 DEF Release, workerVars
  <2> DEFINE place == IF inputs # {}
                      THEN IF at[t] = "release" THEN "releasing" ELSE "stop_releasing"
                      ELSE IF at[t] = "release" THEN AfterRelease(t, TRUE) ELSE AfterStop(t)
  <2>2. Goto(t, place) BY <1>1 DEF Release
  <2>3. t \in Calls /\ place \in Early \cup {"send", "await"}
          => at[t] = "release" /\ place # "send" /\ place # "await"
    BY <2>1 DEF AfterRelease, AfterStop, Early
  <2> HIDE DEF place
  <2> QED BY <2>1, <2>2, <2>3, AsideMoves DEF Outside, Early
<1>2. CASE ReleaseSend(t)
  <2>1. /\ UNCHANGED <<out, stdin, queue, active, alive, worker, hostUp, main>>
        /\ UNCHANGED <<req, gate, cmd, pending>> /\ at[t] \in {"releasing", "stop_releasing"}
    BY <1>2 DEF ReleaseSend
  <2> DEFINE place == IF at[t] = "releasing" THEN AfterRelease(t, inputs' = {}) ELSE AfterStop(t)
  <2>2. Goto(t, place) BY <1>2 DEF ReleaseSend
  <2>3. t \in Calls /\ place \in Early \cup {"send", "await"}
          => at[t] = "releasing" /\ place # "send" /\ place # "await"
    BY <2>1 DEF AfterRelease, AfterStop, Early
  <2> HIDE DEF place
  <2> QED BY <2>1, <2>2, <2>3, AsideMoves DEF Outside, Early
<1>3. CASE WaitExit(t)
  <2>1. /\ UNCHANGED <<out, stdin, queue, active, alive, worker, hostUp, main>>
        /\ UNCHANGED <<req, gate, cmd, pending>> /\ at[t] = "wait" /\ Goto(t, "stop_release")
    BY <1>3 DEF WaitExit
  <2> QED BY <2>1, AsideMoves DEF Outside, Early
<1>4. CASE Kill(t)
  <2>1. WorkerEnds /\ UNCHANGED <<hostUp, worker, out, req, gate, cmd, pending>>
        /\ at[t] = "kill" /\ Goto(t, "wait")
    BY <1>4 DEF Kill
  <2> QED BY <2>1, WorkerGone
<1>5. CASE StopTake(t) /\ t \in Workers /\ cmd # t
  <2>1. /\ UNCHANGED <<out, stdin, queue, active, alive, worker, hostUp, main>>
        /\ UNCHANGED <<req, gate, cmd, pending>> /\ at[t] = "stop" /\ Goto(t, AfterStop(t))
    BY <1>5 DEF StopTake
  <2>2. t \in Threads \ Calls BY <1>5, ThreadKinds
  <2> QED BY <2>1, <2>2, OthersMove
<1>6. CASE StopTake(t) /\ ~(t \in Workers /\ cmd # t)
  <2>1. /\ UNCHANGED <<out, stdin, queue, active, alive, worker, hostUp, main>>
        /\ UNCHANGED <<req, gate>> /\ at[t] = "stop" /\ cmd' = 0 /\ LifecycleFree
        /\ Goto(t, IF cmd = 0 THEN "stop_release" ELSE "kill")
    BY <1>6 DEF StopTake
  <2>2. Quiet BY <2>1, HostIsQuiet, SameOutput
  <2>3. /\ InLine' /\ StopReachesWork' /\ Once'
        /\ \A r \in WorkReqs : (Inside(r)' <=> Inside(r)) /\ (Queued(r)' <=> Queued(r))
    BY <2>2, QuietKeeps
  <2>4. /\ at'[t] \in {"stop_release", "kill"} /\ (cmd # 0 => at'[t] = "kill")
        /\ \A s \in Threads \ {t} : at'[s] = at[s]
    BY <1>0, <2>1 DEF Goto
  <2>5. Untouched'
    <3>1. \A r \in WorkReqs : r.of \in Threads /\ (Unsent(r)' => Unsent(r))
      BY <2>1, <2>4, WorkKinds, ThreadKinds DEF Unsent, Early
    <3> QED BY <2>1, <2>2, <2>3, <3>1 DEF Orderly, Untouched, Quiet
  <2>6. Charge'
    <3>1. \A d \in Calls : at'[d] \notin Outside => gate' = d
      BY <2>1, <2>4, ThreadKinds DEF Orderly, Charge, Outside
    <3>2. alive => \E s \in Threads : at'[s] = "kill"
      <4>1. CASE cmd = 0
        <5>1. \A s \in Threads : at[s] # "kill" BY <2>1 DEF LifecycleFree
        <5> QED BY <4>1, <5>1 DEF Orderly, Charge
      <4>2. CASE cmd # 0 BY <2>4, <4>2
      <4> QED BY <4>1, <4>2
    <3>3. \A w \in Workers : w > worker => at'[w] = "idle"
      BY <2>1, <2>4, ThreadKinds DEF Orderly, Charge
    <3> QED BY <2>1, <3>1, <3>2, <3>3 DEF Charge
  <2> QED BY <2>3, <2>5, <2>6 DEF Orderly
<1> QED BY <1>1, <1>2, <1>3, <1>4, <1>5, <1>6 DEF StopStep

\* A hello or an act reaches a worker that has nothing else to execute.
LEMMA WorkIsSent ==
  ASSUME Types, Orderly, hostUp, NEW c \in Calls, NEW r \in {Hello(c), Work(c)}, at[c] = "send",
         req[c] = r, cmd # 0, Goto(c, "await"), pending' = Registered(r),
         stdin' = IF alive THEN Append(stdin, r) ELSE stdin,
         UNCHANGED <<out, queue, active, alive, worker, hostUp, main, gate, req, cmd>>
  PROVE  Orderly'
<1>0. /\ stdin \in Seq(Requests) /\ OneWork(stdin) /\ r \in Requests /\ r \in WorkReqs /\ r.of = c
      /\ c \in Threads /\ c \notin Workers
  <2>1. stdin \in Seq(Requests) /\ OneWork(stdin) BY DEF Types, WorkerTypes, Orderly, InLine
  <2>2. r \in WorkReqs /\ r \in Requests BY WorkKinds
  <2>3. r.of = c BY RequestOf
  <2>4. c \in Threads /\ c \notin Workers BY ThreadKinds
  <2> QED BY <2>1, <2>2, <2>3, <2>4
<1>h. HostTypes /\ at \in [Threads -> Places] BY DEF Types, HostTypes
<1>1. at'[c] = "await" /\ \A s \in Threads \ {c} : at'[s] = at[s] BY <1>0, <1>h DEF Goto
<1>2. \A x \in WorkReqs : x.of \in Threads BY WorkKinds, ThreadKinds
<1>3. Unsent(r) BY <1>0 DEF Unsent
<1>4. ~Inside(r) /\ main.req # r /\ ~Replied(r) BY <1>0, <1>3 DEF Orderly, Untouched
<1>5. gate = c BY DEF Orderly, Charge, Outside
<1>6. alive => \A x \in WorkReqs : ~Inside(x)
  <2> SUFFICES ASSUME alive, NEW x \in WorkReqs, Inside(x) PROVE FALSE OBVIOUS
  <2>1. Awaited(x) BY DEF Orderly, Charge
  <2>2. gate = x.of BY <2>1, WorkKinds DEF Orderly, Charge, Awaited, Waits, Outside
  <2>3. x.of = c BY <1>5, <2>2
  <2>4. req[c] = Cancel(c) BY <2>1, <2>3 DEF Awaited, Waits
  <2> QED BY <1>0, <2>4, OwnRequests
<1>7. \A x \in WorkReqs : Replied(x)' <=> Replied(x) BY SameOutput
<1>8. CASE ~alive
  <2>1. Quiet BY <1>8, HostIsQuiet, SameOutput
  <2>2. \A x \in WorkReqs : x.of = c /\ Unsent(x)' => Unsent(x)
    BY <1>0, <1>1, OwnRequests DEF Unsent, Early
  <2>3. at' = [at EXCEPT ![c] = "await"] BY DEF Goto
  <2>4. at[c] # "kill" /\ gate' = c /\ \A d \in Calls \ {c} : gate = d => gate' = d BY <1>5
  <2> QED BY <1>0, <1>8, <2>1, <2>2, <2>3, <2>4, ThreadMoves
<1>9. CASE alive
  <2>1. stdin' = Append(stdin, r) BY <1>9
  <2>2. NoWork(stdin) /\ queue = <<>> /\ ~Busy
    <3>1. \A x \in WorkReqs : x \notin ToSet(stdin) BY <1>6, <1>9 DEF Inside, Queued
    <3>2. ~Busy BY <1>6, <1>9 DEF Inside, Busy, Types, WorkerTypes, MainTypes
    <3>3. queue = <<>>
      <4> SUFFICES ASSUME queue # <<>> PROVE FALSE OBVIOUS
      <4>1. Head(queue) \in WorkReqs /\ Head(queue) \in ToSet(queue)
        BY InTail DEF Types, WorkerTypes
      <4> QED BY <1>6, <1>9, <4>1 DEF Inside, Queued
    <3> QED BY <3>1, <3>2, <3>3 DEF NoWork
  <2>3. OneWork(stdin') /\ ToSet(stdin') = ToSet(stdin) \cup {r}
    BY <1>0, <2>1, <2>2, OneWorkAppend, InAppend
  <2>4. \A x \in WorkReqs : (Queued(x)' <=> Queued(x) \/ x = r) /\ (Inside(x)' <=> Inside(x) \/ x = r)
    BY <2>2, <2>3 DEF Queued, Inside, Busy
  <2>5. InLine' BY <2>2, <2>3 DEF InLine, Busy
  <2>6. StopReachesWork' BY DEF Orderly, StopReachesWork
  <2>7. Once'
    <3>1. \A x \in WorkReqs : Queued(x)' => main'.req # x /\ ~Replied(x)'
      BY <1>4, <1>7, <2>4 DEF Orderly, Once
    <3>2. ~Busy' BY <2>2 DEF Busy
    <3> QED BY <3>1, <3>2 DEF Once
  <2>8. Untouched'
    <3> SUFFICES ASSUME NEW x \in WorkReqs, hostUp, Unsent(x)'
                 PROVE  ~Inside(x)' /\ main'.req # x /\ ~Replied(x)'
      BY DEF Untouched
    <3>1. Unsent(x) /\ x # r
      <4>1. CASE x.of = c BY <1>0, <1>1, <4>1, OwnRequests DEF Unsent, Early
      <4>2. CASE x.of # c BY <1>0, <1>1, <1>2, <4>2 DEF Unsent
      <4> QED BY <4>1, <4>2
    <3>2. ~Inside(x) /\ main.req # x /\ ~Replied(x) BY <3>1 DEF Orderly, Untouched
    <3> QED BY <1>7, <2>4, <3>1, <3>2
  <2>9. Charge'
    <3>1. \A d \in Calls : at'[d] \notin Outside => gate' = d
      BY <1>1, <1>5, ThreadKinds DEF Orderly, Charge
    <3>2. \A w \in Workers : w > worker => at'[w] = "idle"
      BY <1>0, <1>1, ThreadKinds DEF Orderly, Charge
    <3>3. \A x \in WorkReqs : Inside(x)' => x = r BY <1>6, <1>9, <2>4
    <3>4. Awaited(r)'
      <4>1. r \in DOMAIN pending' /\ pending'[r] = "none" BY DEF Registered
      <4> QED BY <1>0, <1>1, <4>1 DEF Awaited, Waits
    <3>5. cmd' # 0 /\ cmd' = worker' BY DEF Orderly, Charge
    <3> QED BY <3>1, <3>2, <3>3, <3>4, <3>5 DEF Charge
  <2> QED BY <2>5, <2>6, <2>7, <2>8, <2>9 DEF Orderly
<1> QED BY <1>8, <1>9

\* A cancel or a stop reaches it as well as anything else that is no work.
LEMMA InterruptIsSent ==
  ASSUME Types, Orderly, hostUp, NEW t \in Threads, NEW r \in Interrupting, at[t] = "send",
         req[t] = r, t \in Calls => r = Cancel(t), Goto(t, "await"), pending' = Registered(r),
         stdin' = IF alive THEN Append(stdin, r) ELSE stdin,
         UNCHANGED <<out, queue, active, alive, worker, hostUp, main, gate, req, cmd>>,
         t \notin Workers
  PROVE  Orderly'
<1>0. stdin \in Seq(Requests) /\ OneWork(stdin) /\ r \in Requests /\ r \notin WorkReqs
  BY WorkKinds DEF Types, WorkerTypes, Orderly, InLine
<1>1. at' = [at EXCEPT ![t] = "await"] /\ at'[t] = "await" BY DEF Types, HostTypes, Goto
<1>2. OneWork(stdin') /\ ToSet(stdin') \cap WorkReqs = ToSet(stdin) \cap WorkReqs
  BY <1>0, OneWorkAppend, InAppend
<1>3. Quiet BY <1>2, SameOutput DEF Quiet, Busy
<1>4. \A x \in WorkReqs : /\ x \in DOMAIN pending => x \in DOMAIN pending' /\ pending'[x] = pending[x]
  <2>1. HostTypes BY DEF Types
  <2>2. /\ DOMAIN pending' = DOMAIN pending \cup {r}
        /\ \A x \in DOMAIN pending \ {r} : pending'[x] = pending[x]
    BY <1>0, <2>1, PendingTypes
  <2> QED BY <1>0, <2>2
<1>5. t \in Calls => gate' = t BY DEF Orderly, Charge, Outside
<1>6. \A x \in WorkReqs : x.of = t /\ Unsent(x)' => Unsent(x)
  <2>1. \A x \in WorkReqs : x.of = t => t \in Calls BY WorkKinds
  <2> QED BY <1>1, <2>1, OwnRequests DEF Unsent, Early
<1>7. alive /\ cmd # 0 => \A x \in WorkReqs : x.of = t /\ Inside(x) => Awaited(x)'
  <2> SUFFICES ASSUME alive, cmd # 0, NEW x \in WorkReqs, x.of = t, Inside(x) PROVE Awaited(x)'
    OBVIOUS
  <2>1. Awaited(x) BY DEF Orderly, Charge
  <2>2. Waits(x)' BY <1>1, <2>1 DEF Awaited, Waits
  <2> QED BY <1>4, <2>1, <2>2 DEF Awaited
<1> QED BY <1>1, <1>3, <1>4, <1>5, <1>6, <1>7, ThreadMoves

LEMMA SendKeepsOrder ==
  ASSUME Types, Orderly, hostUp, NEW t \in Threads, Send(t)
  PROVE  Orderly'
<1> USE DEF procVars, pipeVars, inputVars, loopVars, obsVars, callVars
<1>0. Asked(t, "send", req[t], DOMAIN pending) /\ at \in [Threads -> Places] /\ at[t] = "send"
      /\ UNCHANGED <<out, queue, active, alive, worker, hostUp, main, gate, req, cmd>>
  BY DEF Types, HostTypes, Asks, Send
<1>1. t \in Calls \/ (t = Resetter /\ t \notin Calls /\ t \notin Workers) BY <1>0, ThreadKinds DEF Asked
<1>2. CASE UNCHANGED <<pending, stdin>> /\ (cmd = 0 \/ Goto(t, "stop"))
  <2>1. PICK place \in {"error", "stop"} : Goto(t, place) /\ (cmd = 0 \/ place = "stop")
    BY <1>0, <1>2 DEF Send
  <2>2. CASE t \in Calls
    <3>1. gate' = t BY <1>0, <2>2 DEF Orderly, Charge, Outside
    <3>2. at'[t] = place BY <1>0, <2>1 DEF Goto
    <3>3. \A r \in WorkReqs : r.of = t /\ Unsent(r)' => Unsent(r) BY <2>1, <3>2 DEF Unsent, Early
    <3>4. alive /\ cmd # 0 => \A r \in WorkReqs : r.of = t /\ Inside(r) => Awaited(r)'
      <4> SUFFICES ASSUME alive, cmd # 0, NEW r \in WorkReqs, r.of = t, Inside(r) PROVE Awaited(r)'
        OBVIOUS
      <4>1. Awaited(r) BY DEF Orderly, Charge
      <4>2. place = "stop" BY <2>1
      <4> QED BY <1>0, <1>2, <3>2, <4>1, <4>2 DEF Awaited, Waits
    <3> QED BY <1>0, <1>2, <2>1, <2>2, <3>1, <3>3, <3>4, CallMoves
  <2>3. CASE t \notin Calls
    <3>1. t \notin Workers BY <1>1, <2>3
    <3> QED BY <1>0, <1>2, <2>1, <2>3, <3>1, OthersMove
  <2> QED BY <2>2, <2>3
<1>3. CASE /\ cmd # 0 /\ Goto(t, "await") /\ pending' = Registered(req[t])
           /\ stdin' = IF alive THEN Append(stdin, req[t]) ELSE stdin
  <2>1. CASE t \in Calls /\ req[t] \in {Hello(t), Work(t)} BY <1>0, <1>3, <2>1, WorkIsSent
  <2>2. CASE t \in Calls /\ req[t] = Cancel(t)
    BY <1>0, <1>3, <2>2, InterruptIsSent, WorkKinds, ThreadKinds
  <2>3. CASE t \notin Calls
    <3>1. req[t] \in Interrupting BY <1>0, <1>1, <2>3 DEF Asked, Interrupting
    <3> QED BY <1>0, <1>1, <1>3, <2>3, <3>1, InterruptIsSent
  <2> QED BY <1>0, <2>1, <2>2, <2>3 DEF Asked
<1> QED BY <1>2, <1>3 DEF Send

LEMMA CallKeepsOrder ==
  ASSUME Types, Orderly, hostUp, NEW c \in Calls,
         \/ Enter(c) \/ TakeGate(c) \/ CallAnswered(c) \/ CallExpires(c) \/ Drain(c) \/ Return(c)
  PROVE  Orderly'
<1> USE DEF procVars, pipeVars, inputVars, loopVars, obsVars, callVars, aside
<1>0. /\ c \in Threads /\ at \in [Threads -> Places] /\ Asked(c, at[c], req[c], DOMAIN pending)
      /\ req \in [Threads -> Requests \cup {NoRequest}]
      /\ pending \in [DOMAIN pending -> {"none", "ok", "error", "settling"}]
  BY ThreadKinds DEF Types, HostTypes, Asks
<1>a. UNCHANGED <<out, stdin, queue, active, alive, worker, hostUp, main>> /\ UNCHANGED cmd
  BY DEF Enter, TakeGate, CallAnswered, CallExpires, Drain, Return, workerVars
<1>b. \A place : Goto(c, place) => at'[c] = place BY <1>0 DEF Goto
<1>c. \A r \in WorkReqs : r.of = c => r \in {Hello(c), Work(c)} BY OwnRequests
\* What is inside is awaited.
<1>d. ASSUME alive, cmd # 0, NEW r \in WorkReqs, r.of = c, Inside(r)
      PROVE  Awaited(r) /\ at[c] \in {"send", "await", "drain", "stop"}
  <2>1. Awaited(r) BY <1>d DEF Orderly, Charge
  <2> QED BY <1>d, <2>1 DEF Awaited, Waits
<1>e. at[c] \notin Outside => gate = c BY DEF Orderly, Charge
<1>1. CASE Enter(c)
  <2>1. PICK place \in {"gate", "done"} : Goto(c, place) BY <1>1 DEF Enter
  <2>2. at[c] = "idle" /\ UNCHANGED <<req, gate, pending>> BY <1>1 DEF Enter
  <2>3. \A r \in WorkReqs : r.of = c /\ Unsent(r)' => Unsent(r) BY <2>2 DEF Unsent, Early
  <2>4. alive /\ cmd # 0 => \A r \in WorkReqs : r.of = c /\ Inside(r) => Awaited(r)' BY <1>d, <2>2
  <2>5. place \in Outside BY DEF Outside
  <2> QED BY <1>a, <2>1, <2>2, <2>3, <2>4, <2>5, CallMoves
<1>2. CASE TakeGate(c)
  <2>1. PICK place \in {"release", "canceled"} : Goto(c, place) /\ (place = "release" => gate' = c)
    BY <1>2 DEF TakeGate
  <2>2. at[c] = "gate" /\ UNCHANGED <<req, pending>> BY <1>2 DEF TakeGate
  <2>3. \A r \in WorkReqs : r.of = c /\ Unsent(r)' => Unsent(r) BY <2>2 DEF Unsent, Early
  <2>4. alive /\ cmd # 0 => \A r \in WorkReqs : r.of = c /\ Inside(r) => Awaited(r)' BY <1>d, <2>2
  <2>5. \A d \in Calls \ {c} : gate = d => gate' = d
    BY <1>2, ControllerAssumption DEF TakeGate
  <2>6. place \notin Outside => gate' = c BY <2>1 DEF Outside
  <2> QED BY <1>a, <2>1, <2>2, <2>3, <2>4, <2>5, <2>6, CallMoves
<1>3. CASE CallAnswered(c)
  <2>1. at[c] = "await" /\ pending[req[c]] # "none" /\ UNCHANGED <<gate, pending>>
    BY <1>3 DEF CallAnswered, Arrived, Answer
  <2>2. req[c] \in {Hello(c), Work(c), Cancel(c)} /\ req[c] \in DOMAIN pending BY <1>0, <2>1 DEF Asked
  <2>3. gate = c BY <1>e, <2>1 DEF Outside
  <2>4. pending[req[c]] \in {"ok", "error", "settling"} BY <1>0, <2>1, <2>2
  <2>5. PICK place : /\ Goto(c, place) /\ (req' = req \/ req' = [req EXCEPT ![c] = Work(c)])
                     /\ \/ req[c] = Work(c) /\ req' = req /\ place \in {"ok", "error", "settling"}
                        \/ req[c] = Hello(c) /\ req' = [req EXCEPT ![c] = Work(c)] /\ place = "send"
                        \/ req[c] = Hello(c) /\ req' = req /\ place = "stop"
                        \/ req[c] = Cancel(c) /\ req' = req /\ place \in {"drain", "stop"}
    <3>1. CASE req[c] = Work(c)
      <4>1. Goto(c, pending[req[c]]) /\ req' = req BY <1>3, <3>1, OwnRequests DEF CallAnswered, Answer
      <4> QED BY <2>4, <3>1, <4>1
    <3>2. CASE req[c] = Hello(c)
      <4>1. Ask(c, Work(c)) \/ (Goto(c, "stop") /\ req' = req)
        BY <1>3, <3>2, OwnRequests DEF CallAnswered, Answer
      <4> QED BY <3>2, <4>1 DEF Ask
    <3>3. CASE req[c] = Cancel(c)
      <4>1. (Goto(c, "drain") \/ Goto(c, "stop")) /\ req' = req
        BY <1>3, <3>3, OwnRequests DEF CallAnswered, Answer
      <4> QED BY <3>3, <4>1
    <3> QED BY <2>2, <3>1, <3>2, <3>3
  <2>6. at'[c] = place /\ \A s \in Threads \ {c} : req'[s] = req[s] BY <1>0, <1>b, <2>5
  <2>7. /\ \/ place # "send" /\ req'[c] = req[c]
           \/ place = "send" /\ req[c] = Hello(c) /\ req'[c] = Work(c)
        /\ place \notin Early \cup {"await"}
    BY <1>0, <2>5 DEF Early
  <2>8. \A r \in WorkReqs : r.of = c /\ Unsent(r)' => Unsent(r)
    <3> SUFFICES ASSUME NEW r \in WorkReqs, r.of = c, Unsent(r)' PROVE Unsent(r) OBVIOUS
    <3>1. place = "send" /\ req[c] = Hello(c) /\ req'[c] = Work(c) BY <2>6, <2>7 DEF Unsent
    <3>2. r = Work(c) BY <1>c, <2>6, <3>1, OwnRequests DEF Unsent, Early
    <3> QED BY <2>1, <3>1, <3>2, OwnRequests DEF Unsent
  <2>9. alive /\ cmd # 0 => \A r \in WorkReqs : r.of = c /\ Inside(r) => Awaited(r)'
    <3> SUFFICES ASSUME alive, cmd # 0, NEW r \in WorkReqs, r.of = c, Inside(r) PROVE Awaited(r)'
      OBVIOUS
    <3>1. Awaited(r) BY <1>d
    <3>2. r # req[c] BY <2>1, <3>1 DEF Awaited
    <3>3. r.kind = "work" /\ req[c] = Cancel(c) BY <3>1, <3>2 DEF Awaited, Waits
    <3>4. req'[c] = Cancel(c) /\ place \in {"drain", "stop"} BY <2>5, <3>3, OwnRequests
    <3>5. Waits(r)' BY <2>6, <3>3, <3>4 DEF Waits
    <3> QED BY <2>1, <3>1, <3>5 DEF Awaited
  <2> QED BY <1>a, <2>1, <2>3, <2>5, <2>6, <2>8, <2>9, CallMoves
<1>4. CASE CallExpires(c)
  <2>1. at[c] = "await" /\ UNCHANGED <<gate, pending>> BY <1>4 DEF CallExpires
  <2>2. req[c] \in {Hello(c), Work(c), Cancel(c)} BY <1>0, <2>1 DEF Asked
  <2>3. gate = c BY <1>e, <2>1 DEF Outside
  <2>4. PICK place : /\ Goto(c, place) /\ (req' = req \/ req' = [req EXCEPT ![c] = Cancel(c)])
                     /\ \/ req[c] = Work(c) /\ req' = [req EXCEPT ![c] = Cancel(c)] /\ place = "send"
                        \/ req[c] # Work(c) /\ req' = req /\ place = "stop"
    <3>1. CASE req[c] = Work(c)
      <4>1. Ask(c, Cancel(c)) BY <1>4, <3>1, OwnRequests DEF CallExpires, Interrupts
      <4> QED BY <3>1, <4>1 DEF Ask
    <3>2. CASE req[c] # Work(c)
      <4>1. Goto(c, "stop") /\ req' = req BY <1>4, <2>2, <3>2, OwnRequests DEF CallExpires, Interrupts
      <4> QED BY <3>2, <4>1
    <3> QED BY <3>1, <3>2
  <2>5. at'[c] = place /\ \A s \in Threads \ {c} : req'[s] = req[s] BY <1>0, <1>b, <2>4
  <2>6. \/ place = "send" /\ req[c] = Work(c) /\ req'[c] = Cancel(c)
        \/ place = "stop" /\ req'[c] = req[c]
    BY <1>0, <2>4
  <2>7. \A r \in WorkReqs : r.of = c => ~Unsent(r)' BY <2>5, <2>6, OwnRequests DEF Unsent, Early
  <2>8. alive /\ cmd # 0 => \A r \in WorkReqs : r.of = c /\ Inside(r) => Awaited(r)'
    <3> SUFFICES ASSUME alive, cmd # 0, NEW r \in WorkReqs, r.of = c, Inside(r) PROVE Awaited(r)'
      OBVIOUS
    <3>1. Awaited(r) BY <1>d
    <3>2. Waits(r)' BY <2>5, <2>6, <3>1, OwnRequests DEF Awaited, Waits
    <3> QED BY <2>1, <3>1, <3>2 DEF Awaited
  <2> QED BY <1>a, <2>1, <2>3, <2>4, <2>5, <2>7, <2>8, CallMoves
<1>5. CASE Drain(c)
  <2>1. at[c] = "drain" /\ UNCHANGED <<gate, pending>> /\ req' = [req EXCEPT ![c] = Work(c)]
    BY <1>5 DEF Drain
  <2>2. gate = c BY <1>e, <2>1 DEF Outside
  <2>3. PICK place \in {"stop", "canceled"} :
          Goto(c, place) /\ (place = "canceled" => pending[Work(c)] # "none")
    BY <1>5 DEF Drain, Answer
  <2>4. at'[c] = place /\ req'[c] = Work(c) /\ \A s \in Threads \ {c} : req'[s] = req[s]
    BY <1>0, <1>b, <2>1, <2>3
  <2>5. \A r \in WorkReqs : r.of = c => ~Unsent(r)' BY <2>4 DEF Unsent, Early
  <2>6. alive /\ cmd # 0 => \A r \in WorkReqs : r.of = c /\ Inside(r) => Awaited(r)'
    <3> SUFFICES ASSUME alive, cmd # 0, NEW r \in WorkReqs, r.of = c, Inside(r) PROVE Awaited(r)'
      OBVIOUS
    <3>1. Awaited(r) BY <1>d
    <3>2. r = Work(c) BY <2>1, <3>1, OwnRequests DEF Awaited, Waits
    <3>3. place = "stop" BY <2>3, <3>1, <3>2 DEF Awaited
    <3>4. Waits(r)' BY <2>4, <3>2, <3>3 DEF Waits
    <3> QED BY <2>1, <3>1, <3>4 DEF Awaited
  <2> QED BY <1>a, <2>1, <2>2, <2>3, <2>4, <2>5, <2>6, CallMoves
<1>6. CASE Return(c)
  <2>1. /\ at[c] \in {"ok", "error", "canceled"} /\ Goto(c, "done") /\ req' = [req EXCEPT ![c] = NoRequest]
        /\ gate' = IF gate = c THEN NoCall ELSE gate
        /\ pending' = [r \in {x \in DOMAIN pending : x.kind = "stop" \/ x.of # c} |-> pending[r]]
    BY <1>6 DEF Return
  <2>2. at'[c] = "done" /\ \A s \in Threads \ {c} : req'[s] = req[s] BY <1>0, <1>b, <2>1
  <2>3. \A r \in WorkReqs : r.of = c => ~Unsent(r)' BY <2>2 DEF Unsent, Early
  <2>4. alive /\ cmd # 0 => \A r \in WorkReqs : r.of = c /\ Inside(r) => Awaited(r)' BY <1>d, <2>1
  <2>5. \A r \in WorkReqs : r.of # c /\ r \in DOMAIN pending /\ pending[r] = "none"
                    => r \in DOMAIN pending' /\ pending'[r] = "none"
    BY <2>1
  <2> QED BY <1>a, <2>1, <2>2, <2>3, <2>4, <2>5, CallMoves DEF Outside
<1> QED BY <1>1, <1>2, <1>3, <1>4, <1>5, <1>6

\* The first call, or one after a stop, starts a worker: none is alive.
LEMMA StartKeepsOrder ==
  ASSUME Types, Orderly, hostUp, NEW c \in Calls, Start(c)
  PROVE  Orderly'
<1> USE DEF procVars, pipeVars, inputVars, loopVars, obsVars, callVars
<1>0. /\ c \in Threads /\ c \notin Workers /\ at \in [Threads -> Places] /\ at[c] = "start"
      /\ req \in [Threads -> Requests \cup {NoRequest}] /\ gate = c /\ UNCHANGED <<gate, pending>>
  BY ThreadKinds DEF Types, HostTypes, Start, Orderly, Charge, Outside
<1>a. \A place : Goto(c, place) => at'[c] = place BY <1>0 DEF Goto
<1>b. alive /\ cmd # 0 => \A r \in WorkReqs : r.of = c => ~Inside(r)
  BY <1>0 DEF Orderly, Charge, Awaited, Waits
<1>1. CASE Ask(c, Work(c)) /\ UNCHANGED <<workerVars, cmd>>
  <2>1. Goto(c, "send") /\ req' = [req EXCEPT ![c] = Work(c)] BY <1>1 DEF Ask
  <2>2. at'[c] = "send" /\ req'[c] = Work(c) /\ \A s \in Threads \ {c} : req'[s] = req[s]
    BY <1>0, <1>a, <2>1
  <2>3. \A r \in WorkReqs : r.of = c /\ Unsent(r)' => Unsent(r) BY <1>0 DEF Unsent, Early
  <2>4. UNCHANGED <<out, stdin, queue, active, alive, worker, hostUp, main, cmd>>
    BY <1>1 DEF workerVars
  <2> QED BY <1>0, <1>b, <2>1, <2>2, <2>3, <2>4, CallMoves
<1>2. CASE Goto(c, "error") /\ UNCHANGED <<workerVars, req, cmd>>
  <2>1. \A r \in WorkReqs : r.of = c /\ Unsent(r)' => Unsent(r) BY <1>0 DEF Unsent, Early
  <2>2. UNCHANGED <<out, stdin, queue, active, alive, worker, hostUp, main, cmd, req>>
    BY <1>2 DEF workerVars
  <2> QED BY <1>0, <1>2, <1>b, <2>1, <2>2, CallMoves
<1>3. CASE /\ cmd = 0 /\ LifecycleFree /\ worker < MaxWorkers /\ WorkerStarts /\ cmd' = worker + 1
           /\ req' = [req EXCEPT ![c] = Hello(c)]
           /\ at' = [at EXCEPT ![c] = "send", ![worker + 1] = "read"]
  <2>1. worker \in 0..MaxWorkers /\ MaxWorkers \in Nat
    BY ControllerAssumption DEF Types, WorkerTypes
  <2>2. worker + 1 \in Workers /\ cmd' # 0 /\ cmd' = worker' /\ worker' = worker + 1
    BY <1>3, <2>1 DEF Workers, WorkerStarts
  <2>3. worker + 1 \in Threads /\ c # worker + 1 /\ worker + 1 \notin Calls
    BY <1>0, <2>2, ThreadKinds
  <2>4. /\ at'[c] = "send" /\ req'[c] = Hello(c) /\ at'[worker + 1] = "read"
        /\ \A s \in Threads \ {c, worker + 1} : at'[s] = at[s] /\ req'[s] = req[s]
    BY <1>0, <1>3, <2>3
  <2>5. /\ stdin' = <<>> /\ queue' = <<>> /\ ~Busy' /\ main'.req = NoRequest /\ hostUp'
        /\ Said' = Said
    BY <1>3 DEF WorkerStarts, IdleMain, Busy, Said
  <2>6. \A r \in WorkReqs : ~Queued(r)' /\ ~Inside(r)' /\ main'.req # r
    <3>1. ToSet(stdin') = {} /\ ToSet(queue') = {} BY <2>5 DEF ToSet
    <3> QED BY <2>5, <3>1, WorkKinds DEF Queued, Inside
  <2>7. InLine' BY <2>5 DEF InLine, OneWork, NoWork
  <2>8. StopReachesWork' BY <2>5 DEF StopReachesWork, Busy
  <2>9. Once' BY <2>5, <2>6 DEF Once
  <2>10. Untouched'
    <3> SUFFICES ASSUME NEW r \in WorkReqs, Unsent(r)' PROVE ~Replied(r)' BY <2>6 DEF Untouched
    <3>1. r.of \in Threads /\ r.of # worker + 1 BY <2>3, WorkKinds, ThreadKinds
    <3>2. Unsent(r)
      <4>1. CASE r.of = c BY <1>0, <4>1 DEF Unsent, Early
      <4>2. CASE r.of # c BY <2>4, <3>1, <4>2 DEF Unsent
      <4> QED BY <4>1, <4>2
    <3>3. ~Replied(r) BY <3>2 DEF Orderly, Untouched
    <3> QED BY <2>5, <3>3 DEF Replied
  <2>11. Charge'
    <3>1. \A d \in Calls : at'[d] \notin Outside => gate' = d
      BY <1>0, <2>3, <2>4, ThreadKinds DEF Orderly, Charge
    <3>2. ASSUME NEW w \in Workers, w > worker' PROVE at'[w] = "idle"
      <4>1. w > worker /\ w # worker + 1 /\ w \in Threads /\ w # c
        BY <1>0, <2>1, <2>2, <3>2, ThreadKinds DEF Workers
      <4> QED BY <2>4, <4>1 DEF Orderly, Charge
    <3> QED BY <2>2, <2>5, <2>6, <3>1, <3>2 DEF Charge
  <2> QED BY <2>7, <2>8, <2>9, <2>10, <2>11 DEF Orderly
<1> QED BY <1>1, <1>2, <1>3 DEF Start

\* Responses are read, the rest of the pipe is lost.
LEMMA ReadKeepsOrder ==
  ASSUME Types, Orderly, hostUp, NEW w \in Workers, ReadStep(w)
  PROVE  Orderly'
<1> USE DEF procVars, pipeVars, inputVars, loopVars, obsVars, callVars
<1>0. /\ out \in [Workers -> Seq(Messages)] /\ at \in [Threads -> Places]
      /\ pending \in [DOMAIN pending -> {"none", "ok", "error", "settling"}]
      /\ w \in Threads /\ w \notin Calls
  BY ThreadKinds DEF Types, WorkerTypes, HostTypes
<1>1. CASE Read(w)
  <2>1. UNCHANGED <<stdin, queue, active, alive, worker, hostUp, main, at, req, gate, cmd>>
    BY <1>1 DEF Read
  <2>2. Said = Said' \cup {Head(out[w])} BY <1>0, <1>1, ReadSaid
  <2>3. \A r \in WorkReqs : Replied(r)' => Replied(r) BY <2>2 DEF Replied
  <2>4. Quiet BY <2>1, <2>3, HostIsQuiet
  <2>5. /\ InLine' /\ StopReachesWork' /\ Once'
        /\ \A r \in WorkReqs : (Inside(r)' <=> Inside(r)) /\ (Queued(r)' <=> Queued(r))
    BY <2>4, QuietKeeps
  <2>6. Untouched' BY <2>1, <2>3, <2>5 DEF Orderly, Untouched, Unsent
  <2>7. ASSUME NEW r \in WorkReqs, Inside(r), r \in DOMAIN pending
        PROVE  r \in DOMAIN pending' /\ pending'[r] = pending[r]
    <3>1. ~Replied(r) BY <2>7, InsideUnanswered DEF Orderly
    <3>2. Head(out[w]) \in Said BY <2>2
    <3>3. ~(Head(out[w]).type = "reply" /\ Head(out[w]).to = r) BY <3>1, <3>2 DEF Replied
    <3>4. \/ pending' = pending
          \/ Head(out[w]).type = "reply"
               /\ pending' = [pending EXCEPT ![Head(out[w]).to] = Head(out[w]).result]
      BY <1>1 DEF Read
    <3> QED BY <1>0, <2>7, <3>3, <3>4
  <2>8. Charge'
    <3>1. \A r \in WorkReqs : hostUp /\ alive /\ cmd # 0 /\ Inside(r) => Awaited(r)'
      BY <2>1, <2>7 DEF Orderly, Charge, Awaited, Waits
    <3> QED BY <2>1, <2>5, <3>1 DEF Orderly, Charge
  <2> QED BY <2>5, <2>6, <2>8 DEF Orderly
<1>2. CASE ReadEnds(w)
  <2>1. /\ UNCHANGED <<out, stdin, queue, active, alive, worker, hostUp, main, req, gate, cmd>>
        /\ at[w] = "read" /\ Over(w)
        /\ \/ cmd = w /\ Goto(w, "stop")
           \/ cmd # w /\ Goto(w, "ended") /\ pending' = pending
    BY <1>2 DEF ReadEnds, workerVars
  <2>2. cmd = w => ~alive
    <3>1. cmd # 0 => cmd = worker BY DEF Orderly, Charge
    <3>2. w \in Nat /\ w # 0 BY ControllerAssumption DEF Workers
    <3> QED BY <2>1, <3>1, <3>2 DEF Over
  <2>3. PICK place : Goto(w, place) BY <2>1
  <2>4. alive => pending' = pending BY <2>1, <2>2
  <2>5. \A s \in Threads \ {w} : req'[s] = req[s] BY <2>1
  <2> QED BY <1>0, <2>1, <2>3, <2>4, <2>5, OthersMove
<1>3. CASE Reap(w)
  <2>1. UNCHANGED <<stdin, queue, active, alive, worker, hostUp, main, at, req, gate, cmd, pending>>
    BY <1>3 DEF Reap
  <2>2. PICK n \in 0..Len(out[w]) : out' = [out EXCEPT ![w] = SubSeq(out[w], 1, n)]
    BY <1>3 DEF Reap, Cuts
  <2>3. Said' \subseteq Said BY <1>0, <2>2, ReapSaid
  <2>4. \A r \in WorkReqs : Replied(r)' => Replied(r) BY <2>3 DEF Replied
  <2>5. Quiet BY <2>1, <2>4, HostIsQuiet
  <2> QED BY <2>1, <2>5, QuietWorker
<1> QED BY <1>1, <1>2, <1>3 DEF ReadStep

LEMMA HostKeepsOrder ==
  ASSUME Types, Orderly, HostNext
  PROVE  Orderly'
<1> USE DEF procVars, pipeVars, inputVars, loopVars, obsVars, callVars
<1>0. hostUp BY DEF HostNext
<1>r. Resetter \in Threads \ Calls /\ Resetter \notin Workers
      /\ Closer \in Threads \ Calls /\ Closer \notin Workers
  BY ThreadKinds
<1>q. req \in [Threads -> Requests \cup {NoRequest}] BY DEF Types, HostTypes
<1>1. ASSUME NEW t \in Threads, StopStep(t) \/ Send(t) PROVE Orderly'
  BY <1>0, <1>1, StopKeepsOrder, SendKeepsOrder
<1>2. ASSUME NEW c \in Calls, Enter(c) \/ CallStep(c) PROVE Orderly'
  BY <1>0, <1>2, CallKeepsOrder, StartKeepsOrder DEF CallStep
<1>3. CASE ResetBegin
  <2>1. /\ UNCHANGED <<out, stdin, queue, active, alive, worker, hostUp, main, gate, cmd, pending>>
        /\ at[Resetter] = "idle"
    BY <1>3 DEF ResetBegin
  <2>2. /\ \E place : Goto(Resetter, place)
        /\ req' = req \/ req' = [req EXCEPT ![Resetter] = Stop(resets + 1)]
    BY <1>3 DEF ResetBegin, Ask
  <2>3. \A s \in Threads \ {Resetter} : req'[s] = req[s] BY <1>q, <2>2
  <2> QED BY <1>0, <1>r, <2>1, <2>2, <2>3, OthersMove
<1>4. CASE ResetAnswered
  <2>1. /\ UNCHANGED <<out, stdin, queue, active, alive, worker, hostUp, main, gate, cmd, pending, req>>
        /\ at[Resetter] = "await" /\ \E place : Goto(Resetter, place)
    BY <1>4 DEF ResetAnswered, aside, workerVars
  <2> QED BY <1>0, <1>r, <2>1, OthersMove
<1>5. CASE ResetEnd
  <2>1. /\ UNCHANGED <<out, stdin, queue, active, alive, worker, hostUp, main, gate, cmd>>
        /\ at[Resetter] # "kill" /\ Goto(Resetter, "idle") /\ req' = [req EXCEPT ![Resetter] = NoRequest]
        /\ pending' = [r \in {x \in DOMAIN pending : x.kind # "stop"} |-> pending[r]]
    BY <1>5 DEF ResetEnd, workerVars
  <2>2. \A s \in Threads \ {Resetter} : req'[s] = req[s] BY <1>q, <2>1
  <2>3. \A r \in WorkReqs : r \in DOMAIN pending /\ pending[r] = "none"
                    => r \in DOMAIN pending' /\ pending'[r] = "none"
    BY <2>1, WorkKinds
  <2> QED BY <1>0, <1>r, <2>1, <2>2, <2>3, OthersMove
<1>6. CASE CloseBegin
  <2>1. /\ UNCHANGED <<out, stdin, queue, active, alive, worker, hostUp, main, gate, cmd, pending, req>>
        /\ at[Closer] = "idle" /\ Goto(Closer, "stop")
    BY <1>6 DEF CloseBegin
  <2> QED BY <1>0, <1>r, <2>1, OthersMove
<1>7. ASSUME NEW w \in Workers, ReadStep(w) PROVE Orderly' BY <1>0, <1>7, ReadKeepsOrder
<1>8. CASE Crash
  BY <1>8, WorkerGone DEF Crash, ctlVars
<1>9. CASE HostDies
  <2>1. /\ UNCHANGED <<out, stdin, queue, active, alive, worker, main>> /\ hostUp' = FALSE
        /\ at' = [t \in Threads |-> "idle"] /\ cmd' = 0
    BY <1>9 DEF HostDies
  <2>2. \A r : (Replied(r)' <=> Replied(r)) /\ (Queued(r)' <=> Queued(r))
    BY <2>1 DEF Replied, Said, Queued
  <2>3. InLine' /\ StopReachesWork' BY <2>1 DEF Orderly, InLine, StopReachesWork, Busy
  <2>4. Once' BY <2>1, <2>2 DEF Orderly, Once, Busy, Replied, Said
  <2>5. Untouched' BY <2>1 DEF Untouched
  <2>6. Charge' BY <2>1, ThreadKinds DEF Charge, Outside
  <2> QED BY <2>3, <2>4, <2>5, <2>6 DEF Orderly
<1> QED BY <1>1, <1>2, <1>3, <1>4, <1>5, <1>6, <1>7, <1>8, <1>9 DEF HostNext, ResetStep

LEMMA OrderStep ==
  ASSUME Types, Orderly, [Next]_vars
  PROVE  Orderly'
<1>1. CASE UNCHANGED vars
  <2>1. UNCHANGED <<out, stdin, queue, active, alive, worker, hostUp, main>>
        /\ UNCHANGED <<at, req, gate, cmd, pending>>
    BY <1>1 DEF vars, workerVars, procVars, pipeVars, loopVars, ctlVars, callVars
  <2>2. Quiet BY <2>1, HostIsQuiet, SameOutput
  <2> QED BY <2>1, <2>2, QuietWorker
<1> QED BY <1>1, WorkerKeepsOrder, HostKeepsOrder DEF Next

(***************************************************************************)
(* Presses.  An act is pressed once, by the worker its request was sent    *)
(* to; until then nothing is known of it, and while it is down nothing     *)
(* that waits to be read can make the supervisor forget it.                *)
(***************************************************************************)

Pressing == IF main.pc = "pressing" THEN {MainCall} ELSE {}

\* The act of call c may still be pressed.
Due(c) ==
  \/ hostUp /\ Unsent(Work(c))
  \/ Queued(Work(c))
  \/ main.req = Work(c) /\ main.pc \in {"act", "press"}

Taking == {"releasing", "stop_releasing"}

HeldInv ==
  /\ \A t \in Threads : at[t] \notin Taking => rel[t] = {}
  /\ \A x \in held \cup Pressing : ~Upped(x)
  /\ hostUp => held \cup Pressing \subseteq Tracked \cup lost
  /\ main.pc = "pressing" => MainCall \in journal /\ MainCall \notin held
  /\ \A c \in Acts : Due(c) => c \notin journal \cup held /\ ~Upped(c)

LEMMA DownsIs ==
  ASSUME NEW s, NEW x
  PROVE  x \in Downs(s) <=> \E m \in ToSet(s) : m.type = "down" /\ x \in m.keys
BY DEF Downs, ToSet

LEMMA TrackedIs ==
  ASSUME NEW x
  PROVE  /\ x \in Tracked <=> x \in inputs \/ (\E t \in Threads : x \in rel[t]) \/ Downed(x)
         /\ x \in Tracked' <=> x \in inputs' \/ (\E t \in Threads : x \in rel'[t]) \/ Downed(x)'
<1>1. Downed(x) <=> x \in UNION {Downs(out[w]) : w \in Workers}
  <2>1. Downed(x) <=> \E w \in Workers : x \in Downs(out[w]) BY DownsIs DEF Downed, Said
  <2> QED BY <2>1
<1>2. Downed(x)' <=> x \in UNION {Downs(out'[w]) : w \in Workers}
  <2>1. Downed(x)' <=> \E w \in Workers : x \in Downs(out'[w]) BY DownsIs DEF Downed, Said
  <2> QED BY <2>1
<1>3. /\ x \in UNION {rel[t] : t \in Threads} <=> \E t \in Threads : x \in rel[t]
      /\ x \in UNION {rel'[t] : t \in Threads} <=> \E t \in Threads : x \in rel'[t]
  OBVIOUS
<1>4. x \in Tracked <=> \/ x \in inputs \/ x \in UNION {rel[t] : t \in Threads}
                        \/ x \in UNION {Downs(out[w]) : w \in Workers}
  BY DEF Tracked
<1>5. x \in Tracked' <=> \/ x \in inputs' \/ x \in UNION {rel'[t] : t \in Threads}
                         \/ x \in UNION {Downs(out'[w]) : w \in Workers}
  BY DEF Tracked
<1>6. x \in Tracked <=> x \in inputs \/ (\E t \in Threads : x \in rel[t]) \/ Downed(x)
  BY <1>1, <1>3, <1>4
<1>7. x \in Tracked' <=> x \in inputs' \/ (\E t \in Threads : x \in rel'[t]) \/ Downed(x)'
  BY <1>2, <1>3, <1>5
<1> QED BY <1>6, <1>7

\* No step of the host makes the act of a call due that was not.
LEMMA DueStep ==
  ASSUME Types, Orderly, HostNext
  PROVE  \A c \in Calls : Due(c)' => Due(c)
<1> USE DEF procVars, pipeVars, inputVars, loopVars, obsVars, callVars, aside
<1>0. /\ at \in [Threads -> Places] /\ req \in [Threads -> Requests \cup {NoRequest}] /\ hostUp
      /\ Calls \subseteq Threads
      /\ \A t \in Threads : Asked(t, at[t], req[t], DOMAIN pending)
      /\ pending \in [DOMAIN pending -> {"none", "ok", "error", "settling"}]
  BY ThreadKinds DEF Types, HostTypes, Asks, HostNext
<1>1. \A c \in Calls : Work(c).of = c /\ Work(c).kind = "work" /\ Work(c) \in WorkReqs
  BY WorkKinds DEF Work, Request
<1>a. ASSUME NEW t \in Threads, NEW place, Goto(t, place), \A s \in Threads \ {t} : req'[s] = req[s],
             \A c \in Calls : Queued(Work(c))' => Queued(Work(c)) \/ Unsent(Work(c)),
             main' = main \/ main'.pc = "idle",
             t \in Calls => (Unsent(Work(t))' => Unsent(Work(t)))
      PROVE  \A c \in Calls : Due(c)' => Due(c)
  <2> SUFFICES ASSUME NEW c \in Calls, Due(c)' PROVE Due(c) OBVIOUS
  <2>1. Unsent(Work(c))' => Unsent(Work(c))
    <3>1. CASE c = t BY <1>a, <3>1
    <3>2. CASE c # t
      <4>1. at'[c] = at[c] /\ req'[c] = req[c] BY <1>0, <1>a, <3>2 DEF Goto
      <4> QED BY <1>1, <4>1 DEF Unsent
    <3> QED BY <3>1, <3>2
  <2>2. \/ Unsent(Work(c))' \/ Queued(Work(c))' \/ (main'.req = Work(c) /\ main'.pc \in {"act", "press"})
    BY DEF Due
  <2> QED BY <1>0, <1>a, <2>1, <2>2 DEF Due
<1>b. UNCHANGED <<stdin, queue>> => \A c \in Calls : Queued(Work(c))' => Queued(Work(c)) \/ Unsent(Work(c))
  BY DEF Queued
<1>c. WorkerEnds => /\ main'.pc = "idle"
                    /\ \A c \in Calls : Queued(Work(c))' => Queued(Work(c)) \/ Unsent(Work(c))
  BY DEF WorkerEnds, IdleMain, Queued, ToSet
<1>d. ASSUME NEW t \in Calls, NEW place, Goto(t, place), place \notin Early, place \notin {"send", "await"}
      PROVE  ~Unsent(Work(t))'
  <2>1. at'[t] = place BY <1>0, <1>d DEF Goto
  <2> QED BY <1>1, <1>d, <2>1 DEF Unsent
<1>e. ASSUME NEW t \in Calls, at[t] \in Early PROVE Unsent(Work(t))
  BY <1>1, <1>e DEF Unsent
<1>f. ASSUME UNCHANGED <<at, req, stdin, queue, main>> PROVE \A c \in Calls : Due(c)' => Due(c)
  BY <1>0, <1>f DEF Due, Unsent, Queued
<1>2. ASSUME NEW t \in Threads, Release(t) \/ ReleaseSend(t) PROVE \A c \in Calls : Due(c)' => Due(c)
  <2> DEFINE place == IF Release(t)
                      THEN IF inputs # {}
                           THEN IF at[t] = "release" THEN "releasing" ELSE "stop_releasing"
                           ELSE IF at[t] = "release" THEN AfterRelease(t, TRUE) ELSE AfterStop(t)
                      ELSE IF at[t] = "releasing" THEN AfterRelease(t, inputs' = {}) ELSE AfterStop(t)
  <2>1. Goto(t, place) BY <1>2 DEF Release, ReleaseSend
  <2>2. /\ UNCHANGED <<stdin, queue, main, req>>
        /\ at[t] \in {"release", "releasing", "stop_release", "stop_releasing"}
    BY <1>2 DEF Release, ReleaseSend, workerVars
  <2>3. t \in Calls /\ at[t] \in {"stop_release", "stop_releasing"}
          => place \notin Early /\ place \notin {"send", "await"}
    BY <1>2 DEF Release, ReleaseSend, AfterStop, Early
  <2> HIDE DEF place
  <2>4. t \in Calls => (Unsent(Work(t))' => Unsent(Work(t)))
    BY <1>d, <1>e, <2>1, <2>2, <2>3 DEF Early
  <2> QED BY <1>a, <1>b, <2>1, <2>2, <2>4
<1>3. ASSUME NEW t \in Threads, StopTake(t) \/ Kill(t) \/ WaitExit(t)
      PROVE  \A c \in Calls : Due(c)' => Due(c)
  <2>1. req' = req /\ (UNCHANGED <<stdin, queue, main>> \/ WorkerEnds)
    BY <1>3 DEF StopTake, Kill, WaitExit
  <2>2. PICK place : Goto(t, place) /\ (place \in {"stop_release", "kill", "wait"} \/ t \in Workers)
    BY <1>3 DEF StopTake, Kill, WaitExit
  <2>3. t \in Calls => ~Unsent(Work(t))' BY <1>d, <2>2, ThreadKinds DEF Early
  <2> QED BY <1>a, <1>b, <1>c, <2>1, <2>2, <2>3
<1>4. ASSUME NEW t \in Threads, Send(t) PROVE \A c \in Calls : Due(c)' => Due(c)
  <2>1. UNCHANGED <<queue, main, req>> /\ at[t] = "send" BY <1>4 DEF Send
  <2>2. PICK place \in {"error", "stop", "await"} : Goto(t, place) BY <1>4 DEF Send
  <2>3. stdin' = stdin \/ stdin' = Append(stdin, req[t]) BY <1>4 DEF Send
  <2>4. ASSUME NEW c \in Calls, Queued(Work(c))' PROVE Queued(Work(c)) \/ Unsent(Work(c))
    <3>1. CASE stdin' = stdin BY <2>1, <2>4, <3>1 DEF Queued
    <3>2. CASE stdin' = Append(stdin, req[t])
      <4>1. Asked(t, "send", req[t], DOMAIN pending) BY <1>0, <2>1
      <4>2. req[t] \in Requests /\ (t \in Calls \/ (t = Resetter /\ req[t].kind = "stop"))
        BY <4>1, RequestOf DEF Asked
      <4>3. ToSet(stdin') = ToSet(stdin) \cup {req[t]}
        BY <3>2, <4>2, InAppend DEF Types, WorkerTypes
      <4>4. CASE req[t] = Work(c)
        <5>1. t \in Calls BY <1>1, <4>2, <4>4
        <5>2. req[t].of = t BY <4>1, <5>1, RequestOf DEF Asked
        <5>3. t = c BY <1>1, <4>4, <5>2
        <5> QED BY <1>1, <2>1, <4>4, <5>3 DEF Unsent
      <4>5. CASE req[t] # Work(c) BY <2>1, <2>4, <4>3, <4>5 DEF Queued
      <4> QED BY <4>4, <4>5
    <3> QED BY <2>3, <3>1, <3>2
  <2>5. t \in Calls => (Unsent(Work(t))' => Unsent(Work(t)))
    <3>1. at'[t] = place /\ req'[t] = req[t] BY <1>0, <2>1, <2>2 DEF Goto
    <3> QED BY <1>1, <2>1, <2>2, <3>1 DEF Unsent, Early
  <2> QED BY <1>a, <2>1, <2>2, <2>4, <2>5
<1>5. ASSUME NEW c \in Calls, Enter(c) \/ TakeGate(c) PROVE \A d \in Calls : Due(d)' => Due(d)
  <2>1. UNCHANGED <<stdin, queue, main, req>> /\ at[c] \in Early /\ \E place : Goto(c, place)
    BY <1>5 DEF Enter, TakeGate, workerVars, Early
  <2> QED BY <1>0, <1>a, <1>b, <1>e, <2>1
<1>6. ASSUME NEW c \in Calls, Start(c) PROVE \A d \in Calls : Due(d)' => Due(d)
  <2>1. at[c] = "start" /\ Unsent(Work(c)) BY <1>6, <1>e DEF Start, Early
  <2>2. CASE UNCHANGED workerVars /\ (Ask(c, Work(c)) \/ (Goto(c, "error") /\ req' = req))
    <3>1. UNCHANGED <<stdin, queue, main>> BY <2>2 DEF workerVars
    <3>2. \A s \in Threads \ {c} : req'[s] = req[s] BY <1>0, <2>2 DEF Ask
    <3>3. \E place : Goto(c, place) BY <2>2 DEF Ask
    <3> QED BY <1>0, <1>a, <1>b, <2>1, <3>1, <3>2, <3>3
  <2>3. CASE /\ WorkerStarts /\ req' = [req EXCEPT ![c] = Hello(c)] /\ worker < MaxWorkers
             /\ at' = [at EXCEPT ![c] = "send", ![worker + 1] = "read"]
    <3>1. worker + 1 \in Workers BY <2>3, ControllerAssumption DEF Types, WorkerTypes, Workers
    <3>2. \A d \in Calls \ {c} : at'[d] = at[d] /\ req'[d] = req[d]
      BY <1>0, <2>3, <3>1, ThreadKinds
    <3>3. \A d \in Calls : ~Queued(Work(d))' /\ main'.pc = "idle"
      BY <2>3 DEF WorkerStarts, IdleMain, Queued, ToSet
    <3>4. \A d \in Calls : Due(d)' => Unsent(Work(d))' BY <3>3 DEF Due
    <3>5. \A d \in Calls : Unsent(Work(d))' => Unsent(Work(d))
      <4>1. \A d \in Calls \ {c} : Unsent(Work(d))' => Unsent(Work(d)) BY <1>1, <3>2 DEF Unsent
      <4> QED BY <2>1, <4>1
    <3> QED BY <1>0, <3>4, <3>5 DEF Due
  <2> QED BY <1>6, <2>2, <2>3 DEF Start
<1>7. ASSUME NEW c \in Calls, CallAnswered(c) \/ CallExpires(c) \/ Drain(c) \/ Return(c)
      PROVE  \A d \in Calls : Due(d)' => Due(d)
  <2>1. UNCHANGED <<stdin, queue, main>>
    BY <1>7 DEF CallAnswered, CallExpires, Drain, Return, workerVars
  <2>2. CASE Drain(c) \/ Return(c)
    <3>1. /\ \E place \in {"stop", "canceled", "done"} : Goto(c, place)
          /\ \A s \in Threads \ {c} : req'[s] = req[s]
      BY <1>0, <2>2 DEF Drain, Return
    <3>2. ~Unsent(Work(c))' BY <1>d, <3>1 DEF Early
    <3> QED BY <1>0, <1>a, <1>b, <2>1, <3>1, <3>2
  <2>3. CASE CallExpires(c)
    <3>1. \/ Goto(c, "stop") /\ req' = req
          \/ Goto(c, "send") /\ req' = [req EXCEPT ![c] = Cancel(c)]
      BY <2>3 DEF CallExpires, Interrupts, Ask
    <3>2. ~Unsent(Work(c))'
      <4>1. CASE Goto(c, "stop") BY <1>d, <4>1 DEF Early
      <4>2. CASE Goto(c, "send") /\ req' = [req EXCEPT ![c] = Cancel(c)]
        <5>1. at'[c] = "send" /\ req'[c] = Cancel(c) BY <1>0, <4>2 DEF Goto
        <5> QED BY <1>1, <5>1, OwnRequests DEF Unsent, Early
      <4> QED BY <3>1, <4>1, <4>2
    <3>3. (\E place : Goto(c, place)) /\ \A s \in Threads \ {c} : req'[s] = req[s] BY <1>0, <3>1
    <3> QED BY <1>0, <1>a, <1>b, <2>1, <3>2, <3>3
  <2>4. CASE CallAnswered(c)
    <3>1. at[c] = "await" /\ pending[req[c]] # "none" BY <2>4 DEF CallAnswered, Arrived, Answer
    <3>2. req[c] \in {Hello(c), Work(c), Cancel(c)} /\ req[c] \in DOMAIN pending
      BY <1>0, <3>1 DEF Asked
    <3>3. CASE req[c] = Hello(c)
      <4>1. Unsent(Work(c)) BY <1>1, <3>1, <3>3, OwnRequests DEF Unsent
      <4>2. (\E place : Goto(c, place)) /\ (req' = req \/ req' = [req EXCEPT ![c] = Work(c)])
        BY <2>4, <3>3, OwnRequests DEF CallAnswered, Ask
      <4>3. \A s \in Threads \ {c} : req'[s] = req[s] BY <1>0, <4>2
      <4> QED BY <1>0, <1>a, <1>b, <2>1, <4>1, <4>2, <4>3
    <3>4. CASE req[c] # Hello(c)
      <4>1. pending[req[c]] \in {"ok", "error", "settling"} BY <1>0, <3>1, <3>2
      <4>2. req' = req /\ \E place \in {"ok", "error", "settling", "drain", "stop"} : Goto(c, place)
        BY <2>4, <3>2, <3>4, <4>1, OwnRequests DEF CallAnswered, Answer
      <4>3. ~Unsent(Work(c))' BY <1>d, <4>2 DEF Early
      <4> QED BY <1>0, <1>a, <1>b, <2>1, <4>2, <4>3
    <3> QED BY <3>3, <3>4
  <2> QED BY <1>7, <2>2, <2>3, <2>4
<1>8. ASSUME NEW t \in Threads \ Calls, NEW place, Goto(t, place), UNCHANGED <<stdin, queue, main>>,
             \A s \in Threads \ {t} : req'[s] = req[s]
      PROVE  \A c \in Calls : Due(c)' => Due(c)
  BY <1>8, <1>a, <1>b
<1>9. CASE ResetBegin \/ ResetStep
  <2>1. /\ UNCHANGED <<stdin, queue, main>> /\ \E place : Goto(Resetter, place)
        /\ \E r : req' = req \/ req' = [req EXCEPT ![Resetter] = r]
    BY <1>9 DEF ResetBegin, ResetStep, ResetAnswered, ResetEnd, Ask, workerVars
  <2>2. \A s \in Threads \ {Resetter} : req'[s] = req[s] BY <1>0, <2>1
  <2> QED BY <1>8, <2>1, <2>2, ThreadKinds
<1>10. CASE CloseBegin
  <2>1. UNCHANGED <<stdin, queue, main, req>> /\ Goto(Closer, "stop") BY <1>10 DEF CloseBegin
  <2> QED BY <1>8, <2>1, ThreadKinds
<1>11. ASSUME NEW w \in Workers, ReadStep(w) PROVE \A c \in Calls : Due(c)' => Due(c)
  <2>1. CASE Read(w) \/ Reap(w) BY <2>1, <1>f DEF Read, Reap
  <2>2. CASE ReadEnds(w)
    <3>1. UNCHANGED <<stdin, queue, main, req>> /\ \E place : Goto(w, place)
      BY <2>2 DEF ReadEnds, workerVars
    <3> QED BY <1>8, <3>1, ThreadKinds
  <2> QED BY <1>11, <2>1, <2>2 DEF ReadStep
<1>12. CASE Crash
  <2>1. WorkerEnds /\ UNCHANGED <<at, req>> BY <1>12 DEF Crash, ctlVars
  <2>2. \A c \in Calls : Due(c)' => Unsent(Work(c))' \/ Queued(Work(c)) \/ Unsent(Work(c))
    BY <1>c, <2>1 DEF Due
  <2> QED BY <1>0, <2>1, <2>2 DEF Due, Unsent
<1>13. CASE HostDies
  <2>1. hostUp' = FALSE /\ UNCHANGED <<stdin, queue, main>> BY <1>13 DEF HostDies
  <2> QED BY <2>1 DEF Due, Queued
<1> QED
  BY <1>2, <1>3, <1>4, <1>5, <1>6, <1>7, <1>9, <1>10, <1>11, <1>12, <1>13
  DEF HostNext, StopStep, CallStep

\* What may still be pressed is not what the main thread has in hand.
LEMMA InHandIsNotDue ==
  ASSUME Types, Orderly, main.pc \in Acting
  PROVE  /\ MainCall \in Acts /\ main.req = Work(MainCall)
         /\ Due(MainCall) <=> main.pc \in {"act", "press"}
         /\ \A c \in Acts : main.req = Work(c) => c = MainCall
<1>1. main.req \in ActReqs BY DEF Types, WorkerTypes, MainTypes
<1>2. MainCall \in Acts /\ main.req = Work(MainCall) BY <1>1, WorkKinds DEF MainCall
<1>3. main.req \in WorkReqs /\ main.req.of = MainCall BY <1>1, WorkKinds DEF MainCall
<1>4. ~(hostUp /\ Unsent(Work(MainCall))) BY <1>2, <1>3 DEF Orderly, Untouched
<1>5. ~Queued(Work(MainCall)) BY <1>2, <1>3 DEF Orderly, Once
<1>6. \A c \in Acts : main.req = Work(c) => c = MainCall BY <1>3 DEF Work, Request
<1> QED BY <1>2, <1>4, <1>5, <1>6 DEF Due

\* A step keeps the invariant if it presses nothing new and forgets nothing that is down.
LEMMA HeldKeeps ==
  ASSUME Types, HeldInv,
         \A t \in Threads : at'[t] \notin Taking => rel'[t] = {},
         (held \cup Pressing)' \subseteq held \cup Pressing,
         \A x \in (held \cup Pressing)' : Upped(x)' => Upped(x),
         hostUp' => hostUp,
         hostUp' => \A x \in (held \cup Pressing)' : x \in Tracked \cup lost => x \in (Tracked \cup lost)',
         main'.pc = "pressing" => MainCall' \in journal' /\ MainCall' \notin held',
         \A c \in Acts : Due(c)' => Due(c),
         \A c \in Acts : Due(c)' /\ c \notin journal \cup held /\ ~Upped(c)
           => c \notin journal' \cup held' /\ ~Upped(c)'
  PROVE  HeldInv'
<1>1. \A x \in (held \cup Pressing)' : ~Upped(x)' BY DEF HeldInv
<1>2. hostUp' => (held \cup Pressing)' \subseteq (Tracked \cup lost)' BY DEF HeldInv
<1>3. \A c \in Acts : Due(c)' => c \notin journal' \cup held' /\ ~Upped(c)' BY DEF HeldInv
<1> QED BY <1>1, <1>2, <1>3 DEF HeldInv

LEMMA SameSaid ==
  ASSUME Said' = Said, NEW x
  PROVE  (Upped(x)' <=> Upped(x)) /\ (Downed(x)' <=> Downed(x))
BY DEF Upped, Downed

\* A step that leaves presses, their traces and the main thread alone.
LEMMA HeldAside ==
  ASSUME Types, HeldInv, UNCHANGED <<held, inputs, rel, lost, journal>>,
         \A x : (Upped(x)' => Upped(x)) /\ (Downed(x) => Downed(x)'),
         main' = main \/ (main'.pc = main.pc /\ main'.req = main.req)
           \/ (main.pc # "pressing" /\ main'.pc # "pressing"),
         hostUp' => hostUp,
         \A c \in Acts : Due(c)' => Due(c),
         \A t \in Threads : at'[t] = at[t] \/ at[t] \notin Taking
  PROVE  HeldInv'
<1>3. \A x : x \in Tracked => x \in Tracked' BY TrackedIs
<1>4. Pressing' = Pressing BY DEF Pressing, MainCall
<1>5. \A t \in Threads : at'[t] \notin Taking => rel'[t] = {} BY DEF HeldInv
<1>6. main'.pc = "pressing" => MainCall' \in journal' /\ MainCall' \notin held'
  BY DEF HeldInv, MainCall
<1> QED BY <1>3, <1>4, <1>5, <1>6, HeldKeeps

\* The worker releases what it knows to be down.
LEMMA ReleaseKeepsHeld ==
  ASSUME Types, Orderly, HeldInv, alive, \E rejected \in SUBSET journal : ReleaseAll(rejected),
         UNCHANGED <<at, req, hostUp, stdin, queue, inputs, rel, lost>>,
         main'.req = main.req, main'.pc # "pressing",
         main'.pc \in {"act", "press"} => main.pc \in {"act", "press"}
  PROVE  HeldInv'
<1>1. PICK rejected \in SUBSET journal : ReleaseAll(rejected) OBVIOUS
<1>2. /\ main.pc # "pressing" /\ journal' = rejected /\ held' = held \ (journal \ rejected)
      /\ rejected \subseteq journal
  BY <1>1 DEF ReleaseAll, InputsFree
<1>3. Said' = Said \/ Said' = Said \cup {Up(journal \ rejected)} BY <1>1, ReleaseTypes DEF Types
<1>4. Pressing = {} /\ Pressing' = {} BY <1>2 DEF Pressing
<1>5. \A x : Upped(x)' => Upped(x) \/ x \in journal \ rejected BY <1>3, MessageTypes DEF Upped
<1>6. \A x : Downed(x) => Downed(x)' BY <1>3 DEF Downed
<1>7. \A x : x \in Tracked => x \in Tracked' BY <1>6, TrackedIs
<1>8. \A c \in Acts : Due(c)' => Due(c) BY DEF Due, Queued, Unsent
<1>9. \A t \in Threads : at'[t] \notin Taking => rel'[t] = {} BY DEF HeldInv
<1>10. \A x \in (held \cup Pressing)' : Upped(x)' => Upped(x) BY <1>2, <1>4, <1>5
<1>11. \A c \in Acts : Due(c)' /\ c \notin journal \cup held /\ ~Upped(c)
           => c \notin journal' \cup held' /\ ~Upped(c)'
  BY <1>2, <1>5
<1> QED BY <1>2, <1>4, <1>7, <1>8, <1>9, <1>10, <1>11, HeldKeeps

LEMMA EndKeepsHeld ==
  ASSUME Types, HeldInv, WorkerEnds, UNCHANGED <<out, inputs, rel, lost, hostUp, req>>,
         held' \subseteq held,
         \A t \in Threads : at'[t] = at[t] \/ (at[t] \notin Taking \cup Early /\ at'[t] = "wait")
  PROVE  HeldInv'
<1>1. /\ journal' = {} /\ main'.pc = "idle" /\ main'.req = NoRequest /\ stdin' = <<>> /\ queue' = <<>>
  BY DEF WorkerEnds, IdleMain
<1>2. Said' = Said BY DEF Said
<1>3. \A x : (Upped(x)' <=> Upped(x)) /\ (Downed(x)' <=> Downed(x)) BY <1>2, SameSaid
<1>4. \A x : x \in Tracked' <=> x \in Tracked BY DEF Tracked
<1>5. Pressing' = {} BY <1>1 DEF Pressing
<1>6. \A t \in Threads : at'[t] \notin Taking => rel'[t] = {} BY DEF HeldInv
<1>7. \A c \in Acts : Due(c)' => Due(c)
  <2> SUFFICES ASSUME NEW c \in Acts, Due(c)' PROVE Due(c) OBVIOUS
  <2>1. c \in Threads /\ Work(c).of = c BY ThreadKinds DEF Calls, Work, Request
  <2>2. ~Queued(Work(c))' BY <1>1 DEF Queued, ToSet
  <2>3. hostUp /\ Unsent(Work(c))' BY <1>1, <2>2 DEF Due
  <2>4. Unsent(Work(c)) BY <2>1, <2>3 DEF Unsent, Early
  <2> QED BY <2>3, <2>4 DEF Due
<1>8. \A c \in Acts : Due(c)' /\ c \notin journal \cup held /\ ~Upped(c)
           => c \notin journal' \cup held' /\ ~Upped(c)'
  BY <1>1, <1>3
<1> QED BY <1>1, <1>3, <1>4, <1>5, <1>6, <1>7, <1>8, HeldKeeps

LEMMA WorkerKeepsHeld ==
  ASSUME Types, Orderly, HeldInv, WorkerNext, UNCHANGED ctlVars
  PROVE  HeldInv'
<1> USE DEF procVars, pipeVars, inputVars, loopVars, obsVars, restOfLoop
<1>0. /\ UNCHANGED <<at, req, inputs, rel, lost>> /\ stdin \in Seq(Requests) /\ queue \in Seq(WorkReqs)
      /\ MainTypes /\ out \in [Workers -> Seq(Messages)] /\ (alive => worker \in Workers)
  BY DEF ctlVars, callVars, histVars, Types, WorkerTypes, HostTypes
<1>a. ASSUME UNCHANGED out PROVE \A x : (Upped(x)' => Upped(x)) /\ (Downed(x) => Downed(x)')
  BY <1>a DEF Upped, Downed, Said
<1>b. ASSUME alive, NEW m \in Messages, Write(m), m.type \notin {"up", "down"}
      PROVE  \A x : (Upped(x)' => Upped(x)) /\ (Downed(x) => Downed(x)')
  <2>1. Said' = Said \cup {m} BY <1>0, <1>b, Written
  <2> QED BY <1>b, <2>1 DEF Upped, Downed
<1>c. ASSUME UNCHANGED <<hostUp, stdin, queue>>,
             main'.req = main.req \/ main'.pc = "idle",
             main'.pc \in {"act", "press"} => main.pc \in {"act", "press"}
      PROVE  \A c \in Acts : Due(c)' => Due(c)
  BY <1>0, <1>c DEF Due, Queued, Unsent
<1>d. ASSUME UNCHANGED <<held, journal, hostUp>>,
             \A x : (Upped(x)' => Upped(x)) /\ (Downed(x) => Downed(x)'),
             main' = main \/ (main.pc # "pressing" /\ main'.pc # "pressing"),
             \A c \in Acts : Due(c)' => Due(c)
      PROVE  HeldInv'
  BY <1>0, <1>d, HeldAside
<1>e. ASSUME NEW pc, Goes(pc) \/ (pc = "reply" /\ (Replies("ok") \/ Replies("error")))
      PROVE  main'.req = main.req /\ main'.pc = pc
  BY <1>0, <1>e DEF MainTypes, Goes, Replies
<1>f. ASSUME main.pc \in Acting, NEW m \in Messages, alive, Write(m)
      PROVE  Said' = Said \cup {m}
  BY <1>0, <1>f, Written
<1>g. \A t \in Threads : at'[t] \notin Taking => rel'[t] = {} BY <1>0 DEF HeldInv
<1>1. CASE ReadWork
  <2>1. /\ stdin # <<>> /\ Head(stdin).kind \in {"hello", "work"} /\ stdin' = Tail(stdin)
        /\ queue' = Append(queue, Head(stdin)) /\ UNCHANGED <<held, journal, hostUp, out, main>>
    BY <1>1 DEF ReadWork
  <2>2. Head(stdin) \in WorkReqs /\ ToSet(stdin) = ToSet(stdin') \cup {Head(stdin)}
    BY <1>0, <2>1, InTail, RequestKinds
  <2>3. ToSet(queue') = ToSet(queue) \cup {Head(stdin)} BY <1>0, <2>1, <2>2, InAppend
  <2>4. \A r : Queued(r)' => Queued(r) BY <2>2, <2>3 DEF Queued
  <2>5. \A c \in Acts : Due(c)' => Due(c) BY <1>0, <2>1, <2>4 DEF Due, Unsent
  <2> QED BY <1>a, <1>d, <2>1, <2>5
<1>2. CASE ReadInterrupt
  <2>1. /\ stdin # <<>> /\ stdin' = Tail(stdin) /\ UNCHANGED <<queue, held, journal, hostUp, out, main>>
    BY <1>2 DEF ReadInterrupt
  <2>2. ToSet(stdin) = ToSet(stdin') \cup {Head(stdin)} BY <1>0, <2>1, InTail
  <2>3. \A r : Queued(r)' => Queued(r) BY <2>1, <2>2 DEF Queued
  <2>4. \A c \in Acts : Due(c)' => Due(c) BY <1>0, <2>1, <2>3 DEF Due, Unsent
  <2> QED BY <1>a, <1>d, <2>1, <2>4
<1>3. CASE ReadEnd \/ Click \/ UiaStep
  <2>1. UNCHANGED <<held, journal, hostUp, stdin, queue, out, main>>
    BY <1>3 DEF ReadEnd, Click, UiaStep, Dispatch, Dispatched
  <2> QED BY <1>a, <1>c, <1>d, <2>1
<1>4. CASE ReaderBump \/ ReaderAnswer \/ ClickDone
  <2>1. alive /\ UNCHANGED <<held, journal, hostUp, stdin, queue, main>>
    BY <1>4 DEF ReaderBump, ReaderAnswer, ClickDone, ReaderAt
  <2>2. \/ out' = out
        \/ Write(LocalStopped)
        \/ ReaderAnswer /\ Write(Reply(reader.msg, InterruptResult(reader.msg)))
    BY <1>4 DEF ReaderBump, ReaderAnswer, ClickDone
  <2>3. \A x : (Upped(x)' => Upped(x)) /\ (Downed(x) => Downed(x)')
    <3>1. CASE Write(LocalStopped) BY <1>b, <2>1, <3>1, MessageKinds, MessageTypes
    <3>2. CASE ReaderAnswer /\ Write(Reply(reader.msg, InterruptResult(reader.msg)))
      <4>1. reader.msg \in Requests
        BY <3>2, WorkKinds DEF ReaderAnswer, ReaderAt, Types, WorkerTypes, ReaderTypes
      <4>2. Reply(reader.msg, InterruptResult(reader.msg)) \in Messages
        BY <4>1, MessageKinds DEF InterruptResult
      <4> QED BY <1>b, <2>1, <3>2, <4>2, MessageTypes
    <3> QED BY <1>a, <2>2, <3>1, <3>2
  <2> QED BY <1>c, <1>d, <2>1, <2>3
<1>5. CASE ReaderRelease \/ ClickRelease
  <2>1. alive /\ UNCHANGED <<hostUp, stdin, queue, main>>
    BY <1>5 DEF ReaderRelease, ClickRelease, ReaderAt
  <2>2. \E rejected \in SUBSET journal : ReleaseAll(rejected)
    BY <1>5 DEF ReaderRelease, ClickRelease
  <2>3. main.pc # "pressing" BY <2>2 DEF ReleaseAll, InputsFree
  <2> QED BY <1>0, <2>1, <2>2, <2>3, ReleaseKeepsHeld
<1>6. CASE ActRelease \/ MainFail
  <2>1. /\ alive /\ \E rejected \in SUBSET journal : ReleaseAll(rejected)
        /\ UNCHANGED <<hostUp, stdin, queue>>
    BY <1>6 DEF ActRelease, MainFail, MainAt
  <2>2. Replies("ok") \/ Replies("error") \/ Goes("fail") BY <1>6 DEF ActRelease, MainFail
  <2>3. main'.req = main.req /\ main'.pc \in {"reply", "fail"} BY <1>e, <2>2
  <2> QED BY <1>0, <2>1, <2>3, ReleaseKeepsHeld
<1>7. CASE MainReceive
  <2>1. /\ main.pc = "idle" /\ queue # <<>> /\ queue' = Tail(queue)
        /\ main'.req = Head(queue) /\ main'.pc # "pressing"
        /\ UNCHANGED <<held, journal, hostUp, stdin, out>>
    BY <1>7 DEF MainReceive, MainAt
  <2>2. ToSet(queue) = ToSet(queue') \cup {Head(queue)} BY <1>0, <2>1, InTail
  <2>3. \A r : Queued(r)' \/ main'.req = r => Queued(r) BY <2>1, <2>2 DEF Queued
  <2>4. \A c \in Acts : Due(c)' => Due(c) BY <1>0, <2>1, <2>3 DEF Due, Unsent
  <2> QED BY <1>a, <1>d, <2>1, <2>4
<1>8. CASE LookCheck \/ LookRecord \/ MainClear \/ Submit \/ Await
  <2>1. /\ UNCHANGED <<held, journal, hostUp, stdin, queue, out>>
        /\ main.pc \in {"look", "record", "clear", "submit", "await"}
    BY <1>8 DEF LookCheck, LookRecord, MainClear, Submit, Await, MainAt
  <2>2. Replies("ok") \/ \E pc \in {"fail", "record", "await"} : Goes(pc)
    BY <1>8 DEF LookCheck, LookRecord, MainClear, Submit, Await
  <2>3. main'.req = main.req /\ main'.pc \in {"reply", "fail", "record", "await"} BY <1>e, <2>2
  <2> QED BY <1>a, <1>c, <1>d, <2>1, <2>3
<1>9. CASE ActCheck
  <2>1. UNCHANGED <<held, journal, hostUp, stdin, queue, out>> /\ main.pc = "act"
    BY <1>9 DEF ActCheck, MainAt
  <2>2. \E pc \in {"fail", "submit", "press"} : Goes(pc) BY <1>9 DEF ActCheck
  <2>3. main'.req = main.req /\ main'.pc \in {"fail", "submit", "press"} BY <1>e, <2>2
  <2> QED BY <1>a, <1>c, <1>d, <2>1, <2>3
<1>10. CASE MainReply
  <2>1. /\ alive /\ UNCHANGED <<held, journal, hostUp, stdin, queue>> /\ main.pc = "reply"
        /\ Goes("forget") /\ Write(Reply(main.req, main.result))
    BY <1>10 DEF MainReply, MainAt
  <2>2. main'.req = main.req /\ main'.pc = "forget" BY <1>e, <2>1
  <2>3. Reply(main.req, main.result) \in Messages
    BY <1>0, <2>1, MessageKinds, WorkKinds DEF MainTypes
  <2>4. \A x : (Upped(x)' => Upped(x)) /\ (Downed(x) => Downed(x)')
    BY <1>b, <2>1, <2>3, MessageTypes
  <2> QED BY <1>c, <1>d, <2>1, <2>2, <2>4
<1>11. CASE MainForget
  <2>1. /\ UNCHANGED <<held, journal, hostUp, stdin, queue, out>> /\ main.pc = "forget"
        /\ main'.pc = "idle"
    BY <1>11 DEF MainForget, MainAt, IdleMain
  <2> QED BY <1>a, <1>c, <1>d, <2>1
<1>12. CASE MainBroken \/ MainExit
  <2>1. WorkerEnds /\ UNCHANGED <<out, hostUp>> BY <1>12 DEF MainBroken, MainExit
  <2>2. held' \subseteq held BY <1>12 DEF MainBroken, MainExit
  <2> QED BY <1>0, <2>1, <2>2, EndKeepsHeld
<1>13. CASE PressJournal
  <2>1. main.pc = "press" /\ alive /\ UNCHANGED <<held, hostUp, stdin, queue>>
    BY <1>13 DEF PressJournal, MainAt
  <2>2. MainCall \in Acts /\ Due(MainCall) BY <2>1, InHandIsNotDue DEF Acting
  <2>3. MainCall \notin journal \cup held /\ ~Upped(MainCall) BY <2>2 DEF HeldInv
  <2>4. CASE Goes("fail") /\ UNCHANGED <<journal, out>>
    <3>1. main'.req = main.req /\ main'.pc = "fail" BY <1>e, <2>4
    <3> QED BY <1>a, <1>c, <1>d, <2>1, <2>4, <3>1
  <2>5. CASE Goes("pressing") /\ journal' = journal \cup {MainCall} /\ Write(Down(MainCall))
    <3>1. main'.req = main.req /\ main'.pc = "pressing" /\ MainCall' = MainCall
      BY <1>e, <2>5 DEF MainCall
    <3>2. Said' = Said \cup {Down(MainCall)}
      BY <1>f, <2>1, <2>2, <2>5, MessageKinds DEF Acting
    <3>3. \A x : /\ Upped(x)' => Upped(x)
                 /\ Downed(x) \/ x = MainCall => Downed(x)'
      <4> SUFFICES ASSUME NEW x PROVE /\ Upped(x)' => Upped(x)
                                      /\ Downed(x) \/ x = MainCall => Downed(x)'
        OBVIOUS
      <4>1. Upped(x)' => Upped(x) BY <3>2, MessageTypes DEF Upped
      <4>2. Downed(x) => Downed(x)' BY <3>2 DEF Downed
      <4>3. x = MainCall => Downed(x)'
        <5>1. x = MainCall => Down(MainCall).type = "down" /\ x \in Down(MainCall).keys
          BY MessageTypes
        <5> QED BY <3>2, <5>1 DEF Downed
      <4> QED BY <4>1, <4>2, <4>3
    <3>4. \A x : x \in Tracked => x \in Tracked' BY <1>0, <3>3, TrackedIs
    <3>5. \A x : x = MainCall => x \in Tracked'
      <4> SUFFICES ASSUME NEW x, x = MainCall PROVE x \in Tracked' OBVIOUS
      <4>1. Downed(x)' BY <3>3
      <4> QED BY <4>1, TrackedIs
    <3>6. Pressing' = {MainCall} /\ Pressing = {} BY <2>1, <3>1 DEF Pressing
    <3>7. \A x \in (held \cup Pressing)' : ~Upped(x)' BY <2>1, <2>3, <3>3, <3>6 DEF HeldInv
    <3>8. hostUp' => (held \cup Pressing)' \subseteq (Tracked \cup lost)'
      BY <1>0, <2>1, <3>4, <3>5, <3>6 DEF HeldInv
    <3>9. \A c \in Acts : Due(c)' => Due(c) /\ c # MainCall
      <4>1. \A c \in Acts : Due(c)' => Due(c) BY <1>c, <2>1, <3>1
      <4>2. \A c \in Acts : c = MainCall => ~Due(c)'
        <5> SUFFICES ASSUME NEW c \in Acts, c = MainCall PROVE ~Due(c)' OBVIOUS
        <5>1. main'.pc \notin {"act", "press"} BY <3>1
        <5>2. main.req \in WorkReqs /\ main.req = Work(c)
          BY <1>0, <2>1, InHandIsNotDue DEF MainTypes, Acting
        <5>3. ~(hostUp /\ Unsent(Work(c))) /\ ~Queued(Work(c))
          BY <5>2 DEF Orderly, Untouched, Once
        <5>4. (Unsent(Work(c))' <=> Unsent(Work(c))) /\ (Queued(Work(c))' <=> Queued(Work(c)))
          BY <1>0, <2>1 DEF Unsent, Queued
        <5> QED BY <2>1, <3>1, <5>1, <5>3, <5>4 DEF Due
      <4> QED BY <4>1, <4>2
    <3>10. \A c \in Acts : Due(c)' => c \notin journal' \cup held' /\ ~Upped(c)'
      BY <2>1, <2>5, <3>3, <3>9 DEF HeldInv
    <3>11. MainCall' \in journal' /\ MainCall' \notin held' BY <2>1, <2>3, <2>5, <3>1
    <3> QED BY <1>g, <3>7, <3>8, <3>10, <3>11 DEF HeldInv
  <2> QED BY <1>13, <2>4, <2>5 DEF PressJournal
<1>14. CASE PressSend
  <2>1. main.pc = "pressing" /\ alive /\ UNCHANGED <<hostUp, stdin, queue>>
    BY <1>14 DEF PressSend, MainAt
  <2>2. MainCall \in Acts /\ ~Due(MainCall) BY <2>1, InHandIsNotDue DEF Acting
  <2>3. Pressing = {MainCall} /\ MainCall \notin held BY <2>1 DEF Pressing, HeldInv
  <2>4. \E pc \in {"fail", "pressed"} : Goes(pc) BY <1>14 DEF PressSend
  <2>5. main'.req = main.req /\ main'.pc \in {"fail", "pressed"} BY <1>e, <2>4
  <2>6. Pressing' = {} BY <2>5 DEF Pressing
  <2>7. \A c \in Acts : Due(c)' => Due(c) BY <1>c, <2>1, <2>5
  <2>8. CASE held' = held \cup {MainCall} /\ UNCHANGED <<journal, out>>
    <3>1. \A x : (Upped(x)' => Upped(x)) /\ (Downed(x) => Downed(x)') BY <1>a, <2>8
    <3>2. \A x : x \in Tracked => x \in Tracked' BY <1>0, <3>1, TrackedIs
    <3>3. (held \cup Pressing)' \subseteq held \cup Pressing BY <2>3, <2>6, <2>8
    <3>4. \A c \in Acts : Due(c)' /\ c \notin journal \cup held /\ ~Upped(c)
           => c \notin journal' \cup held' /\ ~Upped(c)'
      BY <2>2, <2>7, <2>8, <3>1
    <3> QED BY <1>0, <1>g, <2>1, <2>5, <2>7, <3>1, <3>2, <3>3, <3>4, HeldKeeps
  <2>9. CASE held' = held /\ journal' = journal \ {MainCall} /\ Write(Up({MainCall}))
    <3>1. Said' = Said \cup {Up({MainCall})}
      BY <1>f, <2>1, <2>2, <2>9, MessageKinds DEF Acting
    <3>2. \A x : (Upped(x)' => Upped(x) \/ x = MainCall) /\ (Downed(x) => Downed(x)')
      BY <3>1, MessageTypes DEF Upped, Downed
    <3>3. \A x : x \in Tracked => x \in Tracked' BY <1>0, <3>2, TrackedIs
    <3>4. (held \cup Pressing)' \subseteq held \cup Pressing BY <2>6, <2>9
    <3>5. \A x \in (held \cup Pressing)' : Upped(x)' => Upped(x) BY <2>3, <2>6, <2>9, <3>2
    <3>6. \A c \in Acts : Due(c)' /\ c \notin journal \cup held /\ ~Upped(c)
           => c \notin journal' \cup held' /\ ~Upped(c)'
      BY <2>2, <2>7, <2>9, <3>2
    <3> QED BY <1>0, <1>g, <2>1, <2>5, <2>7, <3>3, <3>4, <3>5, <3>6, HeldKeeps
  <2> QED BY <1>14, <2>8, <2>9 DEF PressSend
<1>15. CASE PressUp
  <2>1. main.pc = "pressed" /\ alive /\ UNCHANGED <<hostUp, stdin, queue>>
    BY <1>15 DEF PressUp, MainAt
  <2>2. MainCall \in Acts /\ ~Due(MainCall) BY <2>1, InHandIsNotDue DEF Acting
  <2>4. \E pc \in {"fail", "release"} : Goes(pc) BY <1>15 DEF PressUp
  <2>5. main'.req = main.req /\ main'.pc \in {"fail", "release"} BY <1>e, <2>4
  <2>6. Pressing' = {} /\ Pressing = {} BY <2>1, <2>5 DEF Pressing
  <2>7. \A c \in Acts : Due(c)' => Due(c) BY <1>c, <2>1, <2>5
  <2>8. CASE UNCHANGED <<journal, held, out>> BY <1>a, <1>d, <2>1, <2>5, <2>7, <2>8
  <2>9. CASE held' = held \ {MainCall} /\ journal' = journal \ {MainCall} /\ Write(Up({MainCall}))
    <3>1. Said' = Said \cup {Up({MainCall})}
      BY <1>f, <2>1, <2>2, <2>9, MessageKinds DEF Acting
    <3>2. \A x : (Upped(x)' => Upped(x) \/ x = MainCall) /\ (Downed(x) => Downed(x)')
      BY <3>1, MessageTypes DEF Upped, Downed
    <3>3. \A x : x \in Tracked => x \in Tracked' BY <1>0, <3>2, TrackedIs
    <3>4. (held \cup Pressing)' \subseteq held \cup Pressing BY <2>6, <2>9
    <3>5. \A x \in (held \cup Pressing)' : Upped(x)' => Upped(x) BY <2>6, <2>9, <3>2
    <3>6. \A c \in Acts : Due(c)' /\ c \notin journal \cup held /\ ~Upped(c)
           => c \notin journal' \cup held' /\ ~Upped(c)'
      BY <2>2, <2>7, <2>9, <3>2
    <3> QED BY <1>0, <1>g, <2>1, <2>5, <2>7, <3>3, <3>4, <3>5, <3>6, HeldKeeps
  <2> QED BY <1>15, <2>8, <2>9 DEF PressUp
<1> QED
  BY <1>1, <1>2, <1>3, <1>4, <1>5, <1>6, <1>7, <1>8, <1>9, <1>10, <1>11, <1>12, <1>13, <1>14, <1>15
  DEF WorkerNext, ReaderStep, OverlayStep, MainStep

\* The supervisor releases what it takes to be down.
LEMMA ReleaseHolds ==
  ASSUME Types, Orderly, HeldInv, HostNext, NEW t \in Threads, Release(t) \/ ReleaseSend(t)
  PROVE  HeldInv'
<1> USE DEF procVars, pipeVars, inputVars, loopVars, obsVars, callVars, endVars
<1>0. /\ at \in [Threads -> Places] /\ rel \in [Threads -> SUBSET Acts] /\ hostUp
      /\ Acts \subseteq Calls /\ \A c \in Calls : Due(c)' => Due(c)
  BY DueStep DEF Types, HostTypes, HostNext, Calls
<1>1. UNCHANGED <<out, main, journal, hostUp>> BY DEF Release, ReleaseSend, workerVars
<1>2. \A x : (Upped(x)' <=> Upped(x)) /\ (Downed(x)' <=> Downed(x)) BY <1>1, SameSaid DEF Said
<1>3. Pressing' = Pressing /\ MainCall' = MainCall BY <1>1 DEF Pressing, MainCall
<1>4. CASE Release(t)
  <2> DEFINE place == IF inputs # {}
                      THEN IF at[t] = "release" THEN "releasing" ELSE "stop_releasing"
                      ELSE IF at[t] = "release" THEN AfterRelease(t, TRUE) ELSE AfterStop(t)
  <2>1. /\ at[t] \in {"release", "stop_release"} /\ Goto(t, place)
        /\ rel' = [rel EXCEPT ![t] = inputs] /\ UNCHANGED <<held, lost>>
    BY <1>4 DEF Release, histVars, workerVars
  <2>2. inputs = {} \/ place \in Taking BY <2>1 DEF Taking
  <2> HIDE DEF place
  <2>3. at'[t] = place /\ rel'[t] = inputs BY <1>0, <2>1 DEF Goto
  <2>4. \A s \in Threads \ {t} : at'[s] = at[s] /\ rel'[s] = rel[s] BY <1>0, <2>1 DEF Goto
  <2>5. \A s \in Threads : at'[s] \notin Taking => rel'[s] = {} BY <2>2, <2>3, <2>4 DEF HeldInv
  <2>6. ASSUME NEW x, x \in Tracked PROVE x \in Tracked'
    <3>1. rel[t] = {} BY <2>1 DEF HeldInv, Taking
    <3>2. x \in inputs \/ (\E s \in Threads \ {t} : x \in rel[s]) \/ Downed(x)
      BY <2>6, <3>1, TrackedIs
    <3>3. x \in inputs => x \in rel'[t] BY <2>3
    <3> QED BY <1>2, <2>4, <3>2, <3>3, TrackedIs
  <2>7. \A c \in Acts : Due(c)' /\ c \notin journal \cup held /\ ~Upped(c)
           => c \notin journal' \cup held' /\ ~Upped(c)'
    BY <1>1, <1>2, <2>1
  <2>8. main'.pc = "pressing" => MainCall' \in journal' /\ MainCall' \notin held'
    BY <1>1, <1>3, <2>1 DEF HeldInv
  <2> QED BY <1>0, <1>1, <1>2, <1>3, <2>1, <2>5, <2>6, <2>7, <2>8, HeldKeeps
<1>5. CASE ReleaseSend(t)
  <2>1. PICK rejected \in SUBSET rel[t] :
          /\ inputs' = inputs \cup rejected /\ held' = held \ (rel[t] \ rejected)
          /\ Goto(t, IF at[t] = "releasing" THEN AfterRelease(t, inputs' = {}) ELSE AfterStop(t))
    BY <1>5 DEF ReleaseSend, Kept
  <2>2. rel' = [rel EXCEPT ![t] = {}] /\ lost' = lost \cup (rel[t] \cap (journal \ held))
    BY <1>5 DEF ReleaseSend
  <2>3. rel'[t] = {} /\ \A s \in Threads \ {t} : at'[s] = at[s] /\ rel'[s] = rel[s]
    BY <1>0, <2>1, <2>2 DEF Goto
  <2>4. \A s \in Threads : at'[s] \notin Taking => rel'[s] = {} BY <2>3 DEF HeldInv
  <2>5. ASSUME NEW x \in (held \cup Pressing)', x \in Tracked \cup lost PROVE x \in (Tracked \cup lost)'
    <3>1. CASE x \in lost BY <2>2, <3>1
    <3>2. CASE x \in rel[t]
      <4>1. x \in held' => x \in inputs' BY <2>1, <3>2
      <4>2. x \in Pressing => x \in journal \ held BY DEF Pressing, HeldInv
      <4>3. x \in Pressing => x \in lost' BY <2>2, <3>2, <4>2
      <4> QED BY <1>3, <4>1, <4>3, TrackedIs
    <3>3. CASE x \in Tracked /\ x \notin rel[t]
      <4>1. x \in inputs \/ (\E s \in Threads \ {t} : x \in rel[s]) \/ Downed(x)
        BY <3>3, TrackedIs
      <4>2. x \in inputs => x \in inputs' BY <2>1
      <4> QED BY <1>2, <2>3, <4>1, <4>2, TrackedIs
    <3> QED BY <2>5, <3>1, <3>2, <3>3
  <2>6. \A c \in Acts : Due(c)' /\ c \notin journal \cup held /\ ~Upped(c)
           => c \notin journal' \cup held' /\ ~Upped(c)'
    BY <1>1, <1>2, <2>1
  <2>7. main'.pc = "pressing" => MainCall' \in journal' /\ MainCall' \notin held'
    BY <1>1, <1>3, <2>1 DEF HeldInv
  <2>8. (held \cup Pressing)' \subseteq held \cup Pressing BY <1>3, <2>1
  <2> QED BY <1>0, <1>1, <1>2, <2>4, <2>5, <2>6, <2>7, <2>8, HeldKeeps
<1> QED BY <1>4, <1>5

\* The supervisor reads what a worker has written.
LEMMA ReadHolds ==
  ASSUME Types, Orderly, HeldInv, HostNext, NEW w \in Workers, Read(w) \/ Reap(w)
  PROVE  HeldInv'
<1> USE DEF procVars, pipeVars, inputVars, loopVars, obsVars, callVars, endVars
<1>0. /\ out \in [Workers -> Seq(Messages)] /\ Acts \subseteq Calls
      /\ \A c \in Calls : Due(c)' => Due(c)
  BY DueStep DEF Types, WorkerTypes, Calls
<1>1. UNCHANGED <<at, rel, main, held, journal, hostUp>> BY DEF Read, Reap
<1>2. Pressing' = Pressing /\ MainCall' = MainCall BY <1>1 DEF Pressing, MainCall
<1>3. \A t \in Threads : at'[t] \notin Taking => rel'[t] = {} BY <1>1 DEF HeldInv
<1>4. main'.pc = "pressing" => MainCall' \in journal' /\ MainCall' \notin held'
  BY <1>1, <1>2 DEF HeldInv
<1>5. SUFFICES /\ \A x : Upped(x)' => Upped(x)
               /\ \A x \in held \cup Pressing : x \in Tracked \cup lost => x \in (Tracked \cup lost)'
  <2>1. \A c \in Acts : Due(c)' /\ c \notin journal \cup held /\ ~Upped(c)
           => c \notin journal' \cup held' /\ ~Upped(c)'
    BY <1>1, <1>5
  <2> QED BY <1>0, <1>1, <1>2, <1>3, <1>4, <1>5, <2>1, HeldKeeps
<1>6. CASE Read(w)
  <2> DEFINE m == Head(out[w])
  <2>1. Said = Said' \cup {m} /\ m \in Messages BY <1>0, <1>6, ReadSaid
  <2>2. inputs' = Applied(m) /\ lost' = lost BY <1>6 DEF Read, histVars
  <2> HIDE DEF m
  <2>3. \A x : Upped(x)' => Upped(x) BY <2>1 DEF Upped
  <2>4. ASSUME NEW x \in held \cup Pressing, x \in Tracked PROVE x \in Tracked'
    <3>1. ~Upped(x) BY DEF HeldInv
    <3>2. m.type = "up" => x \notin m.keys BY <2>1, <3>1 DEF Upped
    <3>3. x \in inputs => x \in inputs' BY <2>2, <3>2 DEF Applied
    <3>4. Downed(x) => Downed(x)' \/ x \in inputs'
      <4>1. Downed(x) => Downed(x)' \/ (m.type = "down" /\ x \in m.keys) BY <2>1 DEF Downed
      <4> QED BY <2>2, <4>1 DEF Applied
    <3> QED BY <1>1, <2>4, <3>3, <3>4, TrackedIs
  <2> QED BY <2>2, <2>3, <2>4
<1>7. CASE Reap(w)
  <2>1. PICK n \in Cuts(w) :
          /\ out' = [out EXCEPT ![w] = SubSeq(out[w], 1, n)]
          /\ lost' = lost \cup Downs(SubSeq(out[w], n + 1, Len(out[w])))
    BY <1>7 DEF Reap
  <2>2. n \in 0..Len(out[w]) /\ inputs' = inputs BY <1>7 DEF Reap, Cuts
  <2> DEFINE d == SubSeq(out[w], n + 1, Len(out[w]))
  <2>3. Said = Said' \cup ToSet(d) BY <1>0, <2>1, <2>2, ReapSaid
  <2>4. lost' = lost \cup Downs(d) BY <2>1
  <2> HIDE DEF d
  <2>5. \A x : Upped(x)' => Upped(x) BY <2>3 DEF Upped
  <2>6. ASSUME NEW x, x \in Tracked PROVE x \in (Tracked \cup lost)'
    <3>1. Downed(x) => Downed(x)' \/ x \in lost'
      <4>1. Downed(x) => Downed(x)' \/ \E m \in ToSet(d) : m.type = "down" /\ x \in m.keys
        BY <2>3 DEF Downed
      <4> QED BY <2>4, <4>1, DownsIs
    <3> QED BY <1>1, <2>2, <2>6, <3>1, TrackedIs
  <2> QED BY <2>4, <2>5, <2>6
<1> QED BY <1>6, <1>7

LEMMA HostKeepsHeld ==
  ASSUME Types, Orderly, HeldInv, HostNext
  PROVE  HeldInv'
<1> USE DEF procVars, pipeVars, inputVars, loopVars, obsVars, callVars, aside
<1>0. /\ at \in [Threads -> Places] /\ hostUp /\ Acts \subseteq Calls
      /\ \A c \in Calls : Due(c)' => Due(c)
  BY DueStep DEF Types, HostTypes, HostNext, Calls
\* Steps of the host that only move a thread.
<1>a. ASSUME UNCHANGED <<held, inputs, rel, lost, journal, main, out, hostUp>>,
             NEW t \in Threads, at[t] \notin Taking, NEW place, Goto(t, place)
      PROVE  HeldInv'
  <2>1. \A s \in Threads : at'[s] = at[s] \/ at[s] \notin Taking BY <1>0, <1>a DEF Goto
  <2>2. \A x : (Upped(x)' => Upped(x)) /\ (Downed(x) => Downed(x)') BY <1>a DEF Upped, Downed, Said
  <2> QED BY <1>0, <1>a, <2>1, <2>2, HeldAside
<1>1. ASSUME NEW t \in Threads, Release(t) \/ ReleaseSend(t) PROVE HeldInv'
  BY <1>1, ReleaseHolds
<1>2. ASSUME NEW t \in Threads, StopTake(t) \/ WaitExit(t) \/ Send(t) PROVE HeldInv'
  <2>1. /\ UNCHANGED <<held, inputs, rel, lost, journal, main, out, hostUp>>
        /\ at[t] \in {"stop", "wait", "send"}
    BY <1>2 DEF StopTake, WaitExit, Send, histVars
  <2>2. \E place : Goto(t, place) BY <1>2 DEF StopTake, WaitExit, Send
  <2> QED BY <1>a, <2>1, <2>2 DEF Taking
<1>3. ASSUME NEW t \in Threads, Kill(t) PROVE HeldInv'
  <2>1. /\ WorkerEnds /\ UNCHANGED <<out, inputs, rel, lost, hostUp, req, held>>
        /\ at[t] = "kill" /\ Goto(t, "wait")
    BY <1>3 DEF Kill, histVars
  <2>2. \A s \in Threads : at'[s] = at[s] \/ (at[s] \notin Taking \cup Early /\ at'[s] = "wait")
    BY <1>0, <2>1 DEF Goto, Taking, Early
  <2> QED BY <2>1, <2>2, EndKeepsHeld
<1>4. ASSUME NEW c \in Calls, Enter(c) \/ TakeGate(c) PROVE HeldInv'
  <2>1. /\ UNCHANGED <<held, inputs, rel, lost, journal, main, out, hostUp>>
        /\ at[c] \in {"idle", "gate"}
    BY <1>4 DEF Enter, TakeGate, histVars, workerVars
  <2>2. \E place : Goto(c, place) BY <1>4 DEF Enter, TakeGate
  <2> QED BY <1>a, <2>1, <2>2, ThreadKinds DEF Taking
<1>5. ASSUME NEW c \in Calls, Start(c) PROVE HeldInv'
  <2>1. at[c] = "start" /\ c \in Threads BY <1>5, ThreadKinds DEF Start
  <2>2. CASE UNCHANGED workerVars /\ \E place : Goto(c, place)
    <3>1. UNCHANGED <<held, inputs, rel, lost, journal, main, out, hostUp>>
      BY <1>5, <2>2 DEF Start, histVars, workerVars
    <3> QED BY <1>a, <2>1, <2>2, <3>1 DEF Taking
  <2>3. CASE /\ WorkerStarts /\ worker < MaxWorkers
             /\ at' = [at EXCEPT ![c] = "send", ![worker + 1] = "read"]
    <3>1. /\ UNCHANGED <<held, inputs, rel, lost, out, hostUp>> /\ journal' = {} /\ main'.pc = "idle"
      BY <1>5, <2>3 DEF Start, WorkerStarts, IdleMain, histVars
    <3>2. worker + 1 \in Workers /\ worker + 1 > worker
      BY <2>3, ControllerAssumption DEF Types, WorkerTypes, Workers
    <3>3. at[worker + 1] = "idle" BY <1>0, <3>2 DEF Orderly, Charge
    <3>4. \A s \in Threads : at'[s] = at[s] \/ at[s] \notin Taking
      BY <1>0, <2>1, <2>3, <3>3 DEF Taking
    <3>5. \A s \in Threads : at'[s] \notin Taking => rel'[s] = {} BY <3>1, <3>4 DEF HeldInv
    <3>6. \A x : (Upped(x)' <=> Upped(x)) /\ (Downed(x)' <=> Downed(x)) BY <3>1, SameSaid DEF Said
    <3>7. \A x : x \in Tracked => x \in Tracked' BY <3>1 DEF Tracked
    <3>8. Pressing' = {} BY <3>1 DEF Pressing
    <3>9. \A d \in Acts : Due(d)' /\ d \notin journal \cup held /\ ~Upped(d)
           => d \notin journal' \cup held' /\ ~Upped(d)'
      BY <3>1, <3>6
    <3> QED BY <1>0, <3>1, <3>5, <3>6, <3>7, <3>8, <3>9, HeldKeeps
  <2> QED BY <1>5, <2>2, <2>3 DEF Start, Ask
<1>6. ASSUME NEW c \in Calls, CallAnswered(c) \/ CallExpires(c) \/ Drain(c) \/ Return(c)
      PROVE  HeldInv'
  <2>1. /\ UNCHANGED <<held, inputs, rel, lost, journal, main, out, hostUp>>
        /\ at[c] \notin Taking /\ c \in Threads
    BY <1>6, ThreadKinds
    DEF CallAnswered, Arrived, CallExpires, Drain, Return, histVars, workerVars, Taking
  <2>2. \E place : Goto(c, place)
    <3>1. CASE CallAnswered(c)
      <4>1. at[c] = "await" BY <3>1 DEF CallAnswered, Arrived
      <4>2. req[c] \in {Hello(c), Work(c), Cancel(c)} BY <2>1, <4>1 DEF Types, HostTypes, Asks, Asked
      <4>3. req[c].kind \in {"work", "hello", "cancel"} BY <4>2, OwnRequests
      <4>4. \/ Goto(c, Answer(req[c])) \/ Goto(c, "stop") \/ Ask(c, Work(c))
            \/ Goto(c, IF Answer(req[c]) = "ok" THEN "drain" ELSE "stop")
        BY <3>1, <4>3 DEF CallAnswered
      <4> QED BY <4>4 DEF Ask
    <3>2. CASE CallExpires(c) BY <3>2 DEF CallExpires, Interrupts, Ask
    <3>3. CASE Drain(c) \/ Return(c) BY <3>3 DEF Drain, Return
    <3> QED BY <1>6, <3>1, <3>2, <3>3
  <2> QED BY <1>a, <2>1, <2>2
<1>7. CASE ResetBegin \/ ResetStep \/ CloseBegin
  <2>1. UNCHANGED <<held, inputs, rel, lost, journal, main, out, hostUp>>
    BY <1>7 DEF ResetBegin, ResetStep, ResetAnswered, ResetEnd, CloseBegin, histVars, workerVars
  <2>2. PICK t \in {Resetter, Closer} :
          at[t] \in {"idle", "await", "ok", "error", "settling"} /\ \E place : Goto(t, place)
    BY <1>7 DEF ResetBegin, ResetStep, ResetAnswered, ResetEnd, CloseBegin, Ask
  <2> QED BY <1>a, <2>1, <2>2, ThreadKinds DEF Taking
<1>8. ASSUME NEW w \in Workers, ReadStep(w) PROVE HeldInv'
  <2>1. CASE Read(w) \/ Reap(w) BY <2>1, ReadHolds
  <2>2. CASE ReadEnds(w)
    <3>1. /\ UNCHANGED <<held, inputs, rel, lost, journal, main, out, hostUp>> /\ at[w] = "read"
          /\ \E place : Goto(w, place)
      BY <2>2 DEF ReadEnds, histVars, workerVars
    <3> QED BY <1>a, <3>1, ThreadKinds DEF Taking
  <2> QED BY <1>8, <2>1, <2>2 DEF ReadStep
<1>9. CASE Crash
  <2>1. WorkerEnds /\ UNCHANGED <<out, inputs, rel, lost, hostUp, req, held, at>>
    BY <1>9 DEF Crash, ctlVars, histVars
  <2> QED BY <2>1, EndKeepsHeld
<1>10. CASE HostDies
  <2>1. /\ hostUp' = FALSE /\ rel' = [t \in Threads |-> {}]
        /\ UNCHANGED <<held, journal, main, out>>
    BY <1>10 DEF HostDies
  <2>2. \A x : (Upped(x)' <=> Upped(x)) /\ (Downed(x)' <=> Downed(x)) BY <2>1, SameSaid DEF Said
  <2>3. Pressing' = Pressing /\ MainCall' = MainCall BY <2>1 DEF Pressing, MainCall
  <2>4. main'.pc = "pressing" => MainCall' \in journal' /\ MainCall' \notin held'
    BY <2>1, <2>3 DEF HeldInv
  <2>5. \A t \in Threads : at'[t] \notin Taking => rel'[t] = {} BY <2>1
  <2>6. \A d \in Acts : Due(d)' /\ d \notin journal \cup held /\ ~Upped(d)
           => d \notin journal' \cup held' /\ ~Upped(d)'
    BY <2>1, <2>2
  <2> QED BY <1>0, <2>1, <2>2, <2>3, <2>4, <2>5, <2>6, HeldKeeps
<1> QED BY <1>1, <1>2, <1>3, <1>4, <1>5, <1>6, <1>7, <1>8, <1>9, <1>10
        DEF HostNext, StopStep, CallStep

LEMMA HeldStep ==
  ASSUME Types, Orderly, HeldInv, [Next]_vars
  PROVE  HeldInv'
<1>1. CASE UNCHANGED vars
  <2>1. /\ UNCHANGED <<held, inputs, rel, lost, journal, main, out, hostUp, at, req, stdin, queue>>
    BY <1>1 DEF vars, workerVars, ctlVars, procVars, pipeVars, loopVars, inputVars, callVars, histVars
  <2>2. \A x : (Upped(x)' => Upped(x)) /\ (Downed(x) => Downed(x)') BY <2>1 DEF Upped, Downed, Said
  <2>3. \A c \in Acts : Due(c)' => Due(c) BY <2>1 DEF Due, Unsent, Queued
  <2> QED BY <2>1, <2>2, <2>3, HeldAside
<1> QED BY <1>1, WorkerKeepsHeld, HostKeepsHeld DEF Next

(***************************************************************************)
(* The inductive invariant, and what it implies.                           *)
(***************************************************************************)
NativeIndInv == Types /\ Orderly /\ HeldInv /\ Settled /\ ValueAwaited /\ NothingLeftDown

LEMMA NativeInit == Init => NativeIndInv
<1> SUFFICES ASSUME Init PROVE NativeIndInv OBVIOUS
<1>1. Types BY TypesInit
<1>2. /\ stdin = <<>> /\ queue = <<>> /\ main = IdleMain /\ alive = FALSE /\ hostUp = TRUE
      /\ journal = {} /\ held = {} /\ stops = 0 /\ settled = 0 /\ cmd = 0 /\ worker = 0
      /\ at = [t \in Threads |-> "idle"] /\ rel = [t \in Threads |-> {}]
  BY DEF Init, WorkerInit
<1>3. Said = {}
  <2>1. \A w \in Workers : ToSet(out[w]) = {} BY DEF Init, ToSet
  <2> QED BY <2>1 DEF Said
<1>4. \A r : ~Replied(r) /\ ~Upped(r) BY <1>3 DEF Replied, Upped
<1>5. \A r : ~Queued(r) /\ ~Inside(r)
  <2>1. ~Busy BY <1>2 DEF Busy, IdleMain
  <2>2. ToSet(stdin) = {} /\ ToSet(queue) = {} BY <1>2 DEF ToSet
  <2> QED BY <2>1, <2>2 DEF Queued, Inside
<1>6. Orderly
  <2>1. InLine /\ StopReachesWork
    BY <1>2 DEF InLine, StopReachesWork, OneWork, Busy, IdleMain
  <2>2. \A r \in WorkReqs : main.req # r BY <1>2, WorkKinds, WorkerAssumption DEF IdleMain
  <2>3. Untouched BY <1>4, <1>5, <2>2 DEF Untouched
  <2>4. Once BY <1>2, <1>4, <1>5 DEF Once, Busy, IdleMain
  <2>5. Charge BY <1>2, <1>5, ThreadKinds DEF Charge, Outside
  <2> QED BY <2>1, <2>3, <2>4, <2>5 DEF Orderly
<1>7. HeldInv
  <2>1. Pressing = {} BY <1>2 DEF Pressing, IdleMain
  <2> QED BY <1>2, <1>4, <2>1 DEF HeldInv, IdleMain
<1>8. Settled /\ ValueAwaited /\ NothingLeftDown
  BY <1>2 DEF Settled, StoppedIsQuiet, ValueAwaited, NothingLeftDown
<1> QED BY <1>1, <1>6, <1>7, <1>8 DEF NativeIndInv

LEMMA NativeStep == NativeIndInv /\ [Next]_vars => NativeIndInv'
BY TypesStep, OrderStep, HeldStep, SettledStep, ValueAwaitedStep, LeftDownStep DEF NativeIndInv

(* The strengthening from which the properties follow: where a request is   *)
(* and who waits for it (Orderly), what is down, what is said of it and     *)
(* which acts may still press (HeldInv), the generations of stops and       *)
(* values (Settled), who waits for a value (ValueAwaited).                  *)
THEOREM NativeInvariance == Spec => []NativeIndInv
BY NativeInit, NativeStep, PTL DEF Spec

(* The worker's reader thread never waits for its main thread: the          *)
(* one-place channel between them has room whenever a request arrives, and  *)
(* a cancel or a stop meets the request it is meant for (read_request,      *)
(* sync_channel(1), ACTIVE), whatever was canceled, timed out, killed or    *)
(* restarted before.                                                        *)
THEOREM NativeHolds == Spec => []NativeInv
<1>1. NativeIndInv => NativeInv
  <2> SUFFICES ASSUME NativeIndInv PROVE NativeInv OBVIOUS
  <2>1. TypeOK BY DEF NativeIndInv, Types, WorkerTypes, UiaTypes, HostTypes, TypeOK
  <2>2. ReaderIsFree
    <3>1. queue = <<>> \/ Len(queue) = 1 BY DEF NativeIndInv, Orderly, InLine
    <3>2. Len(queue) = 0 \/ Len(queue) = 1 BY <3>1
    <3>3. \A n : n = 0 \/ n = 1 => n <= 1 OBVIOUS
    <3> QED BY <3>2, <3>3 DEF ReaderIsFree
  <2> QED BY <2>1, <2>2 DEF NativeIndInv, Orderly, NativeInv
<1> QED BY <1>1, NativeInvariance, PTL

(* While the host runs, every key or button that is down is in the journal  *)
(* of the worker that pressed it, in the supervisor's copy, in the hands of *)
(* a releaseInputs or in an event that read has yet to take, except those   *)
(* `lost` lists (mouse_button and send_key; read and releaseInputs).        *)
THEOREM HeldStaysKnown == Spec => []HeldIsKnown
<1>1. NativeIndInv => HeldIsKnown BY DEF NativeIndInv, HeldInv, HeldIsKnown
<1> QED BY <1>1, NativeInvariance, PTL

(* Between two requests a worker holds down nothing but what Windows would  *)
(* not release (release_all before every failed answer and after an act).   *)
THEOREM NothingStaysDown == Spec => []NothingLeftDown
<1>1. NativeIndInv => NothingLeftDown BY DEF NativeIndInv
<1> QED BY <1>1, NativeInvariance, PTL

(* A call that has returned has no request left in the pipe, the channel or *)
(* the main thread of the worker in charge: a canceled request was waited   *)
(* for, or its worker was stopped (request, cancelOnDeadline, the gate).    *)
(* No value of it begins to be set; the one that had begun when the main    *)
(* thread gave up waiting may go on (Worker.receive).                       *)
THEOREM ReturnedStaysOver == Spec => []ReturnedIsOver
<1>1. NativeIndInv => ReturnedIsOver
  <2> SUFFICES ASSUME NativeIndInv, NEW c \in Calls, at[c] = "done"
               PROVE  ~InWorker(Work(c)) /\ ~InWorker(Hello(c)) /\ ~MayBegin(c)
    BY DEF ReturnedIsOver
  <2>1. hostUp BY ThreadKinds DEF NativeIndInv, Orderly, Charge
  <2>2. ASSUME NEW r \in {Work(c), Hello(c)}, alive, cmd # 0 PROVE ~Inside(r)
    <3>1. r \in WorkReqs /\ r.of = c BY WorkKinds DEF Work, Hello, Request
    <3>2. ~Waits(r) BY <3>1 DEF Waits
    <3> QED BY <2>1, <2>2, <3>1, <3>2 DEF NativeIndInv, Orderly, Charge, Awaited
  <2>3. ~InWorker(Work(c)) /\ ~InWorker(Hello(c)) BY <2>2 DEF InWorker, Inside, Queued, Busy
  <2>4. MayBegin(c) => main.pc = "await" /\ main.req = Work(c)
    BY DEF NativeIndInv, ValueAwaited, MayBegin, MayDispatch
  <2>5. ~MayBegin(c) BY <2>2, <2>4 DEF MayBegin, Inside, Busy
  <2> QED BY <2>3, <2>5
<1> QED BY <1>1, NativeInvariance, PTL

(* No value submitted before a stop that was answered with success is being *)
(* set afterwards, whatever clicks, stops and submissions come in between   *)
(* (semantic_settling, Worker::new).                                        *)
THEOREM StoppedStaysQuiet == Spec => []StoppedIsQuiet
<1>1. NativeIndInv => StoppedIsQuiet BY DEF NativeIndInv, Settled
<1> QED BY <1>1, NativeInvariance, PTL
===============================================================================
