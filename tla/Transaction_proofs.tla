-------------------------- MODULE Transaction_proofs --------------------------
(***************************************************************************)
(* Theorems about Transaction, for any number of devices and edits, and    *)
(* any number of lost connections, restarts and failed downloads.          *)
(***************************************************************************)
EXTENDS Transaction, OrderedFilter_proofs, SequenceTheorems, TLAPS

-----------------------------------------------------------------------------
\* The inductive invariant

\* What answers a request; "ended" is sent to everybody else.
Responses == Answers \ {"ended"}

\* The task of a device and the edit inside the lock of the object belong together.
TaskOf(d) ==
    /\ phase[d] = "idle" <=> current[d] = NoEdit
    /\ current[d] # NoEdit => Owner[current[d]] = d /\ edit[current[d]] = "open"
    /\ ~connected[d] => phase[d] \in {"idle", "lost"} /\ uplink[d] = "none"
OpenIsCurrent == \A e \in Edits : edit[e] = "open" => current[Owner[e]] = e

\* A device has at most one request under way, to the mediator or answered, and it
\* is the one that its task waits for.
RequestOf(d) ==
    /\ uplink[d] = "begin" => phase[d] = "begin"
    /\ uplink[d] = "reflect" => phase[d] = "reflect"
    /\ uplink[d] = "commit" => phase[d] \in {"commit", "void"}
ResponseAt(d, i) ==
    /\ uplink[d] = "none" /\ Accepts(d, inbox[d][i].type)
    /\ \A j \in DOMAIN inbox[d] : inbox[d][j].type \in Responses => j = i
OneResponse(d) ==
    \A i \in DOMAIN inbox[d] : inbox[d][i].type \in Responses => ResponseAt(d, i)

\* The lock is granted with the answer of BEGIN and held until the commit.
Granting(d) == \E i \in DOMAIN inbox[d] : inbox[d][i].type = "begin_ack"
LockOf(d) ==
    phase[d] \in {"upload", "reflect"} \/ uplink[d] = "commit" \/ Granting(d) => holder = d

\* No edit of another device is on its way behind the grant of the lock.
GrantIsLast(d) ==
    \A i, j \in DOMAIN inbox[d] :
        inbox[d][i].type = "begin_ack" /\ inbox[d][j].type = "reflected" => j < i

LockPart(d) == TaskOf(d) /\ RequestOf(d) /\ OneResponse(d) /\ LockOf(d) /\ GrantIsLast(d)
LockInv == OpenIsCurrent /\ \A d \in Devices : LockPart(d)

\* Where an edit stands in the log of the mediator, and what its device knows.
LogOf(e) ==
    /\ IsCommitted(e) =>
          \/ edit[e] \in {"success", "rejected"}
          \/ /\ edit[e] = "open" /\ phase[Owner[e]] \in {"commit", "lost"}
             /\ uplink[Owner[e]] = "none"
    /\ e \in pending =>
          /\ edit[e] = "open" /\ holder = Owner[e] /\ ~IsCommitted(e)
          /\ phase[Owner[e]] \in {"reflect", "commit"}
    /\ edit[e] = "success" => IsCommitted(e)
TransactionOf(d) ==
    /\ phase[d] = "commit" /\ uplink[d] = "commit" => pending = {current[d]}
    /\ \A i \in DOMAIN inbox[d] :
          /\ inbox[d][i].type = "reflect_ack" => pending = {current[d]}
          /\ inbox[d][i].type = "commit_ack" /\ phase[d] = "commit" => IsCommitted(current[d])
CommittedOnce == \A i, j \in DOMAIN committed : committed[i] = committed[j] => i = j

LogPart(d) == TransactionOf(d) /\ \A e \in Edits : Owner[e] = d => LogOf(e)
LogInv == CommittedOnce /\ \A d \in Devices : LogPart(d)

\* Only what is committed reaches the other devices.
ArrivalsOf(d) ==
    /\ \A i \in DOMAIN inbox[d] : inbox[d][i].type = "reflected" => IsCommitted(inbox[d][i].edit)
    /\ \A e \in unacked[d] \cup flight[d] : IsCommitted(e)
    /\ value[d] # NoEdit => IsCommitted(value[d])

\* A device shows an edit or a later one, or the edit is on its way to it: the
\* mediator reflects it again until it is acknowledged, or it is being downloaded.
Shows(d, e) == value[d] # NoEdit /\ Position(e) <= Position(value[d])
UnderWay(d, e) ==
    \/ e \in unacked[d] /\ \E i \in DOMAIN inbox[d] : inbox[d][i] = Reflected(e)
    \/ e \in flight[d]
    \/ Owner[e] = d /\ edit[e] \in {"open", "rejected"}
UpToDate(d) ==
    d \notin overtaken \cup missed =>
        \A e \in Edits : IsCommitted(e) => UnderWay(d, e) \/ Shows(d, e)

CopyInv == \A d \in Devices : ArrivalsOf(d) /\ UpToDate(d)

-----------------------------------------------------------------------------
\* Type correctness

\* The frames that the mediator sends.
LEMMA FramesTyped ==
    /\ \A e \in Edits : Reflected(e) \in Frames
    /\ \A type \in Answers : Signal(type) \in Frames
BY DEF Reflected, Signal, Frames

\* Types, a group of variables at a time.
LEMMA TypeInit == Init => TypeOK
BY TransactionAssumption DEF Init, TypeOK, TaskTypes, CopyTypes, ArrivalTypes, WireTypes,
   MediatorTypes, BoundTypes, Phases, NotRunning

\* The edits, their tasks and requests keep their types.
LEMMA TaskTyped == ASSUME TypeOK, Next PROVE TaskTypes'
<1> USE TransactionAssumption DEF TypeOK, TaskTypes
<1>1. ASSUME NEW e \in Edits, Schedule(e) \/ Process(e) \/ RunWithin(e) PROVE TaskTypes'
  <2>1. ASSUME NEW p \in Phases, Lock(e, p) PROVE TaskTypes'
    BY <2>1 DEF Lock, CopyTypes
  <2> QED
    BY <1>1, <2>1 DEF Schedule, Process, RunWithin, task, Phases, NotRunning, Reading
<1>2. ASSUME NEW d \in Devices, Begin(d) \/ Uploaded(d) PROVE TaskTypes'
  BY <1>2 DEF Begin, Uploaded, Goto, Phases, Reading
<1>3. ASSUME NEW d \in Devices, Reconnect(d) \/ Aborted(d) PROVE TaskTypes'
  BY <1>3 DEF Reconnect, Aborted, Settle, task, Phases, NotRunning
<1>4. ASSUME NEW d \in Devices, Read(d) PROVE TaskTypes'
  <2>1. CASE UNCHANGED task
    BY <2>1 DEF task
  <2>2. ASSUME NEW type \in Answers, ReadAnswer(d, type) PROVE TaskTypes'
    BY <2>2 DEF ReadAnswer, Granted, Retry, Goto, Settle, Phases, NotRunning, Reading
  <2>3. UNCHANGED task \/ \E type \in Answers : ReadAnswer(d, type)
    <3>1. Head(inbox[d]) \in Frames
      BY <1>4 DEF Read, WireTypes
    <3> QED
    BY <1>4, <3>1 DEF Read, Frames, ReadReflected, Ignore
  <2> QED
    BY <2>1, <2>2, <2>3
<1>5. ASSUME NEW d \in Devices, Disconnect(d) PROVE TaskTypes'
  BY <1>5 DEF Disconnect, Goto, Settle, Phases, NotRunning
<1>6. ASSUME NEW d \in Devices, Restart(d) PROVE TaskTypes'
  BY <1>6 DEF Restart, Settle, Phases, NotRunning, task
<1>7. ASSUME NEW d \in Devices, Mediate(d) PROVE TaskTypes'
  BY <1>7 DEF Mediate, task
<1>8. ASSUME NEW d \in Devices, NEW e \in Edits, Downloaded(d, e) \/ DownloadFailed(d, e)
      PROVE  TaskTypes'
  BY <1>8 DEF Downloaded, DownloadFailed, Landed, task
<1> QED
  BY <1>1, <1>2, <1>3, <1>4, <1>5, <1>6, <1>7, <1>8 DEF Next

\* So do the copies of the object.
LEMMA CopyTyped == ASSUME TypeOK, Next PROVE CopyTypes'
<1> USE TransactionAssumption DEF TypeOK, CopyTypes
<1>1. ASSUME NEW d \in Devices, NEW e \in Edits \cup {NoEdit}, Apply(d, e)
      PROVE  CopyTypes' \/ missed' # missed
  BY <1>1 DEF Apply
<1>2. ASSUME NEW d \in Devices, Read(d) PROVE CopyTypes'
  <2>1. missed' = missed
    BY <1>2 DEF Read, ReadReflected, ReadAnswer, Ignore, arrivals
  <2>2. UNCHANGED copy \/ \E e \in Edits \cup {NoEdit} : Apply(d, e)
    <3>1. Head(inbox[d]) \in Frames /\ current[d] \in Edits \cup {NoEdit}
      BY <1>2 DEF Read, WireTypes, TaskTypes
    <3> QED
      BY <1>2, <3>1 DEF Read, Frames, ReadReflected, ReadAnswer, Ignore
  <2> QED
    BY <1>1, <2>1, <2>2 DEF copy
<1>3. ASSUME NEW d \in Devices, NEW e \in Edits, Downloaded(d, e) \/ DownloadFailed(d, e)
      PROVE  CopyTypes'
  BY <1>3 DEF Downloaded, DownloadFailed, Apply, copy
<1>4. ASSUME NEW d \in Devices, Disconnect(d) \/ Restart(d) PROVE CopyTypes'
  BY <1>4 DEF Disconnect, Restart, copy
<1>5. ASSUME UNCHANGED <<copy, missed>> PROVE CopyTypes'
  BY <1>5 DEF copy
<1>6. ASSUME NEW d \in Devices,
             Begin(d) \/ Uploaded(d) \/ Mediate(d) \/ Reconnect(d) \/ Aborted(d)
      PROVE  CopyTypes'
  BY <1>5, <1>6 DEF Begin, Uploaded, Mediate, Reconnect, Aborted, arrivals
<1>7. ASSUME NEW e \in Edits, Schedule(e) \/ Process(e) \/ RunWithin(e) PROVE CopyTypes'
  BY <1>5, <1>7 DEF Schedule, Process, RunWithin, arrivals
<1> QED
  BY <1>2, <1>3, <1>4, <1>6, <1>7 DEF Next

\* So do the downloads and the counters.
LEMMA ArrivalsTyped == ASSUME TypeOK, Next PROVE ArrivalTypes' /\ BoundTypes'
<1> USE TransactionAssumption DEF TypeOK, ArrivalTypes, BoundTypes
<1>1. ASSUME NEW d \in Devices, Read(d) PROVE ArrivalTypes' /\ BoundTypes'
  BY <1>1 DEF Read, ReadReflected, ReadAnswer, Ignore, arrivals
<1>2. ASSUME NEW d \in Devices, NEW e \in Edits, Downloaded(d, e) \/ DownloadFailed(d, e)
      PROVE  ArrivalTypes' /\ BoundTypes'
  BY <1>2 DEF Downloaded, DownloadFailed, Landed
<1>3. ASSUME NEW d \in Devices, Disconnect(d) \/ Restart(d) PROVE ArrivalTypes' /\ BoundTypes'
  BY <1>3 DEF Disconnect, Restart, Drop
<1>4. ASSUME NEW d \in Devices,
             Begin(d) \/ Uploaded(d) \/ Mediate(d) \/ Reconnect(d) \/ Aborted(d)
      PROVE  ArrivalTypes' /\ BoundTypes'
  BY <1>4 DEF Begin, Uploaded, Mediate, Reconnect, Aborted, arrivals
<1>5. ASSUME NEW e \in Edits, Schedule(e) \/ Process(e) \/ RunWithin(e)
      PROVE  ArrivalTypes' /\ BoundTypes'
  BY <1>5 DEF Schedule, Process, RunWithin, arrivals
<1> QED
  BY <1>1, <1>2, <1>3, <1>4, <1>5 DEF Next

\* What MediatorCommit and Drop append, and what Drop leaves.
LEMMA EndedForTyped ==
    ASSUME NEW x, NEW d
    PROVE  /\ EndedFor(x, d) \in Seq(Frames) /\ Len(EndedFor(x, d)) \in 0..1
           /\ \A i \in DOMAIN EndedFor(x, d) : EndedFor(x, d)[i] = Signal("ended")
BY FramesTyped DEF EndedFor, Answers

\* What is reflected again is a sequence of frames.
LEMMA RedeliveredTyped ==
    ASSUME TypeOK, NEW d \in Devices, NEW again \in Redelivered(d)
    PROVE  /\ again \in Seq(Frames)
           /\ \A i \in DOMAIN again : \E e \in unacked[d] : again[i] = Reflected(e)
           /\ \A e \in unacked[d] : IsCommitted(e) => \E i \in DOMAIN again : again[i] = Reflected(e)
<1>1. committed \in Seq(Edits)
  BY DEF TypeOK, MediatorTypes
<1>2. PICK kept \in Filtered(committed, unacked[d]) : again = [i \in DOMAIN kept |-> Reflected(kept[i])]
  BY DEF Redelivered
<1>3. /\ kept \in Seq(Edits)
      /\ \A j \in DOMAIN kept : kept[j] \in unacked[d]
      /\ \A i \in DOMAIN committed : committed[i] \in unacked[d] => \E j \in DOMAIN kept : kept[j] = committed[i]
  BY <1>1, FilteredElements
<1> QED
  BY <1>2, <1>3, FramesTyped DEF IsCommitted

\* The connections keep their types.
LEMMA WiresTyped == ASSUME TypeOK, Next PROVE WireTypes'
<1> USE TransactionAssumption DEF TypeOK, WireTypes
<1>1. ASSUME NEW d \in Devices, Read(d) PROVE WireTypes'
  <2>1. connected' = connected /\ inbox' \in [Devices -> Seq(Frames)]
    BY <1>1 DEF Read
  <2>2. unacked' \in [Devices -> SUBSET Edits]
    <3>1. UNCHANGED unacked \/ \E e : Acknowledge(d, e)
      BY <1>1 DEF Read, ReadReflected, ReadAnswer, Ignore
    <3>2. ASSUME NEW e, Acknowledge(d, e) PROVE unacked' \in [Devices -> SUBSET Edits]
      BY <3>2 DEF Acknowledge
    <3> QED
      BY <3>1, <3>2
  <2>3. uplink' = uplink \/ Send(d, "begin") \/ Send(d, "commit")
    BY <1>1 DEF Read, ReadReflected, ReadAnswer, Ignore, Granted, Retry
  <2>4. uplink' \in [Devices -> {"none", "begin", "reflect", "commit"}]
    BY <2>3 DEF Send
  <2> QED
    BY <2>1, <2>2, <2>4
<1>2. ASSUME NEW d \in Devices, NEW e \in Edits, Downloaded(d, e) \/ DownloadFailed(d, e)
      PROVE  WireTypes'
  <2>1. UNCHANGED <<uplink, inbox, connected>> /\ (UNCHANGED unacked \/ Acknowledge(d, e))
    BY <1>2 DEF Downloaded, DownloadFailed, Landed
  <2> QED
    BY <2>1 DEF Acknowledge
<1>3. ASSUME NEW d \in Devices, Disconnect(d) \/ Restart(d) PROVE WireTypes'
  <2>1. Drop(d)
    BY <1>3 DEF Disconnect, Restart
  <2>2. PICK again \in Redelivered(d) :
           inbox' = [x \in Devices |->
              IF x = d THEN again
              ELSE IF holder = d THEN inbox[x] \o EndedFor(x, d) ELSE inbox[x]]
    BY <2>1 DEF Drop
  <2>3. inbox' \in [Devices -> Seq(Frames)]
    BY <2>2, RedeliveredTyped, EndedForTyped
  <2> QED
    BY <2>1, <2>3 DEF Drop, Send
<1>4. ASSUME NEW d \in Devices, MediatorBegin(d) \/ MediatorReflect(d), Mediate(d) PROVE WireTypes'
  <2>1. \E type \in Answers : Answer(d, type)
    BY <1>4 DEF MediatorBegin, MediatorReflect, Answers
  <2>2. inbox' \in [Devices -> Seq(Frames)]
    BY <2>1, FramesTyped DEF Answer
  <2>3. Send(d, "none") /\ UNCHANGED unacked /\ UNCHANGED connected
    BY <1>4 DEF Mediate, MediatorBegin, MediatorReflect
  <2> QED
    BY <2>2, <2>3 DEF Send
<1>5. ASSUME NEW d \in Devices, MediatorCommit(d), Mediate(d) PROVE WireTypes'
  <2> DEFINE news == IF pending = {} THEN <<>> ELSE <<CHOOSE e \in pending : TRUE>>
  <2>1. inbox' = [x \in Devices |->
            IF x = d THEN Append(inbox[d], Signal("commit_ack"))
            ELSE inbox[x] \o [i \in DOMAIN news |-> Reflected(news[i])] \o EndedFor(x, d)]
    BY <1>5 DEF MediatorCommit
  <2>2. news \in Seq(Edits)
    BY DEF MediatorTypes
  <2> HIDE DEF news
  <2>3. [i \in DOMAIN news |-> Reflected(news[i])] \in Seq(Frames)
    <3>1. Len(news) \in Nat /\ DOMAIN news = 1..Len(news) /\ \A i \in 1..Len(news) : news[i] \in Edits
      BY <2>2
    <3>2. [i \in 1..Len(news) |-> Reflected(news[i])] \in [1..Len(news) -> Frames]
      BY <3>1, FramesTyped
    <3> QED
      BY <3>1, <3>2
  <2>4. inbox' \in [Devices -> Seq(Frames)]
    <3> DEFINE sent == [i \in DOMAIN news |-> Reflected(news[i])]
    <3>1. sent \in Seq(Frames)
      BY <2>3
    <3>2. inbox' = [x \in Devices |->
              IF x = d THEN Append(inbox[d], Signal("commit_ack"))
              ELSE inbox[x] \o sent \o EndedFor(x, d)]
      BY <2>1
    <3> HIDE DEF sent
    <3>3. ASSUME NEW x \in Devices PROVE inbox[x] \o sent \o EndedFor(x, d) \in Seq(Frames)
      <4>1. EndedFor(x, d) \in Seq(Frames) /\ inbox[x] \in Seq(Frames)
        BY EndedForTyped
      <4> QED
        BY <3>1, <4>1
    <3>4. Append(inbox[d], Signal("commit_ack")) \in Seq(Frames)
      BY FramesTyped DEF Answers
    <3> QED
      BY <3>2, <3>3, <3>4
  <2>5. unacked' \in [Devices -> SUBSET Edits]
    BY <1>5 DEF MediatorCommit, MediatorTypes
  <2> QED
    BY <1>5, <2>4, <2>5 DEF MediatorCommit, Mediate, Send
<1>6. ASSUME NEW d \in Devices, Begin(d) \/ Uploaded(d) \/ Reconnect(d) \/ Aborted(d)
      PROVE  WireTypes'
  BY <1>6 DEF Begin, Uploaded, Send, Reconnect, Aborted, wires
<1>7. ASSUME NEW e \in Edits, Schedule(e) \/ Process(e) \/ RunWithin(e) PROVE WireTypes'
  BY <1>7 DEF Schedule, Process, RunWithin, Send, wires
<1> QED
  BY <1>1, <1>2, <1>3, <1>4, <1>5, <1>6, <1>7 DEF Next, Mediate

\* The mediator reflects the edit of a running task only, as LockInv tells.
LEMMA MediatorTyped == ASSUME TypeOK, LockInv, Next PROVE MediatorTypes'
<1> USE TransactionAssumption DEF TypeOK, MediatorTypes
<1>1. ASSUME NEW d \in Devices, Mediate(d), MediatorBegin(d) PROVE MediatorTypes'
  BY <1>1 DEF MediatorBegin
<1>2. ASSUME NEW d \in Devices, Mediate(d), MediatorReflect(d) PROVE MediatorTypes'
  BY <1>2 DEF MediatorReflect, LockInv, LockPart, RequestOf, TaskOf, TaskTypes
<1>3. ASSUME NEW d \in Devices, Mediate(d), MediatorCommit(d) PROVE MediatorTypes'
  BY <1>3 DEF MediatorCommit
<1>4. ASSUME NEW d \in Devices, Disconnect(d) \/ Restart(d) PROVE MediatorTypes'
  BY <1>4 DEF Disconnect, Restart, Drop
<1>5. ASSUME UNCHANGED mediator PROVE MediatorTypes'
  BY <1>5 DEF mediator
<1>6. ASSUME NEW d \in Devices,
             Begin(d) \/ Uploaded(d) \/ Read(d) \/ Reconnect(d) \/ Aborted(d)
      PROVE  MediatorTypes'
  BY <1>5, <1>6 DEF Begin, Uploaded, Read, Reconnect, Aborted
<1>7. ASSUME NEW d \in Devices, NEW e \in Edits, Downloaded(d, e) \/ DownloadFailed(d, e)
      PROVE  MediatorTypes'
  BY <1>5, <1>7 DEF Downloaded, DownloadFailed, Landed
<1>8. ASSUME NEW e \in Edits, Schedule(e) \/ Process(e) \/ RunWithin(e) PROVE MediatorTypes'
  BY <1>5, <1>8 DEF Schedule, Process, RunWithin
<1> QED
  BY <1>1, <1>2, <1>3, <1>4, <1>6, <1>7, <1>8 DEF Next, Mediate

\* Types are kept, given who holds the lock.
LEMMA TypeStep == ASSUME TypeOK, LockInv, Next PROVE TypeOK'
BY TaskTyped, CopyTyped, ArrivalsTyped, WiresTyped, MediatorTyped DEF TypeOK

-----------------------------------------------------------------------------
\* The lock of the group

\* What Read does, frame by frame.
LEMMA ReadCases ==
    ASSUME TypeOK, NEW d \in Devices, Read(d)
    PROVE  \/ \E e \in Edits : Head(inbox[d]) = Reflected(e) /\ ReadReflected(d, e)
           \/ \E type \in Answers :
                 /\ Head(inbox[d]) = Signal(type)
                 /\ ReadAnswer(d, type) \/ Ignore(d, type)
<1>1. Head(inbox[d]) \in Frames
  BY DEF Read, TypeOK, WireTypes
<1>2. CASE Head(inbox[d]).type = "reflected"
  BY <1>1, <1>2 DEF Read, Frames, Reflected, Answers
<1>3. CASE Head(inbox[d]).type # "reflected"
  BY <1>1, <1>3 DEF Read, Frames, Signal
<1> QED
  BY <1>2, <1>3

NoResponse(d) == \A i \in DOMAIN inbox[d] : inbox[d][i].type \notin Responses

\* A task that has sent no request, or whose request the mediator has not read.
LEMMA NotAnswered ==
    ASSUME NEW d \in Devices, LockPart(d),
           phase[d] \notin {"begin", "reflect", "commit", "void"} \/ uplink[d] # "none"
    PROVE  NoResponse(d)
BY DEF LockPart, OneResponse, ResponseAt, NoResponse, Accepts, Responses

\* With no answer on its way, the part of a device is about its task alone.
LEMMA LockWithoutResponse ==
    ASSUME NEW d \in Devices, TaskOf(d)', RequestOf(d)', NoResponse(d)',
           phase'[d] \in Executing \/ uplink'[d] = "commit" => holder' = d
    PROVE  LockPart(d)'
BY DEF LockPart, OneResponse, NoResponse, LockOf, Granting, GrantIsLast, Responses, Answers,
   Executing

\* The part of a device that a step leaves alone, but for a frame that is read and
\* frames that are sent to it.
Receives(x, k) ==
    \A j \in DOMAIN inbox'[x] :
        \/ j + k \in DOMAIN inbox[x] /\ inbox'[x][j] = inbox[x][j + k]
        \/ /\ inbox'[x][j].type \notin Responses
           /\ inbox'[x][j].type = "reflected" => ~Granting(x)
Undisturbed(x, k) ==
    /\ phase'[x] = phase[x] /\ current'[x] = current[x] /\ connected'[x] = connected[x]
    /\ uplink'[x] = uplink[x] /\ Receives(x, k)
    /\ \A e \in Edits : Owner[e] = x => edit'[e] = edit[e]
    /\ holder = x => holder' = x /\ pending' = pending
\* What is true of the lock at a device stays true while another one moves.
LEMMA LockKept ==
    ASSUME TypeOK, TypeOK', NEW x \in Devices, LockPart(x), NEW k \in {0, 1}, Undisturbed(x, k)
    PROVE  LockPart(x)'
<1> current[x] # NoEdit => edit'[current[x]] = edit[current[x]]
  BY DEF Undisturbed, LockPart, TaskOf, TypeOK, TaskTypes
<1> USE DEF Undisturbed
<1> DOMAIN inbox[x] \subseteq Nat /\ DOMAIN inbox'[x] \subseteq Nat
  BY DEF TypeOK, WireTypes
<1> USE DEF LockPart
<1>1. TaskOf(x)' /\ RequestOf(x)'
  BY DEF TaskOf, RequestOf
<1>2. OneResponse(x)'
  BY DEF OneResponse, ResponseAt, Accepts, Receives
<1>3. GrantIsLast(x)'
  BY DEF GrantIsLast, Receives, Responses, Granting, Answers
<1>4. Granting(x)' => Granting(x)
  BY DEF Receives, Granting, Responses, Answers
<1> QED
  BY <1>1, <1>2, <1>3, <1>4 DEF LockOf

\* An inbox is a sequence.
LEMMA InboxDomain ==
    ASSUME TypeOK, NEW x \in Devices
    PROVE  inbox[x] \in Seq(Frames) /\ DOMAIN inbox[x] \subseteq Nat
BY DEF TypeOK, WireTypes

\* A step that leaves the frames of a device alone, reads one or sends it some.
LEMMA ReceivesNone == ASSUME TypeOK, NEW x \in Devices, inbox'[x] = inbox[x] PROVE Receives(x, 0)
BY InboxDomain DEF Receives
\* Reading a frame takes the first one.
LEMMA ReceivesTail ==
    ASSUME TypeOK, NEW x \in Devices, inbox[x] # <<>>, inbox'[x] = Tail(inbox[x])
    PROVE  Receives(x, 1)
BY InboxDomain DEF Receives
\* Frames that answer nothing come behind the others.
LEMMA ReceivesMore ==
    ASSUME TypeOK, NEW x \in Devices, NEW more \in Seq(Frames), inbox'[x] = inbox[x] \o more,
           \A i \in DOMAIN more : more[i].type \notin Responses /\ (more[i].type = "reflected" => ~Granting(x))
    PROVE  Receives(x, 0)
<1>1. ASSUME NEW j \in DOMAIN inbox'[x], j \notin DOMAIN inbox[x]
      PROVE  \E i \in DOMAIN more : inbox'[x][j] = more[i]
  <2>1. j - Len(inbox[x]) \in DOMAIN more
    BY <1>1, InboxDomain
  <2> QED
    BY <1>1, <2>1, InboxDomain
<1>2. \A j \in DOMAIN inbox[x] : j \in Nat /\ inbox'[x][j] = inbox[x][j]
  BY InboxDomain
<1> QED
  BY <1>1, <1>2 DEF Receives

\* Frames are put behind each other in one order.
LEMMA FramesAssociate == \A a, b, c \in Seq(Frames) : (a \o b) \o c = a \o (b \o c)
BY ConcatAssociative

\* What a commit sends to the other devices.
LEMMA CommitSends ==
    ASSUME TypeOK, NEW d \in Devices, MediatorCommit(d), NEW x \in Devices, x # d
    PROVE  \E more \in Seq(Frames) :
              /\ inbox'[x] = inbox[x] \o more
              /\ \A i \in DOMAIN more : more[i] = Signal("ended") \/ \E e \in pending : more[i] = Reflected(e)
              /\ pending # {} => more[1] = Reflected(CHOOSE e \in pending : TRUE) /\ 1 \in DOMAIN more
<1> DEFINE chosen == CHOOSE e \in pending : TRUE
           news == IF pending = {} THEN <<>> ELSE <<chosen>>
           sent == [i \in DOMAIN news |-> Reflected(news[i])]
<1>1. inbox'[x] = inbox[x] \o sent \o EndedFor(x, d) /\ inbox[x] \in Seq(Frames)
  BY DEF MediatorCommit, TypeOK, WireTypes
<1>2. /\ Len(news) \in Nat /\ DOMAIN news = 1..Len(news) /\ \A i \in 1..Len(news) : news[i] \in pending
      /\ pending # {} => Len(news) = 1 /\ news[1] = chosen
  <2>1. pending # {} => chosen \in pending
    OBVIOUS
  <2> HIDE DEF chosen
  <2>2. CASE pending = {}
    <3>1. news = <<>>
      BY <2>2
    <3> HIDE DEF news
    <3> QED
      BY <2>2, <3>1
  <2>3. CASE pending # {}
    <3>1. news = <<chosen>>
      BY <2>3
    <3> HIDE DEF news
    <3> QED
      BY <2>1, <2>3, <3>1
  <2> QED
    BY <2>2, <2>3
<1> HIDE DEF news, chosen
<1>3. sent \in [1..Len(news) -> Frames]
  BY <1>2, FramesTyped DEF TypeOK, MediatorTypes
<1>4. sent \in Seq(Frames) /\ Len(sent) = Len(news) /\ DOMAIN sent = 1..Len(news)
  BY <1>2, <1>3
<1>5. EndedFor(x, d) \in Seq(Frames) /\ \A i \in DOMAIN EndedFor(x, d) : EndedFor(x, d)[i] = Signal("ended")
  BY EndedForTyped
<1>6. \A i \in DOMAIN sent : \E e \in pending : sent[i] = Reflected(e)
  BY <1>2, <1>4
<1>7. pending # {} => sent[1] = Reflected(chosen) /\ Len(sent) = 1
  BY <1>2, <1>4
<1> HIDE DEF sent
<1> DEFINE more == sent \o EndedFor(x, d)
<1>8. \A i \in DOMAIN more : \/ i \in DOMAIN sent /\ more[i] = sent[i]
                             \/ i - Len(sent) \in DOMAIN EndedFor(x, d) /\ more[i] = EndedFor(x, d)[i - Len(sent)]
  BY <1>4, <1>5
<1>9. inbox'[x] = inbox[x] \o more /\ more \in Seq(Frames)
  <2>1. inbox[x] \in Seq(Frames) /\ sent \in Seq(Frames) /\ EndedFor(x, d) \in Seq(Frames)
    BY <1>1, <1>4, <1>5
  <2>3. (inbox[x] \o sent) \o EndedFor(x, d) = inbox[x] \o (sent \o EndedFor(x, d))
    BY <2>1, FramesAssociate
  <2>2. more \in Seq(Frames)
    BY <1>4, <1>5
  <2> QED
    BY <1>1, <2>2, <2>3 DEF sent
<1>10. pending # {} => more[1] = Reflected(chosen) /\ 1 \in DOMAIN more
  BY <1>4, <1>5, <1>7
<1> HIDE DEF more
<1> QED
  BY <1>5, <1>6, <1>8, <1>9, <1>10 DEF chosen

\* Lost connections. What is left in the reflection queue holds no answer.
LEMMA DropSends ==
    ASSUME TypeOK, NEW d \in Devices, Drop(d)
    PROVE  /\ \E again \in Redelivered(d) : inbox'[d] = again
           /\ \A x \in Devices \ {d} : inbox'[x] = inbox[x] \/ inbox'[x] = inbox[x] \o EndedFor(x, d)
BY DEF Drop


\* The steps of a device, and what they do to its task.
Step(d) ==
    \/ \E e \in Edits : Owner[e] = d /\ (Schedule(e) \/ Process(e) \/ RunWithin(e))
    \/ Begin(d) \/ Uploaded(d) \/ Mediate(d) \/ Read(d)
    \/ \E e \in Edits : Downloaded(d, e) \/ DownloadFailed(d, e)
    \/ Disconnect(d) \/ Restart(d) \/ Aborted(d) \/ Reconnect(d)
\* Every step is one of a device.
LEMMA NextSteps == Next => \E d \in Devices : Step(d)
BY TransactionAssumption DEF Next, Step

Acquires(d) == \E e \in Edits : Owner[e] = d /\ \E p \in {"queued", "begin"} : Lock(e, p)
Refuses(d) ==
    \E e \in Edits :
        /\ Owner[e] = d /\ edit[e] = "new" /\ edit' = [edit EXCEPT ![e] = "rejected"]
        /\ UNCHANGED <<current, phase, base>>
Settles(d) == current[d] # NoEdit /\ \E outcome \in {"success", "aborted", "rejected"} : Settle(d, outcome)
\* Every step of a device does one of these things to its task.
LEMMA TaskCases ==
    ASSUME TypeOK, LockInv, NEW d \in Devices, Step(d)
    PROVE  \/ UNCHANGED task \/ Acquires(d) \/ Refuses(d)
           \/ (\E p \in Phases : Goto(d, p)) \/ Settles(d)
<1> USE DEF Settles, Phases, NotRunning, Reading
<1>1. CASE Read(d)
  <2>1. ASSUME NEW type \in Answers, ReadAnswer(d, type)
        PROVE  (\E p \in Phases : Goto(d, p)) \/ Settles(d)
    BY <2>1 DEF ReadAnswer, Granted, Retry, Accepts, LockInv, LockPart, TaskOf
  <2> QED
    BY <1>1, <2>1, ReadCases DEF ReadReflected, Ignore
<1>2. ASSUME NEW e \in Edits, Downloaded(d, e) \/ DownloadFailed(d, e) PROVE UNCHANGED task
  BY <1>2 DEF Downloaded, DownloadFailed, Landed
<1>3. CASE \/ Begin(d) \/ Uploaded(d) \/ Mediate(d) \/ Disconnect(d) \/ Restart(d)
           \/ Reconnect(d) \/ Aborted(d)
  BY <1>3, TransactionAssumption
     DEF Begin, Uploaded, Mediate, Disconnect, Restart, Reconnect, Aborted
<1>4. ASSUME NEW e \in Edits, Owner[e] = d, Schedule(e) \/ Process(e) \/ RunWithin(e)
      PROVE  UNCHANGED task \/ Acquires(d) \/ Refuses(d)
  BY <1>4 DEF Schedule, Process, RunWithin, Acquires, Refuses
<1> QED
  BY <1>1, <1>2, <1>3, <1>4 DEF Step

\* A step of one device leaves the tasks of the others alone, and the transaction
\* of the device that holds the lock.
LEMMA Elsewhere ==
    ASSUME TypeOK, LockInv, NEW d \in Devices, Step(d), NEW x \in Devices, x # d
    PROVE  Undisturbed(x, 0)
<1>1. /\ phase'[x] = phase[x] /\ current'[x] = current[x]
      /\ \A e \in Edits : Owner[e] = x => edit'[e] = edit[e]
  <2>1. CASE Acquires(d) \/ Refuses(d)
    BY <2>1 DEF Acquires, Refuses, Lock, TypeOK, TaskTypes
  <2>2. CASE Settles(d)
    BY <2>2 DEF Settles, Settle, TypeOK, TaskTypes, LockInv, LockPart, TaskOf
  <2>3. CASE \E p \in Phases : Goto(d, p)
    BY <2>3 DEF Goto, TypeOK, TaskTypes
  <2> QED
    BY <2>1, <2>2, <2>3, TaskCases DEF task
<1>2. connected'[x] = connected[x]
  BY DEF Step, Schedule, Process, RunWithin, Aborted, Begin, Uploaded, Mediate, Read, Downloaded, DownloadFailed, Landed,
     Disconnect, Restart,
     Drop, Reconnect, TypeOK, WireTypes
<1>3. uplink'[x] = uplink[x]
  <2>1. UNCHANGED uplink \/ \E type \in {"none", "begin", "reflect", "commit"} : Send(d, type)
    <3>1. CASE Read(d)
      BY <3>1, ReadCases DEF ReadReflected, Ignore, ReadAnswer, Granted, Retry
    <3> QED
      BY <3>1 DEF Step, Schedule, Process, RunWithin, Aborted, Begin, Uploaded, Mediate, MediatorBegin, MediatorReflect,
         MediatorCommit,
         Downloaded, DownloadFailed, Landed, Disconnect, Restart, Drop, Reconnect, wires
  <2> QED
    BY <2>1 DEF Send, TypeOK, WireTypes
<1>4. CASE Mediate(d) /\ MediatorCommit(d)
  <2>1. holder = d /\ ~Granting(x)
    BY <1>4 DEF MediatorCommit, LockInv, LockPart, LockOf
  <2>2. PICK more \in Seq(Frames) :
           /\ inbox'[x] = inbox[x] \o more
           /\ \A i \in DOMAIN more : more[i] = Signal("ended") \/ \E e \in pending : more[i] = Reflected(e)
    BY <1>4, CommitSends
  <2>3. \A i \in DOMAIN more : more[i].type \notin Responses
    BY <2>2 DEF Signal, Reflected, Responses, Answers
  <2>4. Receives(x, 0)
    BY <2>1, <2>2, <2>3, ReceivesMore
  <2> QED
    BY <1>1, <1>2, <1>3, <2>1, <2>4 DEF Undisturbed
<1>5. CASE Mediate(d) /\ (MediatorBegin(d) \/ MediatorReflect(d))
  <2>1. \E type \in Answers : Answer(d, type)
    BY <1>5 DEF MediatorBegin, MediatorReflect, Answers
  <2>2. Receives(x, 0)
    BY <2>1, ReceivesNone DEF Answer, TypeOK, WireTypes
  <2>3. holder = x => holder' = x /\ pending' = pending
    BY <1>5, TransactionAssumption DEF MediatorBegin, MediatorReflect, LockInv, LockPart,
       LockOf, RequestOf
  <2> QED
    BY <1>1, <1>2, <1>3, <2>2, <2>3 DEF Undisturbed
<1>6. CASE Disconnect(d) \/ Restart(d)
  <2>1. Drop(d)
    BY <1>6 DEF Disconnect, Restart
  <2>2. holder = x => holder' = x /\ pending' = pending
    BY <2>1 DEF Drop
  <2>3. \A i \in DOMAIN EndedFor(x, d) : EndedFor(x, d)[i].type = "ended"
    BY EndedForTyped DEF Signal
  <2>4. Receives(x, 0)
    BY <2>1, <2>3, DropSends, ReceivesNone, ReceivesMore, EndedForTyped DEF Responses
  <2> QED
    BY <1>1, <1>2, <1>3, <2>2, <2>4 DEF Undisturbed
<1>7. CASE UNCHANGED mediator /\ (UNCHANGED inbox \/ inbox' = [inbox EXCEPT ![d] = Tail(@)])
  BY <1>1, <1>2, <1>3, <1>7, ReceivesNone DEF Undisturbed, mediator, TypeOK, WireTypes
<1>8. \/ UNCHANGED mediator /\ (UNCHANGED inbox \/ inbox' = [inbox EXCEPT ![d] = Tail(@)])
      \/ Mediate(d) \/ Disconnect(d) \/ Restart(d)
  BY DEF Step, Schedule, Process, RunWithin, Aborted, Begin, Uploaded, Read, Downloaded, DownloadFailed, Landed, Reconnect, wires
<1> QED
  BY <1>4, <1>5, <1>6, <1>7, <1>8 DEF Mediate

\* The lock of the device that makes a step.
LEMMA LockScheduled ==
    ASSUME TypeOK, LockInv, NEW e \in Edits, Schedule(e) \/ Process(e) \/ RunWithin(e),
           NEW d \in Devices, Owner[e] = d
    PROVE  LockPart(d)'
<1> USE DEF LockInv
<1>1. TaskOf(d)' /\ RequestOf(d)'
  <2> USE TransactionAssumption DEF TypeOK, TaskTypes, WireTypes, LockPart, TaskOf, RequestOf
  <2>1. CASE Schedule(e)
    BY <2>1 DEF Schedule, Lock, wires
  <2>2. CASE Process(e)
    BY <2>2 DEF Process, task, wires
  <2>3. CASE RunWithin(e)
    BY <2>3 DEF RunWithin, Lock, Send
  <2> QED
    BY <2>1, <2>2, <2>3
<1>2. CASE Process(e)
  <2>1. UNCHANGED <<task, mediator, uplink, inbox, connected>>
    BY <1>2 DEF Process, wires
  <2> QED
    BY <2>1, <1>1 DEF LockPart, OneResponse, ResponseAt, Accepts, LockOf, Granting, GrantIsLast,
       task, mediator
<1>3. CASE ~Process(e)
  <2>1. NoResponse(d)'
    BY <1>3, NotAnswered DEF Schedule, RunWithin, Lock, wires, NoResponse, LockPart, TaskOf
  <2>2. phase'[d] \notin Executing /\ uplink'[d] # "commit"
    <3> USE DEF TypeOK, TaskTypes, WireTypes, LockPart, TaskOf, RequestOf, Executing
    <3>1. CASE Schedule(e)
      <4>1. phase'[d] = "queued" \/ (phase'[d] = phase[d] /\ current[d] = NoEdit)
        BY ONLY <3>1, TypeOK, d \in Devices, Owner[e] = d DEF Schedule, Lock, TypeOK, TaskTypes
      <4>2. UNCHANGED uplink /\ current[d] = NoEdit
        BY <3>1 DEF Schedule, Lock, wires
      <4> QED
        BY <4>1, <4>2
    <3>2. CASE RunWithin(e)
      BY <3>2 DEF RunWithin, Lock, Send
    <3> QED
      BY <1>3, <3>1, <3>2
  <2> QED
    BY <1>1, <2>1, <2>2, LockWithoutResponse
<1> QED
  BY <1>2, <1>3

\* A request goes out when none is under way.
LEMMA LockRequested ==
    ASSUME TypeOK, LockInv, NEW d \in Devices, Begin(d) \/ Uploaded(d) PROVE LockPart(d)'
<1> USE DEF LockInv
<1>1. TaskOf(d)' /\ RequestOf(d)'
  BY DEF Begin, Uploaded, Goto, Send, TypeOK, TaskTypes, WireTypes, LockPart, TaskOf, RequestOf
<1>2. NoResponse(d)'
  BY NotAnswered DEF Begin, Uploaded, NoResponse
<1>3. phase'[d] \in Executing \/ uplink'[d] = "commit" => holder' = d
  BY DEF Begin, Uploaded, Goto, Send, TypeOK, TaskTypes, WireTypes, mediator, LockPart, LockOf,
     Executing
<1> QED
  BY <1>1, <1>2, <1>3, LockWithoutResponse

\* The task of an edit is given up.
LEMMA LockReconnected ==
    ASSUME TypeOK, LockInv, NEW d \in Devices, Reconnect(d) \/ Aborted(d) PROVE LockPart(d)'
<1> USE DEF LockInv
<1>1. TaskOf(d)' /\ RequestOf(d)'
  BY TransactionAssumption
     DEF Reconnect, Aborted, Settle, task, wires, TypeOK, TaskTypes, WireTypes, LockPart, TaskOf,
     RequestOf
<1>2. NoResponse(d)'
  BY NotAnswered DEF Reconnect, Aborted, wires, NoResponse, LockPart, TaskOf
<1>3. phase'[d] \notin Executing /\ uplink'[d] # "commit"
  BY DEF Reconnect, Aborted, Settle, task, wires, TypeOK, TaskTypes, LockPart, TaskOf, RequestOf,
     Executing
<1> QED
  BY <1>1, <1>2, <1>3, LockWithoutResponse

\* The mediator. Its answer is the only one, because the request was unanswered.
LEMMA LockAnswered ==
    ASSUME TypeOK, LockInv, NEW d \in Devices, Mediate(d), MediatorBegin(d) \/ MediatorReflect(d)
    PROVE  LockPart(d)'
<1> USE DEF LockInv
<1>1. PICK type \in {"begin_ack", "rejected", "reflect_ack"} :
         /\ Answer(d, type)
         /\ type = "begin_ack" => holder' = d
         /\ IF type = "reflect_ack" THEN uplink[d] = "reflect" ELSE uplink[d] = "begin"
  BY DEF MediatorBegin, MediatorReflect
<1>2. UNCHANGED task /\ UNCHANGED connected /\ Send(d, "none")
  BY DEF Mediate, MediatorBegin, MediatorReflect
<1>3. TaskOf(d)' /\ RequestOf(d)'
  BY <1>2 DEF task, Send, TypeOK, WireTypes, LockPart, TaskOf, RequestOf
<1>4. NoResponse(d)
  BY NotAnswered DEF MediatorBegin, MediatorReflect
<1>5. inbox'[d] = Append(inbox[d], Signal(type)) /\ inbox[d] \in Seq(Frames)
  BY <1>1 DEF Answer, TypeOK, WireTypes
<1>6. \A j \in DOMAIN inbox'[d] : inbox'[d][j].type \in Responses => j = Len(inbox[d]) + 1
  BY <1>4, <1>5 DEF NoResponse
<1>7. Signal(type).type = type
  BY DEF Signal
<1>8. OneResponse(d)'
  <2>1. Accepts(d, type)'
    BY <1>1, <1>2 DEF task, LockPart, RequestOf, Accepts
  <2> QED
    BY <1>2, <1>5, <1>6, <1>7, <2>1 DEF OneResponse, ResponseAt, Send, TypeOK, WireTypes
<1>9. GrantIsLast(d)'
  BY <1>1, <1>5, <1>6, <1>7 DEF GrantIsLast, Responses, Answers
<1>10. LockOf(d)'
  <2>1. holder = d => holder' = d
    BY TransactionAssumption DEF MediatorBegin, MediatorReflect
  <2>2. Granting(d)' => type = "begin_ack"
    BY <1>5, <1>6, <1>7 DEF Granting, Responses, Answers
  <2> QED
    BY <1>1, <1>2, <2>1, <2>2 DEF LockOf, LockPart, task, Send, TypeOK, WireTypes
<1> QED
  BY <1>3, <1>8, <1>9, <1>10 DEF LockPart

\* A commit frees the lock of its holder.
LEMMA LockFreed ==
    ASSUME TypeOK, LockInv, NEW d \in Devices, Mediate(d), MediatorCommit(d)
    PROVE  LockPart(d)'
<1> USE DEF LockInv
<1>1. UNCHANGED task /\ UNCHANGED connected /\ Send(d, "none") /\ uplink[d] = "commit"
  BY DEF Mediate, MediatorCommit
<1>2. inbox[d] \in Seq(Frames) /\ inbox'[d] = Append(inbox[d], Signal("commit_ack"))
  BY DEF MediatorCommit, TypeOK, WireTypes
<1>3. TaskOf(d)' /\ RequestOf(d)'
  BY <1>1 DEF task, Send, TypeOK, WireTypes, LockPart, TaskOf, RequestOf
<1>4. \A j \in DOMAIN inbox'[d] : inbox'[d][j].type \in Responses => j = Len(inbox[d]) + 1
  BY <1>1, <1>2, NotAnswered DEF NoResponse
<1>5. Signal("commit_ack").type = "commit_ack"
  BY DEF Signal
<1>6. phase'[d] \in {"commit", "void"} /\ uplink'[d] = "none"
  BY <1>1 DEF task, Send, TypeOK, WireTypes, LockPart, RequestOf
<1>7. OneResponse(d)'
  BY <1>2, <1>4, <1>5, <1>6 DEF OneResponse, ResponseAt, Accepts
<1>8. ~Granting(d)'
  BY <1>2, <1>4, <1>5 DEF Granting, Responses, Answers
<1> QED
  BY <1>3, <1>6, <1>7, <1>8 DEF LockPart, LockOf, GrantIsLast, Granting

\* A lost connection frees the lock of its holder.
LEMMA LockDropped ==
    ASSUME TypeOK, LockInv, NEW d \in Devices, Disconnect(d) \/ Restart(d)
    PROVE  LockPart(d)'
<1> USE DEF LockInv
<1>1. Drop(d)
  BY DEF Disconnect, Restart
<1>2. uplink'[d] = "none"
  BY <1>1 DEF Drop, Send, TypeOK, WireTypes
<1>3. TaskOf(d)' /\ phase'[d] \in {"idle", "lost"}
  BY <1>2, TransactionAssumption DEF Disconnect, Restart, Goto, Settle, task, TypeOK, TaskTypes,
     LockPart, TaskOf
<1>4. NoResponse(d)'
  BY <1>1, DropSends, RedeliveredTyped DEF NoResponse, Reflected, Responses, Answers
<1> QED
  BY <1>2, <1>3, <1>4, LockWithoutResponse DEF RequestOf, Executing

\* A download changes nothing of the lock.
LEMMA LockLanded ==
    ASSUME TypeOK, TypeOK', LockInv, NEW d \in Devices, NEW e \in Edits, Downloaded(d, e) \/ DownloadFailed(d, e)
    PROVE  LockPart(d)'
<1>1. UNCHANGED <<task, mediator, uplink, inbox, connected>>
  BY DEF Downloaded, DownloadFailed, Landed
<1> QED
  BY <1>1, LockKept, ReceivesNone DEF Undisturbed, LockInv, task, mediator

\* A frame is read. The answer of the mediator was the only one, and "ended" is
\* waited for only when there is none.
LEMMA AnswerRead ==
    ASSUME TypeOK, LockInv, NEW d \in Devices, Read(d), NEW type \in Answers,
           Head(inbox[d]) = Signal(type), ReadAnswer(d, type)
    PROVE  uplink[d] = "none" /\ NoResponse(d)'
<1>1. inbox'[d] = Tail(inbox[d]) /\ inbox[d] # <<>> /\ inbox[d] \in Seq(Frames)
  BY DEF Read, TypeOK, WireTypes
<1>2. uplink[d] = "none" /\ \A i \in DOMAIN inbox[d] : inbox[d][i].type \in Responses => i = 1
  BY <1>1 DEF LockInv, LockPart, OneResponse, ResponseAt, Accepts, RequestOf, Responses, Signal,
     TypeOK, WireTypes, ReadAnswer
<1> QED
  BY <1>1, <1>2 DEF NoResponse

\* Reading an answer moves the task to where the lock lets it.
LEMMA LockRead == ASSUME TypeOK, TypeOK', LockInv, NEW d \in Devices, Read(d) PROVE LockPart(d)'
<1> USE DEF LockInv
<1>1. /\ inbox'[d] = Tail(inbox[d]) /\ inbox[d] # <<>> /\ inbox[d] \in Seq(Frames)
      /\ UNCHANGED connected /\ UNCHANGED mediator
  BY DEF Read, TypeOK, WireTypes
<1>2. CASE UNCHANGED task /\ UNCHANGED uplink
  BY <1>1, <1>2, LockKept, ReceivesTail DEF Undisturbed, task, mediator
<1>3. ASSUME NEW type \in Answers, Head(inbox[d]) = Signal(type), ReadAnswer(d, type)
      PROVE  LockPart(d)'
  <2>1. uplink[d] = "none" /\ NoResponse(d)'
    BY <1>3, AnswerRead
  <2>2. type = "begin_ack" => holder = d
    BY <1>1, <1>3 DEF LockPart, LockOf, Granting, Signal
  <2>3. TaskOf(d)' /\ RequestOf(d)' /\ (phase'[d] \in Executing \/ uplink'[d] = "commit" => holder' = d)
    <3> USE <1>1, <1>3, <2>1, TransactionAssumption
        DEF TaskOf, RequestOf, LockPart, TypeOK, TaskTypes, WireTypes, mediator, Accepts, Executing
    <3>1. CASE type = "begin_ack"
      BY <2>2, <3>1 DEF ReadAnswer, Granted, Goto, Send
    <3>2. CASE type = "rejected"
      BY <3>2 DEF ReadAnswer, Goto
    <3>3. CASE type = "ended"
      BY <3>3 DEF ReadAnswer, Retry, Goto, Settle, Send
    <3>4. CASE type = "reflect_ack"
      BY <3>4 DEF ReadAnswer, Goto, Send, LockOf
    <3>5. CASE type = "commit_ack"
      BY <3>5 DEF ReadAnswer, Settle
    <3> QED
      BY <3>1, <3>2, <3>3, <3>4, <3>5 DEF Answers
  <2> QED
    BY <2>1, <2>3, LockWithoutResponse
<1> QED
  BY <1>2, <1>3, ReadCases DEF ReadReflected, Ignore

\* The invariant of the lock is kept.
LEMMA LockStep == ASSUME TypeOK, LockInv, Next PROVE LockInv'
<1>1. TypeOK'
  BY TypeStep
<1>2. PICK d \in Devices : Step(d)
  BY NextSteps
<1>3. LockPart(d)'
  BY <1>1, <1>2, LockScheduled, LockRequested, LockReconnected, LockAnswered, LockFreed,
     LockDropped, LockLanded,
     LockRead DEF Step, Mediate
<1>4. \A x \in Devices \ {d} : LockPart(x)'
  BY <1>1, <1>2, Elsewhere, LockKept DEF LockInv
<1>5. OpenIsCurrent'
  <2> USE TransactionAssumption DEF LockInv, OpenIsCurrent, TypeOK, TaskTypes
  <2>1. CASE Acquires(d)
    <3>1. PICK e \in Edits : Owner[e] = d /\ \E p \in {"queued", "begin"} : Lock(e, p)
      BY <2>1 DEF Acquires
    <3>2. edit' = [edit EXCEPT ![e] = "open"] /\ current' = [current EXCEPT ![d] = e] /\ current[d] = NoEdit
      BY <3>1 DEF Lock
    <3>3. ASSUME NEW f \in Edits, edit'[f] = "open"
          PROVE  f = e \/ (edit[f] = "open" /\ Owner[f] # d)
      BY <3>2, <3>3
    <3> QED
      BY <3>1, <3>2, <3>3
  <2>2. CASE Settles(d)
    BY <2>2 DEF Settles, Settle, LockPart, TaskOf
  <2>3. CASE (\E p \in Phases : Goto(d, p)) \/ Refuses(d)
    BY <2>3 DEF Goto, Refuses
  <2> QED
    BY <1>2, <2>1, <2>2, <2>3, TaskCases DEF task
<1> QED
  BY <1>3, <1>4, <1>5 DEF LockInv

\* It holds initially.
LEMMA LockInit == Init => LockInv
BY TransactionAssumption DEF Init, LockInv, LockPart, TaskOf, RequestOf, OneResponse, LockOf,
   Granting, GrantIsLast,
   OpenIsCurrent

-----------------------------------------------------------------------------
\* The log of the mediator

\* Only a commit appends, the one edit of the transaction, which is new.
Commits(d, e) ==
    /\ Owner[e] = d /\ current[d] = e /\ edit[e] = "open" /\ phase[d] = "commit"
    /\ pending = {e} /\ ~IsCommitted(e) /\ committed' = Append(committed, e)
\* A commit ends the transaction of the device that holds the lock.
LEMMA CommitCases ==
    ASSUME TypeOK, LockInv, LogInv, NEW d \in Devices, Mediate(d), MediatorCommit(d)
    PROVE  /\ holder = d /\ pending' = {} /\ holder' = NoDevice
           /\ (pending = {} /\ UNCHANGED committed) \/ \E e \in Edits : Commits(d, e)
<1>1. holder = d /\ pending' = {} /\ holder' = NoDevice
  BY DEF MediatorCommit, LockInv, LockPart, LockOf
<1>2. \A e \in pending : Owner[e] = d /\ current[d] = e /\ edit[e] = "open" /\ phase[d] = "commit" /\ ~IsCommitted(e)
  BY <1>1, TransactionAssumption DEF LogInv, LogPart, LogOf, LockInv, OpenIsCurrent, LockPart,
     RequestOf, MediatorCommit,
     TypeOK, MediatorTypes
<1>3. CASE pending = {}
  <2>1. committed' = committed \o <<>>
    BY <1>3 DEF MediatorCommit
  <2> QED
    BY <1>1, <1>3, <2>1 DEF TypeOK, MediatorTypes
<1>4. CASE pending # {}
  <2>1. PICK e \in pending : TRUE
    BY <1>4
  <2>2. pending = {e} /\ e \in Edits
    BY <1>2, <2>1 DEF TypeOK, MediatorTypes
  <2>3. (CHOOSE f \in pending : TRUE) = e
    BY <2>2
  <2>4. committed' = committed \o <<e>>
    BY <1>4, <2>3 DEF MediatorCommit
  <2> QED
    BY <1>1, <1>2, <2>2, <2>4 DEF Commits, TypeOK, MediatorTypes
<1> QED
  BY <1>1, <1>3, <1>4

\* Every step leaves the log alone, or appends the pending edit to it.
LEMMA LogCases ==
    ASSUME TypeOK, LockInv, LogInv, NEW d \in Devices, Step(d)
    PROVE  UNCHANGED committed \/ \E e \in Edits : Commits(d, e)
BY CommitCases DEF Step, Schedule, Process, RunWithin, Aborted, Begin, Uploaded, Mediate, MediatorBegin, MediatorReflect, Read,
   Downloaded,
   DownloadFailed, Landed, Disconnect, Restart, Drop, Reconnect, mediator

\* What is committed stays, and only Commits adds to it.
LEMMA CommittedKept ==
    ASSUME TypeOK, LockInv, LogInv, NEW d \in Devices, Step(d), NEW e
    PROVE  /\ IsCommitted(e) => IsCommitted(e)'
           /\ IsCommitted(e)' => IsCommitted(e) \/ Commits(d, e)
BY LogCases DEF IsCommitted, Commits, TypeOK, MediatorTypes

\* Pending is kept with its lock, or emptied, or set by a reflect.
LEMMA PendingCases ==
    ASSUME TypeOK, LockInv, NEW d \in Devices, Step(d)
    PROVE  \/ pending' = pending /\ (pending # {} /\ holder # NoDevice => holder' = holder)
           \/ pending' = {}
           \/ pending' = {current[d]} /\ Mediate(d) /\ MediatorReflect(d)
BY DEF Step, Schedule, Process, RunWithin, Aborted, Begin, Uploaded, Mediate, MediatorBegin, MediatorReflect, MediatorCommit,
   Read, Downloaded,
   DownloadFailed, Landed, Disconnect, Restart, Drop, Reconnect, mediator

\* No edit is committed twice.
LEMMA CommittedOnceStep ==
    ASSUME TypeOK, LockInv, LogInv, NEW d \in Devices, Step(d)
    PROVE  CommittedOnce'
BY LogCases DEF CommittedOnce, LogInv, IsCommitted, Commits, TypeOK, MediatorTypes

\* A transaction is decided by the answers, and by requests, of its device alone.
LEMMA LogKept ==
    ASSUME TypeOK, TypeOK', LockInv, LogInv, NEW x \in Devices, NEW k \in {0, 1}, Undisturbed(x, k),
           \A e \in Edits : /\ IsCommitted(e) => IsCommitted(e)'
                            /\ Owner[e] = x => (IsCommitted(e)' => IsCommitted(e)) /\ (e \in pending' => e \in pending)
    PROVE  LogPart(x)'
<1>1. DOMAIN inbox[x] \subseteq Nat /\ DOMAIN inbox'[x] \subseteq Nat
  BY DEF TypeOK, WireTypes
<1>2. ASSUME NEW e \in Edits, Owner[e] = x PROVE LogOf(e)'
  BY <1>2 DEF LogOf, LogInv, LogPart, Undisturbed
<1>3. TransactionOf(x)'
  <2>1. uplink[x] = "commit" => holder = x
    BY DEF LockInv, LockPart, LockOf
  <2>2. ASSUME NEW i \in DOMAIN inbox[x], inbox[x][i].type = "reflect_ack" PROVE holder = x
    BY <2>2 DEF LockInv, LockPart, LockOf, OneResponse, ResponseAt, Accepts, Responses, Answers
  <2>3. ASSUME NEW i \in DOMAIN inbox[x], inbox[x][i].type = "commit_ack", phase[x] = "commit"
        PROVE  \E e \in Edits : e = current[x] /\ IsCommitted(e)'
    <3>1. current[x] \in Edits
      BY <2>3 DEF LockInv, LockPart, TaskOf, TypeOK, TaskTypes
    <3> QED
      BY <2>3, <3>1 DEF LogInv, LogPart, TransactionOf
  <2>4. Receives(x, k) /\ current'[x] = current[x] /\ phase'[x] = phase[x] /\ uplink'[x] = uplink[x]
    BY DEF Undisturbed
  <2>5. holder = x => pending' = pending
    BY DEF Undisturbed
  <2>6. ASSUME NEW j \in DOMAIN inbox'[x], inbox'[x][j].type \in {"reflect_ack", "commit_ack"}
        PROVE  j + k \in DOMAIN inbox[x] /\ inbox'[x][j] = inbox[x][j + k]
    BY <2>4, <2>6 DEF Receives, Responses, Answers
  <2>7. phase'[x] = "commit" /\ uplink'[x] = "commit" => pending' = {current'[x]}
    BY <2>1, <2>4, <2>5 DEF LogInv, LogPart, TransactionOf
  <2>8. ASSUME NEW j \in DOMAIN inbox'[x], inbox'[x][j].type = "reflect_ack"
        PROVE  pending' = {current'[x]}
    BY <2>2, <2>4, <2>5, <2>6, <2>8 DEF LogInv, LogPart, TransactionOf
  <2>9. ASSUME NEW j \in DOMAIN inbox'[x], inbox'[x][j].type = "commit_ack", phase'[x] = "commit"
        PROVE  IsCommitted(current[x])'
    <3>1. PICK e \in Edits : e = current'[x] /\ IsCommitted(e)'
      BY <2>3, <2>4, <2>6, <2>9
    <3> QED
      BY <3>1
  <2> QED
    BY <2>7, <2>8, <2>9 DEF TransactionOf
<1> QED
  BY <1>2, <1>3 DEF LogPart

\* A device's part of the log is kept while another one moves.
LEMMA LogElsewhere ==
    ASSUME TypeOK, TypeOK', LockInv, LogInv, NEW d \in Devices, Step(d), NEW x \in Devices, x # d PROVE LogPart(x)'
<1>1. Undisturbed(x, 0)
  BY Elsewhere
<1>2. ASSUME NEW e \in Edits, Owner[e] = x
      PROVE  (IsCommitted(e)' => IsCommitted(e)) /\ (e \in pending' => e \in pending)
  <2>1. ~Commits(d, e)
    BY <1>2 DEF Commits
  <2>2. Mediate(d) /\ MediatorReflect(d) => current[d] # e
    BY <1>2, TransactionAssumption DEF MediatorReflect, LockInv, LockPart, RequestOf, TaskOf
  <2> QED
    BY <2>1, <2>2, CommittedKept, PendingCases
<1> QED
  BY <1>1, <1>2, CommittedKept, LogKept

\* Without an answer under way only the request itself counts.
LEMMA LogWithoutAnswer ==
    ASSUME NEW d \in Devices, NoResponse(d)', phase'[d] = "commit" /\ uplink'[d] = "commit" => pending' = {current'[d]}
    PROVE  TransactionOf(d)'
BY DEF NoResponse, TransactionOf, Responses, Answers

\* The log of the device that makes a step.
LEMMA LogScheduled ==
    ASSUME TypeOK, TypeOK', LockInv, LockInv', LogInv, NEW e \in Edits, Schedule(e) \/ RunWithin(e),
           NEW d \in Devices, Owner[e] = d
    PROVE  LogPart(d)'
<1>1. /\ edit' = [edit EXCEPT ![e] = "open"] \/ edit' = [edit EXCEPT ![e] = "rejected"]
      /\ edit[e] = "new" /\ current[d] = NoEdit /\ UNCHANGED committed /\ UNCHANGED pending
  BY DEF Schedule, RunWithin, Lock, mediator
<1>2. ASSUME NEW f \in Edits, Owner[f] = d PROVE LogOf(f)'
  <2>1. edit[f] # "open"
    BY <1>1, <1>2, TransactionAssumption DEF LockInv, OpenIsCurrent
  <2> QED
    BY <1>1, <1>2, <2>1 DEF LogInv, LogPart, LogOf, IsCommitted, TypeOK, TaskTypes
<1>3. NoResponse(d)' /\ phase'[d] # "commit"
  BY NotAnswered DEF Schedule, RunWithin, Lock, wires, NoResponse, LockInv, LockPart, TaskOf,
     TypeOK, TaskTypes
<1> QED
  BY <1>2, <1>3, LogWithoutAnswer DEF LogPart

\* Nor does the arrival of a message.
LEMMA LogProcessed ==
    ASSUME TypeOK, TypeOK', LockInv, LogInv, NEW e \in Edits, Process(e), NEW d \in Devices
    PROVE  LogPart(d)'
<1>1. UNCHANGED <<task, mediator, uplink, inbox, connected>>
  BY DEF Process, wires
<1>2. Undisturbed(d, 0)
  BY <1>1, ReceivesNone DEF Undisturbed, task, mediator
<1> QED
  BY <1>1, <1>2, LogKept DEF mediator, IsCommitted

\* A request changes nothing of the log.
LEMMA LogRequested ==
    ASSUME TypeOK, TypeOK', LockInv, LogInv, NEW d \in Devices, Begin(d) \/ Uploaded(d)
    PROVE  LogPart(d)'
<1>1. phase[d] \in {"queued", "upload"} /\ UNCHANGED <<edit, committed, pending, inbox>> /\ phase'[d] \in {"begin", "reflect"}
  BY DEF Begin, Uploaded, Goto, mediator, TypeOK, TaskTypes
<1>2. ASSUME NEW f \in Edits, Owner[f] = d PROVE LogOf(f)'
  BY <1>1, <1>2 DEF LogInv, LogPart, LogOf, IsCommitted
<1>3. NoResponse(d)'
  BY <1>1, NotAnswered DEF NoResponse, LockInv
<1> QED
  BY <1>1, <1>2, <1>3, LogWithoutAnswer DEF LogPart

\* Nor does the end of a task that is given up.
LEMMA LogReconnected ==
    ASSUME TypeOK, TypeOK', LockInv, LogInv, NEW d \in Devices, Reconnect(d) \/ Aborted(d)
    PROVE  LogPart(d)'
<1>1. /\ phase[d] \in {"idle", "lost"} /\ UNCHANGED <<committed, pending, inbox, uplink>>
      /\ UNCHANGED task \/ Settle(d, "rejected")
  BY DEF Reconnect, Aborted, mediator, wires, LockInv, LockPart, TaskOf
<1>2. ASSUME NEW f \in Edits, Owner[f] = d PROVE LogOf(f)'
  <2>1. CASE UNCHANGED task
    BY <1>1, <1>2, <2>1 DEF LogInv, LogPart, LogOf, IsCommitted, task, Reconnect, Aborted, mediator
  <2>2. CASE Settle(d, "rejected")
    <3>1. edit'[f] = IF f = current[d] THEN "rejected" ELSE edit[f]
      BY <2>2, TransactionAssumption DEF Settle, TypeOK, TaskTypes
    <3>2. edit[f] = "open" => f = current[d]
      BY <1>2 DEF LockInv, OpenIsCurrent
    <3> QED
      BY <1>1, <1>2, <3>1, <3>2 DEF LogInv, LogPart, LogOf, IsCommitted
  <2> QED
    BY <1>1, <2>1, <2>2
<1>3. NoResponse(d)'
  BY <1>1, NotAnswered DEF NoResponse, LockInv
<1>4. phase'[d] # "commit"
  BY <1>1 DEF Settle, task, TypeOK, TaskTypes
<1> QED
  BY <1>2, <1>3, <1>4, LogWithoutAnswer DEF LogPart

\* A lost connection leaves a committed edit open at its device.
LEMMA LogDropped ==
    ASSUME TypeOK, TypeOK', LockInv, LockInv', LogInv, NEW d \in Devices, Disconnect(d) \/ Restart(d) PROVE LogPart(d)'
<1>1. Drop(d)
  BY DEF Disconnect, Restart
<1>2. uplink'[d] = "none" /\ UNCHANGED committed /\ (\A e \in pending' : e \in pending /\ Owner[e] # d)
  BY <1>1, TransactionAssumption DEF Drop, Send, TypeOK, WireTypes, MediatorTypes, LogInv,
     LogPart, LogOf
<1>3. phase'[d] \in {"idle", "lost"}
  BY DEF Disconnect, Restart, Goto, Settle, task, LockInv, LockPart, TaskOf, TypeOK, TaskTypes
<1>4. ASSUME NEW f \in Edits, Owner[f] = d PROVE LogOf(f)'
  <2>1. edit'[f] \in {edit[f], "rejected"}
    BY DEF Disconnect, Restart, Goto, Settle, task, TypeOK, TaskTypes
  <2>2. edit'[f] = "open" => phase'[d] = "lost"
    BY <1>3, <1>4, TransactionAssumption DEF LockInv, OpenIsCurrent, LockPart, TaskOf
  <2>3. edit[f] = "success" => edit'[f] = "success"
    BY <1>4, TransactionAssumption DEF Disconnect, Restart, Goto, Settle, task, LockInv,
       LockPart, TaskOf, TypeOK, TaskTypes
  <2> QED
    BY <1>2, <1>4, <2>1, <2>2, <2>3 DEF LogInv, LogPart, LogOf, IsCommitted
<1>5. NoResponse(d)'
  BY <1>1, DropSends, RedeliveredTyped DEF NoResponse, Reflected, Responses, Answers
<1> QED
  BY <1>3, <1>4, <1>5, LogWithoutAnswer DEF LogPart

\* BEGIN and REFLECT are answered without a change of the log.
LEMMA LogAnswered ==
    ASSUME TypeOK, TypeOK', LockInv, LockInv', LogInv, NEW d \in Devices, Mediate(d),
           MediatorBegin(d) \/ MediatorReflect(d)
    PROVE  LogPart(d)'
<1>1. UNCHANGED <<edit, phase, current, committed>> /\ uplink'[d] = "none" /\ uplink[d] # "none"
  BY DEF Mediate, MediatorBegin, MediatorReflect, task, Send, TypeOK, WireTypes
<1>2. NoResponse(d) /\ inbox[d] \in Seq(Frames)
  BY NotAnswered DEF LockInv, MediatorBegin, MediatorReflect, TypeOK, WireTypes
<1>3. CASE MediatorBegin(d)
  <2>1. phase[d] = "begin" /\ pending' = pending
    BY <1>3 DEF MediatorBegin, LockInv, LockPart, RequestOf
  <2>2. ASSUME NEW f \in Edits, Owner[f] = d PROVE LogOf(f)'
    BY <1>1, <2>1, <2>2 DEF LogInv, LogPart, LogOf, IsCommitted
  <2>3. PICK type \in {"begin_ack", "rejected"} : inbox'[d] = Append(inbox[d], Signal(type))
    BY <1>3 DEF MediatorBegin, Answer, TypeOK, WireTypes
  <2>4. \A i \in DOMAIN inbox'[d] : inbox'[d][i].type \notin {"reflect_ack", "commit_ack"}
    BY <1>2, <2>3 DEF Signal, NoResponse, Responses, Answers
  <2> QED
    BY <1>1, <2>1, <2>2, <2>4 DEF TransactionOf, LogPart
<1>4. CASE MediatorReflect(d)
  <2>1. phase[d] = "reflect" /\ holder = d /\ current[d] \in Edits /\ pending' = {current[d]} /\ holder' = holder
    BY <1>4 DEF MediatorReflect, LockInv, LockPart, RequestOf, TaskOf, LockOf, TypeOK, TaskTypes
  <2>2. edit[current[d]] = "open" /\ ~IsCommitted(current[d])
    BY <2>1, TransactionAssumption DEF LogInv, LogPart, LogOf, LockInv, LockPart, TaskOf
  <2>3. ASSUME NEW f \in Edits, Owner[f] = d PROVE LogOf(f)'
    BY <1>1, <2>1, <2>2, <2>3 DEF LogInv, LogPart, LogOf, IsCommitted
  <2>4. inbox'[d] = Append(inbox[d], Signal("reflect_ack"))
    BY <1>4 DEF MediatorReflect, Answer, TypeOK, WireTypes
  <2>5. \A i \in DOMAIN inbox'[d] : inbox'[d][i].type # "commit_ack"
    BY <1>2, <2>4 DEF Signal, NoResponse, Responses, Answers
  <2> QED
    BY <1>1, <2>1, <2>3, <2>5 DEF TransactionOf, LogPart
<1> QED
  BY <1>3, <1>4

\* A commit appends the edit and answers.
LEMMA LogFreed ==
    ASSUME TypeOK, TypeOK', LockInv, LockInv', LogInv, NEW d \in Devices, Mediate(d), MediatorCommit(d)
    PROVE  LogPart(d)'
<1>1. /\ UNCHANGED <<edit, phase, current>> /\ uplink'[d] = "none" /\ uplink[d] = "commit" /\ pending' = {}
      /\ phase[d] \in {"commit", "void"}
  BY DEF Mediate, MediatorCommit, task, Send, TypeOK, WireTypes, LockInv, LockPart, RequestOf
<1>2. Step(d)
  BY DEF Step
<1>3. ASSUME NEW f \in Edits, Owner[f] = d PROVE LogOf(f)'
  BY <1>1, <1>2, <1>3, CommittedKept DEF LogInv, LogPart, LogOf, Commits
<1>4. NoResponse(d) /\ inbox[d] \in Seq(Frames) /\ inbox'[d] = Append(inbox[d], Signal("commit_ack"))
  BY <1>1, NotAnswered DEF LockInv, MediatorCommit, TypeOK, WireTypes
<1>5. \A i \in DOMAIN inbox'[d] : inbox'[d][i].type # "reflect_ack"
  BY <1>4 DEF Signal, NoResponse, Responses, Answers
<1>6. phase[d] = "commit" => \E e \in Edits : e = current[d] /\ IsCommitted(e)'
  <2>1. phase[d] = "commit" => pending = {current[d]}
    BY <1>1 DEF LogInv, LogPart, TransactionOf
  <2>2. pending = {} \/ \E e \in Edits : Commits(d, e)
    BY CommitCases
  <2>3. \A e \in Edits : Commits(d, e) => IsCommitted(e)'
    BY DEF Commits, IsCommitted, TypeOK, MediatorTypes
  <2> QED
    BY <2>1, <2>2, <2>3 DEF Commits
<1> QED
  BY <1>1, <1>3, <1>5, <1>6 DEF TransactionOf, LogPart, IsCommitted

\* A download changes nothing of the log.
LEMMA LogLanded ==
    ASSUME TypeOK, TypeOK', LockInv, LogInv, NEW d \in Devices, NEW e \in Edits,
           Downloaded(d, e) \/ DownloadFailed(d, e)
    PROVE  LogPart(d)'
<1>1. UNCHANGED <<task, mediator, uplink, inbox, connected>>
  BY DEF Downloaded, DownloadFailed, Landed
<1>2. Undisturbed(d, 0)
  BY <1>1, ReceivesNone DEF Undisturbed, task, mediator
<1> QED
  BY <1>1, <1>2, LogKept DEF mediator, IsCommitted

\* The outcome that is read is the one of the log.
LEMMA LogRead ==
    ASSUME TypeOK, TypeOK', LockInv, LockInv', LogInv, NEW d \in Devices, Read(d) PROVE LogPart(d)'
<1>1. /\ inbox'[d] = Tail(inbox[d]) /\ inbox[d] # <<>> /\ inbox[d] \in Seq(Frames)
      /\ UNCHANGED <<connected, holder, pending, committed>>
  BY DEF Read, TypeOK, WireTypes, mediator
<1>2. CASE UNCHANGED task /\ UNCHANGED uplink
  <2>1. Undisturbed(d, 1)
    BY <1>1, <1>2, ReceivesTail DEF Undisturbed, task
  <2> QED
    BY <1>1, <2>1, LogKept DEF IsCommitted
<1>3. ASSUME NEW type \in Answers, Head(inbox[d]) = Signal(type), ReadAnswer(d, type)
      PROVE  LogPart(d)'
  <2>1. uplink[d] = "none" /\ NoResponse(d)'
    BY <1>3, AnswerRead
  <2>2. PICK own \in Edits : own = current[d] /\ edit[own] = "open" /\ Owner[own] = d
    BY <1>3 DEF ReadAnswer, Accepts, LockInv, LockPart, TaskOf, TypeOK, TaskTypes
  <2>3. \A f \in Edits : Owner[f] = d /\ f # own => edit[f] # "open" /\ edit'[f] = edit[f]
    BY <1>3, <2>2 DEF ReadAnswer, Granted, Retry, Goto, Settle, LockInv, OpenIsCurrent,
       TypeOK, TaskTypes
  <2>4. \A f \in Edits : Owner[f] = d /\ f # own => LogOf(f)'
    BY <1>1, <2>3 DEF LogInv, LogPart, LogOf, IsCommitted
  <2>5. inbox[d][1].type = type
    BY <1>1, <1>3 DEF Signal
  <2>6. LogOf(own)' /\ (phase'[d] = "commit" /\ uplink'[d] = "commit" => pending' = {current'[d]})
    <3> USE <1>1, <1>3, <2>1, <2>2, <2>5
        DEF LogInv, LogPart, LogOf, TransactionOf, IsCommitted, ReadAnswer, Accepts, TypeOK, TaskTypes, WireTypes
    <3>1. CASE phase[d] \in {"begin", "blocked"}
      <4>1. ~IsCommitted(own) /\ own \notin pending
        <5>1. LogOf(own)
          BY <2>2
        <5> QED
          BY ONLY <2>2, <3>1, <5>1 DEF LogOf
      <4>2. ~IsCommitted(own)' /\ own \notin pending'
        BY ONLY <1>1, <4>1 DEF IsCommitted
      <4>3. edit'[own] # "success" /\ phase'[d] # "commit"
        BY <3>1 DEF Granted, Retry, Goto, Settle
      <4> QED
        BY ONLY <4>2, <4>3 DEF LogOf
    <3>2. CASE type = "reflect_ack"
      BY <3>2 DEF Goto, Send
    <3>3. CASE type = "commit_ack"
      BY <3>3 DEF Settle
    <3> QED
      BY <3>1, <3>2, <3>3 DEF Answers
  <2> QED
    BY <2>1, <2>4, <2>6, LogWithoutAnswer DEF LogPart
<1> QED
  BY <1>2, <1>3, ReadCases DEF ReadReflected, Ignore

\* The invariant of the log holds initially.
LEMMA LogInit == Init => LogInv
BY TransactionAssumption DEF Init, LogInv, LogPart, LogOf, TransactionOf, CommittedOnce, IsCommitted

\* It is kept.
LEMMA LogStep == ASSUME TypeOK, LockInv, LogInv, Next PROVE LogInv'
<1>1. TypeOK' /\ LockInv'
  BY TypeStep, LockStep
<1>2. PICK d \in Devices : Step(d)
  BY NextSteps
<1>3. LogPart(d)'
  BY <1>1, <1>2, LogScheduled, LogProcessed, LogRequested, LogReconnected, LogAnswered, LogFreed, LogDropped,
     LogLanded, LogRead
     DEF Step, Mediate
<1>4. \A x \in Devices \ {d} : LogPart(x)'
  BY <1>1, <1>2, LogElsewhere
<1> QED
  BY <1>2, <1>3, <1>4, CommittedOnceStep DEF LogInv

-----------------------------------------------------------------------------
\* The copies

\* In a log where every edit stands once, its position is what the name says.
LEMMA IndexUnique ==
    ASSUME NEW s, NEW e, NEW i \in DOMAIN s, s[i] = e, \A j, k \in DOMAIN s : s[j] = s[k] => j = k
    PROVE  (CHOOSE j \in DOMAIN s : s[j] = e) = i
OBVIOUS
\* An edit keeps its place in the log.
LEMMA PositionKept ==
    ASSUME TypeOK, LockInv, LogInv, LogInv', NEW d \in Devices, Step(d), NEW e, IsCommitted(e)
    PROVE  Position(e)' = Position(e)
<1>1. PICK i \in DOMAIN committed : committed[i] = e
  BY DEF IsCommitted
<1>2. i \in DOMAIN committed' /\ committed'[i] = e
  BY <1>1, LogCases DEF Commits, TypeOK, MediatorTypes
<1>3. (CHOOSE j \in DOMAIN committed : committed[j] = e) = i
  BY <1>1, IndexUnique DEF LogInv, CommittedOnce
<1>4. (CHOOSE j \in DOMAIN committed' : committed'[j] = e) = i
  BY <1>2, IndexUnique DEF LogInv, CommittedOnce
<1> QED
  BY <1>3, <1>4 DEF Position

\* That place is a number.
LEMMA PositionTyped == ASSUME TypeOK, NEW e, IsCommitted(e) PROVE Position(e) \in Nat
BY DEF TypeOK, MediatorTypes, IsCommitted, Position

\* A step that adds to what is on its way to a device, and leaves its copy alone.
Fed(x) ==
    /\ \A i \in DOMAIN inbox[x] : i \in DOMAIN inbox'[x] /\ inbox'[x][i] = inbox[x][i]
    /\ \A i \in DOMAIN inbox'[x] :
          \/ i \in DOMAIN inbox[x] /\ inbox'[x][i] = inbox[x][i]
          \/ inbox'[x][i].type = "reflected" => IsCommitted(inbox[x][i].edit)'
    /\ unacked[x] \subseteq unacked'[x] /\ \A e \in unacked'[x] \ unacked[x] : IsCommitted(e)'
\* A copy stays as good as it was while nothing arrives.
LEMMA CopyKept ==
    ASSUME TypeOK, LockInv, LogInv, LogInv', CopyInv, NEW d \in Devices, Step(d), NEW x \in Devices, Fed(x),
           value'[x] = value[x], flight'[x] = flight[x], x \notin overtaken' \cup missed' => x \notin overtaken \cup missed,
           \A e \in Edits : Owner[e] = x /\ IsCommitted(e)' /\ edit[e] \in {"open", "rejected"}
                               => edit'[e] \in {"open", "rejected"},
           \A e \in Edits : Commits(d, e) => UnderWay(x, e)'
    PROVE  ArrivalsOf(x)' /\ UpToDate(x)'
<1>1. \A e : IsCommitted(e) => IsCommitted(e)'
  BY CommittedKept
<1>2. ArrivalsOf(x)'
  BY <1>1 DEF Fed, ArrivalsOf, CopyInv
<1>3. ASSUME NEW e \in Edits, IsCommitted(e)', x \notin overtaken' \cup missed'
      PROVE  UnderWay(x, e)' \/ Shows(x, e)'
  <2>1. CASE Commits(d, e)
    BY <2>1
  <2>2. CASE IsCommitted(e) /\ UnderWay(x, e)
    BY <1>3, <2>2 DEF UnderWay, Fed
  <2>3. CASE IsCommitted(e) /\ Shows(x, e)
    BY <2>3, PositionKept DEF Shows, CopyInv, ArrivalsOf
  <2> QED
    BY <1>3, <2>1, <2>2, <2>3, CommittedKept DEF CopyInv, UpToDate
<1> QED
  BY <1>2, <1>3 DEF UpToDate

\* Copies and downloads change by steps of their own device.
LEMMA CopyElsewhere ==
    ASSUME TypeOK, LockInv, NEW d \in Devices, Step(d), NEW x \in Devices, x # d
    PROVE  /\ value'[x] = value[x] /\ flight'[x] = flight[x]
           /\ x \notin overtaken' \cup missed' => x \notin overtaken \cup missed
<1> USE DEF TypeOK, CopyTypes, ArrivalTypes
<1>1. CASE Read(d)
  <2>1. UNCHANGED <<copy, arrivals>> \/ (UNCHANGED <<copy, missed>> /\ \E e \in Edits : flight' = [flight EXCEPT ![d] = @ \cup {e}])
        \/ \E e : Apply(d, e) /\ UNCHANGED arrivals
    BY <1>1, ReadCases DEF ReadReflected, ReadAnswer, Ignore
  <2> QED
    BY <2>1 DEF Apply, copy, arrivals
<1>2. ASSUME NEW e \in Edits, Downloaded(d, e) \/ DownloadFailed(d, e)
      PROVE  /\ value'[x] = value[x] /\ flight'[x] = flight[x]
             /\ x \notin overtaken' \cup missed' => x \notin overtaken \cup missed
  BY <1>2 DEF Downloaded, DownloadFailed, Landed, Apply, copy
<1>3. CASE Disconnect(d) \/ Restart(d)
  BY <1>3 DEF Disconnect, Restart, Drop, copy
<1>4. CASE UNCHANGED <<copy, flight, missed>>
  BY <1>4 DEF copy
<1> QED
  BY <1>1, <1>2, <1>3, <1>4 DEF arrivals, Step, Schedule, Process, RunWithin, Aborted, Begin, Uploaded, Mediate, Reconnect

\* A commit feeds the edit to the others, the endings of transactions feed nothing.
LEMMA FedByCommit ==
    ASSUME TypeOK, LockInv, LogInv, NEW d \in Devices, Mediate(d), MediatorCommit(d), NEW x \in Devices, x # d
    PROVE  Fed(x) /\ \A e \in Edits : Commits(d, e) => UnderWay(x, e)'
<1>1. PICK more \in Seq(Frames) :
         /\ inbox'[x] = inbox[x] \o more
         /\ \A i \in DOMAIN more : more[i] = Signal("ended") \/ \E e \in pending : more[i] = Reflected(e)
         /\ pending # {} => more[1] = Reflected(CHOOSE e \in pending : TRUE) /\ 1 \in DOMAIN more
  BY CommitSends
<1>2. inbox[x] \in Seq(Frames) /\ unacked'[x] = unacked[x] \cup pending
  BY DEF MediatorCommit, TypeOK, WireTypes
<1>3. \A e \in pending : IsCommitted(e)'
  BY CommitCases DEF Commits, IsCommitted, TypeOK, MediatorTypes
<1>4. \A i \in DOMAIN more : more[i].type = "reflected" => more[i].edit \in pending
  BY <1>1 DEF Signal, Reflected
<1>5. \A i \in DOMAIN inbox[x] : i \in DOMAIN inbox'[x] /\ inbox'[x][i] = inbox[x][i]
  BY <1>1, <1>2
<1>6. ASSUME NEW i \in DOMAIN inbox'[x], i \notin DOMAIN inbox[x]
      PROVE  inbox'[x][i].type = "reflected" => inbox'[x][i].edit \in pending
  <2>1. i - Len(inbox[x]) \in DOMAIN more /\ inbox'[x][i] = more[i - Len(inbox[x])]
    BY <1>1, <1>2, <1>6
  <2> QED
    BY <1>4, <2>1
<1>7. Fed(x)
  BY <1>2, <1>3, <1>5, <1>6 DEF Fed
<1>8. ASSUME NEW e \in Edits, Commits(d, e) PROVE UnderWay(x, e)'
  <2>1. pending = {e} /\ (CHOOSE f \in pending : TRUE) = e
    BY <1>8 DEF Commits
  <2>2. Len(inbox[x]) + 1 \in DOMAIN inbox'[x] /\ inbox'[x][Len(inbox[x]) + 1] = Reflected(e)
    BY <1>1, <1>2, <2>1
  <2> QED
    BY <1>2, <2>1, <2>2 DEF UnderWay
<1> QED
  BY <1>7, <1>8

\* Frames that are no edits do not disturb what is under way.
LEMMA FedByMore ==
    ASSUME TypeOK, NEW x \in Devices, NEW more \in Seq(Frames), inbox'[x] = inbox[x] \o more,
           \A i \in DOMAIN more : more[i].type # "reflected", unacked'[x] = unacked[x]
    PROVE  Fed(x)
<1>1. inbox[x] \in Seq(Frames)
  BY DEF TypeOK, WireTypes
<1>2. \A i \in DOMAIN inbox[x] : i \in DOMAIN inbox'[x] /\ inbox'[x][i] = inbox[x][i]
  BY <1>1
<1>3. ASSUME NEW i \in DOMAIN inbox'[x], i \notin DOMAIN inbox[x]
      PROVE  inbox'[x][i].type # "reflected"
  <2>1. i - Len(inbox[x]) \in DOMAIN more /\ inbox'[x][i] = more[i - Len(inbox[x])]
    BY <1>1, <1>3
  <2> QED
    BY <2>1
<1> QED
  BY <1>2, <1>3 DEF Fed

\* Nor does nothing.
LEMMA FedBySame ==
    ASSUME TypeOK, NEW x \in Devices, inbox'[x] = inbox[x], unacked'[x] = unacked[x]
    PROVE  Fed(x)
BY DEF Fed

\* A copy is kept while another device moves.
LEMMA CopyStepElsewhere ==
    ASSUME TypeOK, LockInv, LogInv, LogInv', CopyInv, NEW d \in Devices, Step(d), NEW x \in Devices, x # d
    PROVE  ArrivalsOf(x)' /\ UpToDate(x)'
<1>1. \A e \in Edits : Owner[e] = x => edit'[e] = edit[e]
  BY Elsewhere DEF Undisturbed
<1>2. CASE Mediate(d) /\ MediatorCommit(d)
  BY <1>1, <1>2, FedByCommit, CopyElsewhere, CopyKept
<1>3. CASE ~(Mediate(d) /\ MediatorCommit(d))
  <2>1. \A e \in Edits : ~Commits(d, e)
    <3>1. UNCHANGED committed
      BY <1>3 DEF Step, Schedule, Process, RunWithin, Aborted, Begin, Uploaded, Mediate, MediatorBegin, MediatorReflect,
         Read, Downloaded,
         DownloadFailed, Landed, Disconnect, Restart, Drop, Reconnect, mediator
    <3> QED
      BY <3>1 DEF Commits, TypeOK, MediatorTypes
  <2>2. unacked'[x] = unacked[x]
    <3>1. UNCHANGED unacked \/ \E e : Acknowledge(d, e)
      <4>1. CASE Read(d)
        BY <4>1, ReadCases DEF ReadReflected, ReadAnswer, Ignore
      <4> QED
        BY <1>3, <4>1 DEF Step, Schedule, Process, RunWithin, Aborted, Begin, Uploaded, Mediate, MediatorBegin,
           MediatorReflect, Downloaded,
           DownloadFailed, Landed, Disconnect, Restart, Drop, Reconnect, wires
    <3> QED
      BY <3>1 DEF Acknowledge, TypeOK, WireTypes
  <2>3. inbox'[x] = inbox[x] \/ inbox'[x] = inbox[x] \o EndedFor(x, d)
    <3>1. CASE Disconnect(d) \/ Restart(d)
      BY <3>1, DropSends DEF Disconnect, Restart
    <3>2. CASE Mediate(d)
      BY <1>3, <3>2 DEF Mediate, MediatorBegin, MediatorReflect, Answer, TypeOK, WireTypes
    <3> QED
      BY <3>1, <3>2 DEF Step, Schedule, Process, RunWithin, Aborted, Begin, Uploaded, Read, Downloaded, DownloadFailed,
         Landed, Reconnect, wires,
         TypeOK, WireTypes
  <2>4. \A i \in DOMAIN EndedFor(x, d) : EndedFor(x, d)[i].type # "reflected"
    BY EndedForTyped DEF Signal
  <2>5. Fed(x)
    BY <2>2, <2>3, <2>4, FedByMore, FedBySame, EndedForTyped
  <2> QED
    BY <1>1, <2>1, <2>5, CopyElsewhere, CopyKept
<1> QED
  BY <1>2, <1>3

\* Steps of the task and of the mediator that send nothing of another device to it.
LEMMA CopyStepTask ==
    ASSUME TypeOK, TypeOK', LockInv, LogInv, LogInv', CopyInv, NEW d \in Devices, Step(d),
           UNCHANGED <<copy, flight, missed>>, unacked'[d] = unacked[d],
           inbox'[d] = inbox[d] \/ \E type \in Answers : inbox'[d] = inbox[d] \o <<Signal(type)>>,
           \A e \in Edits : Owner[e] = d /\ edit'[e] = "success" => edit[e] = "success"
    PROVE  ArrivalsOf(d)' /\ UpToDate(d)'
<1>1. ASSUME NEW type \in Answers, inbox'[d] = inbox[d] \o <<Signal(type)>> PROVE Fed(d)
  <2>1. <<Signal(type)>> \in Seq(Frames) /\ \A i \in DOMAIN <<Signal(type)>> : <<Signal(type)>>[i].type # "reflected"
    BY FramesTyped DEF Signal, Answers
  <2> QED
    BY <1>1, <2>1, FedByMore
<1>2. Fed(d)
  BY <1>1, FedBySame
<1>3. ASSUME NEW e \in Edits, Owner[e] = d, IsCommitted(e)', edit[e] \in {"open", "rejected"}
      PROVE  edit'[e] \in {"open", "rejected"}
  BY <1>3 DEF LogInv, LogPart, LogOf
<1>4. ASSUME NEW e \in Edits, Commits(d, e) PROVE UnderWay(d, e)'
  <2>1. IsCommitted(e)' /\ Owner[e] = d /\ edit[e] = "open"
    BY <1>4 DEF Commits, IsCommitted, TypeOK, MediatorTypes
  <2> QED
    BY <1>3, <2>1 DEF UnderWay
<1> QED
  BY <1>2, <1>3, <1>4, CopyKept DEF copy

\* The last edit to be applied is shown, and no later one was, or the device is
\* counted as overtaken.
LEMMA Applied ==
    ASSUME TypeOK, LogInv, NEW d \in Devices, ArrivalsOf(d), NEW e \in Edits, Apply(d, e), IsCommitted(e), UNCHANGED committed
    PROVE  /\ value'[d] = e /\ Shows(d, e)'
           /\ d \notin overtaken' => d \notin overtaken /\ \A f : IsCommitted(f) /\ Shows(d, f) => Shows(d, f)'
<1>1. value'[d] = e /\ e # NoEdit
  BY TransactionAssumption DEF Apply, TypeOK, CopyTypes
<1>2. \A f : Position(f)' = Position(f)
  BY DEF Position
<1>3. Position(e) \in Nat /\ (value[d] # NoEdit => Position(value[d]) \in Nat)
  BY PositionTyped DEF ArrivalsOf
<1>4. Shows(d, e)'
  BY <1>1, <1>2, <1>3 DEF Shows
<1>5. ASSUME d \notin overtaken'
      PROVE  d \notin overtaken /\ (value[d] # NoEdit => Position(value[d]) <= Position(e))
  BY <1>3, <1>5 DEF Apply
<1>6. ASSUME d \notin overtaken', NEW f, IsCommitted(f), Shows(d, f) PROVE Shows(d, f)'
  <2>1. Position(f) \in Nat
    BY <1>6, PositionTyped
  <2>2. Position(f) <= Position(e)
    BY <1>3, <1>5, <1>6, <2>1 DEF Shows
  <2> QED
    BY <1>1, <1>2, <2>2 DEF Shows
<1> QED
  BY <1>1, <1>4, <1>5, <1>6

\* A reflected edit is read.
LEMMA CopyReflected ==
    ASSUME TypeOK, TypeOK', LockInv, LogInv, CopyInv, NEW d \in Devices, Read(d), NEW e \in Edits,
           Head(inbox[d]) = Reflected(e), ReadReflected(d, e)
    PROVE  ArrivalsOf(d)' /\ UpToDate(d)'
<1>1. /\ inbox'[d] = Tail(inbox[d]) /\ inbox[d] # <<>> /\ inbox[d] \in Seq(Frames)
      /\ UNCHANGED <<edit, committed>>
  BY DEF Read, ReadReflected, TypeOK, WireTypes, mediator, task
<1>2. IsCommitted(e)
  <2>1. inbox[d][1] = Reflected(e)
    BY <1>1
  <2> QED
    BY <1>1, <2>1 DEF CopyInv, ArrivalsOf, Reflected
<1>3. /\ \A f : IsCommitted(f) <=> IsCommitted(f)'
      /\ \A f : Position(f)' = Position(f)
  BY <1>1 DEF IsCommitted, Position
<1>4. UnderWay(d, e)' \/ Shows(d, e)'
  BY <1>1, <1>2, Applied DEF ReadReflected, UnderWay, CopyInv, arrivals, TypeOK, ArrivalTypes
<1>5. unacked'[d] \subseteq unacked[d] /\ unacked[d] \ {e} \subseteq unacked'[d] /\ flight[d] \subseteq flight'[d]
      /\ flight'[d] \subseteq flight[d] \cup {e}
  BY DEF ReadReflected, Acknowledge, arrivals, TypeOK, WireTypes, ArrivalTypes
<1>6. value'[d] \in {value[d], e} /\ missed' = missed /\ (d \notin overtaken' => d \notin overtaken)
  BY <1>1, <1>2, Applied DEF ReadReflected, CopyInv, arrivals, copy
<1>7. ArrivalsOf(d)'
  <2>1. ASSUME NEW i \in DOMAIN inbox'[d], inbox'[d][i].type = "reflected"
        PROVE  IsCommitted(inbox'[d][i].edit)
    BY <1>1, <2>1 DEF CopyInv, ArrivalsOf
  <2> QED
    BY <1>2, <1>3, <1>5, <1>6, <2>1 DEF ArrivalsOf, CopyInv
<1>8. ASSUME NEW f \in Edits, IsCommitted(f), d \notin overtaken' \cup missed', f # e
      PROVE  UnderWay(d, f)' \/ Shows(d, f)'
  <2>1. CASE Shows(d, f)
    BY <1>1, <1>2, <1>3, <1>8, <2>1, Applied DEF ReadReflected, Shows, CopyInv, copy
  <2>2. CASE UnderWay(d, f)
    <3>1. ASSUME NEW i \in DOMAIN inbox[d], inbox[d][i] = Reflected(f)
          PROVE  \E j \in DOMAIN inbox'[d] : inbox'[d][j] = Reflected(f)
      <4>1. i # 1
        BY <1>1, <1>8, <3>1 DEF Reflected
      <4>2. i - 1 \in DOMAIN inbox'[d] /\ inbox'[d][i - 1] = Reflected(f)
        BY <1>1, <3>1, <4>1
      <4> QED
        BY <4>2
    <3> QED
      BY <1>1, <1>5, <1>8, <2>2, <3>1 DEF UnderWay
  <2> QED
    BY <1>6, <1>8, <2>1, <2>2 DEF CopyInv, UpToDate
<1> QED
  BY <1>3, <1>4, <1>7, <1>8 DEF UpToDate

\* An answer is read. When the promise of the edit settles, it is shown or was
\* never committed.
LEMMA CopyAnswered ==
    ASSUME TypeOK, TypeOK', LockInv, LogInv, LogInv', CopyInv, NEW d \in Devices, Read(d), NEW type \in Answers,
           Head(inbox[d]) = Signal(type), ReadAnswer(d, type) \/ Ignore(d, type)
    PROVE  ArrivalsOf(d)' /\ UpToDate(d)'
<1>1. /\ inbox'[d] = Tail(inbox[d]) /\ inbox[d] # <<>> /\ inbox[d] \in Seq(Frames)
      /\ UNCHANGED <<committed, unacked>> /\ flight' = flight /\ missed' = missed
  BY DEF Read, ReadAnswer, Ignore, TypeOK, WireTypes, mediator, arrivals
<1>2. /\ \A f : IsCommitted(f) <=> IsCommitted(f)'
      /\ \A f : Position(f)' = Position(f)
  BY <1>1 DEF IsCommitted, Position
<1>3. ASSUME NEW f \in Edits, NEW i \in DOMAIN inbox[d], inbox[d][i] = Reflected(f)
      PROVE  \E j \in DOMAIN inbox'[d] : inbox'[d][j] = Reflected(f)
  <2>1. i # 1
    BY <1>1, <1>3 DEF Reflected, Signal, Answers
  <2>2. i - 1 \in DOMAIN inbox'[d] /\ inbox'[d][i - 1] = Reflected(f)
    BY <1>1, <1>3, <2>1
  <2> QED
    BY <2>2
<1>4. ASSUME NEW i \in DOMAIN inbox'[d], inbox'[d][i].type = "reflected"
      PROVE  IsCommitted(inbox'[d][i].edit)
  BY <1>1, <1>4 DEF CopyInv, ArrivalsOf
<1>5. CASE type = "commit_ack" /\ phase[d] = "commit" /\ ReadAnswer(d, type)
  <2>1. PICK own \in Edits : own = current[d] /\ Apply(d, own) /\ Settle(d, "success") /\ IsCommitted(own)
    <3>1. inbox[d][1].type = "commit_ack" /\ 1 \in DOMAIN inbox[d]
      BY <1>1, <1>5 DEF Signal
    <3> QED
      BY <1>5, <3>1 DEF ReadAnswer, LogInv, LogPart, TransactionOf, LockInv, LockPart,
         TaskOf, TypeOK, TaskTypes
  <2>2. \A f \in Edits : f # own => edit'[f] = edit[f]
    BY <2>1 DEF Settle, TypeOK, TaskTypes
  <2>3. /\ value'[d] = own /\ Shows(d, own)'
        /\ d \notin overtaken' => d \notin overtaken /\ \A f : IsCommitted(f) /\ Shows(d, f) => Shows(d, f)'
    BY <1>1, <2>1, Applied DEF CopyInv
  <2>4. ArrivalsOf(d)'
    BY <1>1, <1>2, <1>4, <2>1, <2>3 DEF ArrivalsOf, CopyInv
  <2>5. \A f \in Edits : f # own /\ UnderWay(d, f) => UnderWay(d, f)'
    BY <1>1, <1>3, <2>2 DEF UnderWay
  <2> QED
    BY <1>1, <1>2, <2>3, <2>4, <2>5 DEF UpToDate, CopyInv
<1>6. CASE ~(type = "commit_ack" /\ phase[d] = "commit" /\ ReadAnswer(d, type))
  <2>5. UNCHANGED copy
    BY <1>6 DEF ReadAnswer, Ignore
  <2>1. ASSUME NEW f \in Edits, IsCommitted(f), Owner[f] = d, edit[f] \in {"open", "rejected"}
        PROVE  edit'[f] \in {"open", "rejected"}
    <3>1. edit'[f] # "success" \/ edit[f] = "success"
      <4>1. \/ UNCHANGED task \/ (\E p \in Phases : Goto(d, p)) \/ Settle(d, "aborted")
        BY <1>6 DEF ReadAnswer, Ignore, Granted, Retry, Phases, Reading
      <4> QED
        BY <4>1 DEF Goto, Settle, task, TypeOK, TaskTypes
    <3> QED
      BY <1>2, <2>1, <3>1 DEF LogInv, LogPart, LogOf
  <2>2. \A f \in Edits : IsCommitted(f) /\ UnderWay(d, f) => UnderWay(d, f)'
    BY <1>1, <1>3, <2>1 DEF UnderWay
  <2>3. ArrivalsOf(d)'
    BY <1>1, <1>2, <1>4, <2>5 DEF ArrivalsOf, CopyInv, copy
  <2>4. \A f : Shows(d, f) => Shows(d, f)'
    BY <1>2, <2>5 DEF Shows, copy
  <2> QED
    BY <1>1, <1>2, <2>5, <2>2, <2>3, <2>4 DEF UpToDate, CopyInv, copy
<1> QED
  BY <1>5, <1>6 DEF ReadAnswer, Ignore

\* A download is over.
LEMMA CopyLanded ==
    ASSUME TypeOK, TypeOK', LockInv, LogInv, CopyInv, NEW d \in Devices, NEW e \in Edits,
           Downloaded(d, e) \/ DownloadFailed(d, e)
    PROVE  ArrivalsOf(d)' /\ UpToDate(d)'
<1>1. /\ UNCHANGED <<edit, committed, inbox>> /\ e \in flight[d] /\ flight'[d] = flight[d] \ {e}
      /\ unacked'[d] \subseteq unacked[d] /\ unacked[d] \ {e} \subseteq unacked'[d]
  BY DEF Downloaded, DownloadFailed, Landed, Acknowledge, task, mediator, TypeOK, WireTypes,
     ArrivalTypes
<1>2. /\ \A f : IsCommitted(f) <=> IsCommitted(f)'
      /\ \A f : Position(f)' = Position(f)
      /\ IsCommitted(e)
  BY <1>1 DEF IsCommitted, Position, CopyInv, ArrivalsOf
<1>3. CASE DownloadFailed(d, e)
  <2>1. d \in missed' /\ UNCHANGED value
    BY <1>3 DEF DownloadFailed, copy
  <2> QED
    BY <1>1, <1>2, <2>1 DEF ArrivalsOf, UpToDate, CopyInv
<1>4. CASE Downloaded(d, e)
  <2>1. /\ value'[d] = e /\ Shows(d, e)' /\ missed' = missed
        /\ d \notin overtaken' => d \notin overtaken /\ \A f : IsCommitted(f) /\ Shows(d, f) => Shows(d, f)'
    BY <1>1, <1>2, <1>4, Applied DEF Downloaded, CopyInv
  <2>2. ArrivalsOf(d)'
    BY <1>1, <1>2, <2>1 DEF ArrivalsOf, CopyInv
  <2>3. \A f \in Edits : f # e /\ UnderWay(d, f) => UnderWay(d, f)'
    BY <1>1 DEF UnderWay
  <2> QED
    BY <1>2, <2>1, <2>2, <2>3 DEF UpToDate, CopyInv
<1> QED
  BY <1>3, <1>4

\* The connection is lost: the mediator reflects again what was not acknowledged,
\* and the downloads go on, or are lost with the process.
LEMMA CopyDropped ==
    ASSUME TypeOK, TypeOK', LockInv, LogInv, CopyInv, NEW d \in Devices, Disconnect(d) \/ Restart(d)
    PROVE  ArrivalsOf(d)' /\ UpToDate(d)'
<1>1. Drop(d) /\ UNCHANGED <<copy, committed, unacked>>
  BY DEF Disconnect, Restart, Drop
<1>2. PICK again \in Redelivered(d) : inbox'[d] = again
  BY <1>1, DropSends
<1>3. /\ \A f : IsCommitted(f) <=> IsCommitted(f)'
      /\ \A f : Position(f)' = Position(f)
  BY <1>1 DEF IsCommitted, Position
<1>4. flight'[d] \subseteq flight[d] /\ missed \subseteq missed'
  BY DEF Disconnect, Restart, TypeOK, ArrivalTypes
<1>5. ArrivalsOf(d)'
  <2>1. \A i \in DOMAIN again : again[i].type = "reflected" /\ IsCommitted(again[i].edit)
    BY RedeliveredTyped DEF CopyInv, ArrivalsOf, Reflected
  <2> QED
    BY <1>1, <1>2, <1>3, <1>4, <2>1 DEF CopyInv, ArrivalsOf, copy
<1>6. ASSUME NEW f \in Edits, IsCommitted(f), UnderWay(d, f), d \notin missed' PROVE UnderWay(d, f)'
  <2>1. f \in unacked[d] => UnderWay(d, f)'
    BY <1>1, <1>2, <1>6, RedeliveredTyped DEF UnderWay
  <2>2. f \in flight[d] => f \in flight'[d] \/ f \in unacked[d]
    BY <1>6 DEF Disconnect, Restart
  <2>3. ASSUME Owner[f] = d, edit[f] \in {"open", "rejected"}
        PROVE  edit'[f] \in {"open", "rejected"}
    BY <2>3 DEF Disconnect, Restart, Goto, Settle, task, TypeOK, TaskTypes
  <2> QED
    BY <1>6, <2>1, <2>2, <2>3 DEF UnderWay
<1>7. \A f : Shows(d, f) => Shows(d, f)'
  BY <1>1, <1>3 DEF Shows, copy
<1> QED
  BY <1>1, <1>3, <1>4, <1>5, <1>6, <1>7 DEF UpToDate, CopyInv, copy

\* The invariant of the copies holds initially.
LEMMA CopyInit == Init => CopyInv
BY TransactionAssumption DEF Init, CopyInv, ArrivalsOf, UpToDate, IsCommitted

\* It is kept.
LEMMA CopyStep == ASSUME TypeOK, LockInv, LogInv, CopyInv, Next PROVE CopyInv'
<1>1. TypeOK' /\ LockInv' /\ LogInv'
  BY TypeStep, LockStep, LogStep
<1>2. PICK d \in Devices : Step(d)
  BY NextSteps
<1>3. ArrivalsOf(d)' /\ UpToDate(d)'
  <2>1. CASE Read(d)
    BY <1>1, <2>1, ReadCases, CopyReflected, CopyAnswered
  <2>2. CASE \E e \in Edits : Downloaded(d, e) \/ DownloadFailed(d, e)
    BY <1>1, <2>2, CopyLanded
  <2>3. CASE Disconnect(d) \/ Restart(d)
    BY <1>1, <2>3, CopyDropped
  <2>4. ASSUME \/ \E e \in Edits : Schedule(e) \/ Process(e) \/ RunWithin(e)
               \/ Begin(d) \/ Uploaded(d) \/ Mediate(d) \/ Aborted(d) \/ Reconnect(d)
        PROVE  ArrivalsOf(d)' /\ UpToDate(d)'
    <3>1. UNCHANGED <<copy, flight, missed>> /\ unacked'[d] = unacked[d]
      BY <2>4 DEF Schedule, Process, RunWithin, Begin, Uploaded, Mediate, MediatorBegin,
         MediatorReflect, MediatorCommit, Aborted, Reconnect, arrivals, wires, TypeOK, WireTypes
    <3>2. inbox'[d] = inbox[d] \/ \E type \in Answers : inbox'[d] = inbox[d] \o <<Signal(type)>>
      <4>1. UNCHANGED inbox \/ \E type \in Answers : inbox'[d] = Append(inbox[d], Signal(type))
        BY <2>4 DEF Schedule, Process, RunWithin, Begin, Uploaded, Mediate, MediatorBegin,
           MediatorReflect, MediatorCommit, Answer, Aborted, Reconnect, wires, Answers, TypeOK,
           WireTypes
      <4> QED
        BY <4>1, AppendIsConcat, FramesTyped DEF TypeOK, WireTypes
    <3>3. \A e \in Edits : edit'[e] = "success" => edit[e] = "success"
      BY <2>4 DEF Schedule, Process, RunWithin, Lock, Begin, Uploaded, Goto, Mediate, Aborted,
         Reconnect, Settle, task, TypeOK, TaskTypes
    <3> QED
      BY <1>1, <1>2, <3>1, <3>2, <3>3, CopyStepTask
  <2> QED
    BY <1>2, <2>1, <2>2, <2>3, <2>4 DEF Step
<1>4. \A x \in Devices \ {d} : ArrivalsOf(x)' /\ UpToDate(x)'
  BY <1>1, <1>2, CopyStepElsewhere
<1> QED
  BY <1>3, <1>4 DEF CopyInv

\* What is shown when nothing is on its way.
LEMMA LatestShown ==
    ASSUME TypeOK, LogInv, CopyInv, NEW d \in Devices, d \notin overtaken \cup missed,
           \A e \in Edits : IsCommitted(e) => ~UnderWay(d, e)
    PROVE  value[d] = Latest
<1>1. committed \in Seq(Edits) /\ Len(committed) \in Nat /\ DOMAIN committed = 1..Len(committed)
  BY DEF TypeOK, MediatorTypes
<1>2. \A e \in Edits : IsCommitted(e) => Shows(d, e)
  BY DEF CopyInv, UpToDate
<1>3. CASE committed = <<>>
  BY <1>3 DEF CopyInv, ArrivalsOf, IsCommitted, Latest
<1>4. CASE committed # <<>>
  <2>1. Len(committed) \in DOMAIN committed /\ committed[Len(committed)] \in Edits
    BY <1>1, <1>4
  <2>2. Shows(d, committed[Len(committed)])
    BY <1>2, <2>1 DEF IsCommitted
  <2>3. Position(committed[Len(committed)]) = Len(committed)
    BY <2>1, IndexUnique DEF Position, LogInv, CommittedOnce
  <2>4. PICK i \in DOMAIN committed : committed[i] = value[d]
    BY <2>2 DEF Shows, CopyInv, ArrivalsOf, IsCommitted
  <2>5. Position(value[d]) = i
    BY <2>4, IndexUnique DEF Position, LogInv, CommittedOnce
  <2>6. i = Len(committed)
    BY <1>1, <2>2, <2>3, <2>4, <2>5 DEF Shows
  <2> QED
    BY <1>4, <2>4, <2>6 DEF Latest
<1> QED
  BY <1>3, <1>4

-----------------------------------------------------------------------------
\* The theorems

Inv == TypeOK /\ LockInv /\ LogInv /\ CopyInv

\* The invariant, which all theorems below follow from.
LEMMA InvStutter == Inv /\ UNCHANGED vars => Inv'
<1> SUFFICES ASSUME Inv, UNCHANGED vars PROVE Inv'
  OBVIOUS
<1>1. UNCHANGED <<edit, current, phase, base, value, version, flight, live, attended, connected, uplink, inbox,
                  unacked, holder, pending, committed, losses, failures, overtaken, missed>>
  BY DEF vars, copy, task, arrivals, mediator, wires
<1>2. TypeOK'
  BY <1>1 DEF Inv, TypeOK, TaskTypes, CopyTypes, ArrivalTypes, WireTypes, MediatorTypes, BoundTypes
<1>3. LockInv'
  BY <1>1 DEF Inv, LockInv, LockPart, TaskOf, RequestOf, OneResponse, ResponseAt, Accepts,
     LockOf, Granting,
     GrantIsLast, OpenIsCurrent
<1>4. LogInv'
  BY <1>1 DEF Inv, LogInv, LogPart, LogOf, TransactionOf, CommittedOnce, IsCommitted
<1>5. CopyInv'
  BY <1>1 DEF Inv, CopyInv, ArrivalsOf, UpToDate, UnderWay, Shows, Position, IsCommitted
<1> QED
  BY <1>2, <1>3, <1>4, <1>5 DEF Inv

\* The invariant holds in every reachable state.
THEOREM InvAlways == Spec => []Inv
<1>1. Init => Inv
  BY TypeInit, LockInit, LogInit, CopyInit DEF Inv
<1>2. Inv /\ [Next]_vars => Inv'
  BY TypeStep, LockStep, LogStep, CopyStep, InvStutter DEF Inv
<1> QED
  BY <1>1, <1>2, PTL DEF Spec

\* Every variable keeps its type.
THEOREM TypeCorrect == Spec => []TypeOK
BY InvAlways, PTL DEF Inv

\* However many devices contend for the lock of the group, and whatever is lost,
\* only the device for which the mediator holds it runs an executor
\* (TaskCodec.transaction).
THEOREM ExecutorLocked == Spec => []ExecutorHoldsLock
<1>1. Inv => ExecutorHoldsLock
  BY DEF Inv, LockInv, LockPart, LockOf, ExecutorHoldsLock, Executing
<1> QED
  BY <1>1, InvAlways, PTL

\* An edit reported as done is in the log of the mediator, one reported as a
\* conflict never gets there.
THEOREM OutcomeCorrect == Spec => []OutcomeTrue
<1>1. Inv => OutcomeTrue
  BY TransactionAssumption DEF Inv, LogInv, LogPart, LogOf, OutcomeTrue
<1> QED
  BY <1>1, InvAlways, PTL

\* When all is quiet the copies agree, but for the exceptions that Converged names.
THEOREM CopiesConverge == Spec => []Converged
<1>1. Inv => Converged
  <2> SUFFICES ASSUME Inv, Quiet, NEW d \in Devices, d \notin overtaken \cup missed, ~Orphaned(d)
               PROVE  value[d] = Latest
    BY DEF Converged
  <2>1. ASSUME NEW e \in Edits, IsCommitted(e), UnderWay(d, e) PROVE FALSE
    <3>1. inbox[d] = <<>> /\ flight[d] = {} /\ current[d] = NoEdit
      BY DEF Quiet
    <3>2. Owner[e] = d /\ edit[e] = "open"
      BY <2>1, <3>1 DEF UnderWay, Orphaned
    <3> QED
      BY <3>1, <3>2, TransactionAssumption DEF Inv, LockInv, OpenIsCurrent
  <2> QED
    BY <2>1, LatestShown DEF Inv
<1> QED
  BY <1>1, InvAlways, PTL

\* An executor starts on the state that the group agreed on: the grant of the lock
\* is the last that a device reads of the edits committed before it.
THEOREM ExecutorCurrent == Spec => ExecutorUpToDate
<1> DEFINE Starts(d) == phase[d] # "upload" /\ phase'[d] = "upload" /\ flight[d] = {} /\ d \notin overtaken \cup missed
                        /\ ~Orphaned(d)
<1>1. ASSUME Inv, Next, NEW d \in Devices, Starts(d) PROVE value[d] = Latest /\ version[d] = base[d]
  <2> USE DEF Inv
  <2>1. Read(d) /\ Head(inbox[d]) = Signal("begin_ack") /\ phase[d] = "begin" /\ version[d] = base[d]
    <3>1. PICK x \in Devices : Step(x)
      BY <1>1, NextSteps
    <3>2. x = d
      BY <1>1, <3>1, Elsewhere DEF Undisturbed
    <3>3. Read(d)
      <4> USE DEF TypeOK, TaskTypes, Inv
      <4> DEFINE Still == phase'[d] # "upload" \/ phase[d] = "upload"
      <4>1. ASSUME NEW e \in Edits, Owner[e] = d, Schedule(e) \/ Process(e) \/ RunWithin(e)
            PROVE  Still
        <5>1. ASSUME NEW p \in {"queued", "begin"}, Lock(e, p) PROVE phase'[d] = p
          BY <1>1, <4>1, <5>1 DEF Lock
        <5>2. phase' = phase \/ Lock(e, "queued") \/ Lock(e, "begin")
          BY <4>1 DEF Schedule, Process, RunWithin, task
        <5> QED
          BY <5>1, <5>2
      <4>2. ASSUME NEW e \in Edits, Downloaded(d, e) \/ DownloadFailed(d, e) PROVE Still
        BY <4>2 DEF Downloaded, DownloadFailed, Landed, task
      <4>3. ASSUME \/ Begin(d) \/ Uploaded(d) \/ Mediate(d) \/ Disconnect(d) \/ Restart(d)
                   \/ Aborted(d) \/ Reconnect(d)
            PROVE  Still
        <5>1. \/ phase' = phase
              \/ \E p \in {"begin", "reflect", "idle", "lost"} : phase' = [phase EXCEPT ![d] = p]
          BY <4>3 DEF Begin, Uploaded, Mediate, Disconnect, Restart, Aborted, Reconnect, Goto,
             Settle, task
        <5> QED
          BY <1>1, <5>1
      <4> QED
        BY <1>1, <3>1, <3>2, <4>1, <4>2, <4>3 DEF Step
    <3>4. PICK type \in Answers : Head(inbox[d]) = Signal(type) /\ ReadAnswer(d, type)
      BY <1>1, <3>3, ReadCases DEF ReadReflected, Ignore, task
    <3> QED
      BY <1>1, <3>3, <3>4 DEF ReadAnswer, Granted, Retry, Precondition, Accepts, Goto,
         Settle, TypeOK, TaskTypes
  <2>2. inbox[d] \in Seq(Frames) /\ 1 \in DOMAIN inbox[d] /\ inbox[d][1].type = "begin_ack"
    BY <1>1, <2>1 DEF Read, TypeOK, WireTypes, Signal
  <2>3. ASSUME NEW e \in Edits, IsCommitted(e), UnderWay(d, e) PROVE FALSE
    <3>1. \A i \in DOMAIN inbox[d] : inbox[d][i] # Reflected(e)
      BY <1>1, <2>2 DEF LockInv, LockPart, GrantIsLast, Reflected
    <3>2. Owner[e] = d /\ edit[e] = "open"
      BY <1>1, <2>3, <3>1 DEF UnderWay, Orphaned
    <3> QED
      BY <1>1, <2>1, <2>3, <3>2 DEF LogInv, LogPart, LogOf
  <2> QED
    BY <1>1, <2>1, <2>3, LatestShown
<1>2. Inv /\ [Next]_vars =>
        [\A d \in Devices :
            (/\ phase[d] # "upload" /\ phase'[d] = "upload"
             /\ flight[d] = {} /\ d \notin overtaken \cup missed /\ ~Orphaned(d))
                => value[d] = Latest /\ version[d] = base[d]]_vars
  BY <1>1
<1> QED
  BY <1>2, InvAlways, PTL DEF Spec, ExecutorUpToDate
================================================================================
