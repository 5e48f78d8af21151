------------------------------ MODULE Transaction ------------------------------
(***************************************************************************)
(* Edits of one shared object (the picture of a contact, say) by the       *)
(* devices of a device group, which all run the same code. An edit is made *)
(* under the lock of the object (model/profile-picture.ts,                 *)
(* model/contact.ts): a volatile task reflects it inside a device group    *)
(* transaction (TaskCodec.transaction) whose precondition is that the      *)
(* version of the object has not moved, and the local copy changes when    *)
(* the task is done. A local edit schedules the task. A remote one, which  *)
(* a message of the contact makes (csp/incoming-message.ts,                *)
(* csp/incoming-contact-profile-picture.ts), runs it inside the task that  *)
(* processes the message, and so awaits the lock of the object while it    *)
(* keeps the task manager. The other devices apply an edit when it is      *)
(* reflected to them (d2d/reflected-contact-sync.ts), after a download if  *)
(* it sets a picture. The mediator is external: it owns the lock of the    *)
(* group, holds the reflections of a transaction back until its commit,    *)
(* and sends each device its frames in order.                              *)
(*                                                                         *)
(* A frame that no task reads is put on the backlog and then ignored. No   *)
(* later transaction takes it for its own: read drains the backlog before  *)
(* it comes to the answer of BEGIN. A frame is dropped here at once.       *)
(***************************************************************************)
EXTENDS Naturals, Sequences, FiniteSets, OrderedFilter

CONSTANTS
    Devices, Edits,
    Owner,              \* the device that makes an edit
    Remote,             \* edits that a message of the contact makes
    Slow,               \* edits that a receiver applies only after a download
    NoDevice, NoEdit,
    MaxLosses,          \* bound: lost connections and process restarts
    MaxFailures         \* bound: failed downloads

ASSUME TransactionAssumption ==
    /\ IsFiniteSet(Devices) /\ IsFiniteSet(Edits)
    /\ Owner \in [Edits -> Devices] /\ Remote \subseteq Edits /\ Slow \subseteq Edits
    /\ NoDevice \notin Devices /\ NoEdit \notin Edits
    /\ MaxLosses \in Nat /\ MaxFailures \in Nat

VARIABLES
    edit,               \* the promise of each edit
    current,            \* the edit inside the lock of the object
    phase,              \* where its task stands
    base,               \* the version its precondition compares with
    value, version,     \* the local copy: the edit it shows, _versionSequence
    flight,             \* reflected edits being downloaded
    live,               \* those whose acknowledgement still reaches the mediator
    attended,           \* the edit whose message the task manager awaits: one of
                        \* those, or a remote one that awaits the lock of the object
    connected,
    uplink, inbox,      \* frames to and from the mediator
    unacked,            \* the mediator's reflection queue of a device
    holder, pending, committed,     \* the mediator's lock and log
    losses, failures,   \* bounds
    overtaken, missed   \* history: older edit applied last, download failed or lost

copy == <<value, version, overtaken>>
task == <<edit, current, phase, base>>
arrivals == <<flight, live, attended, missed, failures>>
mediator == <<holder, pending, committed>>
wires == <<uplink, inbox, unacked>>
vars == <<copy, task, arrivals, mediator, wires, connected, losses>>

Answers == {"begin_ack", "rejected", "ended", "reflect_ack", "commit_ack"}
Frames == [type : {"reflected"}, edit : Edits] \cup [type : Answers, edit : {NoEdit}]
Signal(type) == [type |-> type, edit |-> NoEdit]
Reflected(e) == [type |-> "reflected", edit |-> e]

Reading == {"begin", "blocked", "reflect", "commit", "void"}    \* inside read
Executing == {"upload", "reflect"}
NotRunning == {"idle", "queued", "lost"}        \* nothing of it in the task manager
Phases == {"upload"} \cup NotRunning \cup Reading

Init ==
    /\ edit = [e \in Edits |-> "new"]
    /\ current = [d \in Devices |-> NoEdit]
    /\ phase = [d \in Devices |-> "idle"]
    /\ base = [d \in Devices |-> 0]
    /\ value = [d \in Devices |-> NoEdit]
    /\ version = [d \in Devices |-> 0]
    /\ flight = [d \in Devices |-> {}] /\ live = [d \in Devices |-> {}]
    /\ attended = [d \in Devices |-> NoEdit]
    /\ connected = [d \in Devices |-> TRUE]
    /\ uplink = [d \in Devices |-> "none"]
    /\ inbox = [d \in Devices |-> <<>>]
    /\ unacked = [d \in Devices |-> {}]
    /\ holder = NoDevice /\ pending = {} /\ committed = <<>>
    /\ losses = 0 /\ failures = 0 /\ overtaken = {} /\ missed = {}

-----------------------------------------------------------------------------
\* The mediator

Send(d, type) == uplink' = [uplink EXCEPT ![d] = type]
Answer(d, type) == inbox' = [inbox EXCEPT ![d] = Append(@, Signal(type))]

\* TransactionEnded goes to the connected devices other than the holder.
EndedFor(x, d) == IF x # d /\ connected[x] THEN <<Signal("ended")>> ELSE <<>>

MediatorBegin(d) ==
    /\ uplink[d] = "begin" /\ Send(d, "none")
    /\ \/ /\ holder = NoDevice /\ holder' = d
          /\ Answer(d, "begin_ack")
       \/ /\ holder # NoDevice /\ UNCHANGED holder
          /\ Answer(d, "rejected")
    /\ UNCHANGED <<pending, committed, unacked>>

MediatorReflect(d) ==
    /\ uplink[d] = "reflect" /\ Send(d, "none")
    /\ pending' = {current[d]}
    /\ Answer(d, "reflect_ack")
    /\ UNCHANGED <<holder, committed, unacked>>

MediatorCommit(d) ==
    /\ uplink[d] = "commit" /\ Send(d, "none")
    /\ holder' = NoDevice /\ pending' = {}
    /\ LET news == IF pending = {} THEN <<>> ELSE <<CHOOSE e \in pending : TRUE>>
       IN  /\ committed' = committed \o news
           /\ inbox' = [x \in Devices |->
                 IF x = d THEN Append(inbox[d], Signal("commit_ack"))
                 ELSE inbox[x] \o [i \in DOMAIN news |-> Reflected(news[i])] \o EndedFor(x, d)]
           /\ unacked' = [x \in Devices |-> IF x = d THEN unacked[x] ELSE unacked[x] \cup pending]

Mediate(d) ==
    /\ MediatorBegin(d) \/ MediatorReflect(d) \/ MediatorCommit(d)
    /\ UNCHANGED <<copy, task, arrivals, connected, losses>>

-----------------------------------------------------------------------------
\* The local copy

Position(e) == CHOOSE i \in DOMAIN committed : committed[i] = e

\* _persistProfilePicture, _update: the last to be applied is shown.
Apply(d, e) ==
    /\ value' = [value EXCEPT ![d] = e]
    /\ version' = [version EXCEPT ![d] = @ + 1]
    /\ overtaken' = IF value[d] # NoEdit /\ Position(e) < Position(value[d])
                    THEN overtaken \cup {d} ELSE overtaken

-----------------------------------------------------------------------------
\* The transaction

\* The lock of the object is taken, and the precondition captures the version.
Lock(e, p) ==
    LET d == Owner[e] IN
    /\ edit[e] = "new" /\ current[d] = NoEdit
    /\ edit' = [edit EXCEPT ![e] = "open"]
    /\ current' = [current EXCEPT ![d] = e]
    /\ base' = [base EXCEPT ![d] = version[d]]
    /\ phase' = [phase EXCEPT ![d] = p]

\* A local edit. The task is scheduled; without a connection it is rejected at
\* once, which releases the lock.
Schedule(e) ==
    LET d == Owner[e] IN
    /\ e \notin Remote
    /\ \/ connected[d] /\ Lock(e, "queued")
       \/ /\ ~connected[d] /\ edit[e] = "new" /\ current[d] = NoEdit
          /\ edit' = [edit EXCEPT ![e] = "rejected"]
          /\ UNCHANGED <<current, phase, base>>
    /\ UNCHANGED <<copy, arrivals, mediator, wires, connected, losses>>

\* A message of the contact that makes a remote edit is processed by a task.
Process(e) ==
    LET d == Owner[e] IN
    /\ e \in Remote /\ edit[e] = "new"
    /\ connected[d] /\ attended[d] = NoEdit /\ phase[d] \in NotRunning
    /\ attended' = [attended EXCEPT ![d] = e]
    /\ UNCHANGED <<copy, task, flight, live, missed, failures, mediator, wires, connected, losses>>

\* That task gets the lock of the object and runs the transaction at once, with
\* its own handle.
RunWithin(e) ==
    LET d == Owner[e] IN
    /\ e \in Remote /\ attended[d] = e /\ connected[d]
    /\ attended' = [attended EXCEPT ![d] = NoEdit]
    /\ Lock(e, "begin") /\ Send(d, "begin")
    /\ UNCHANGED <<copy, flight, live, missed, failures, mediator, inbox, unacked, connected, losses>>

\* Mutant: the captured version is not compared.
PreconditionNotChecked(d) == TRUE

Precondition(d) == version[d] = base[d]

Goto(d, p) == phase' = [phase EXCEPT ![d] = p] /\ UNCHANGED <<edit, current, base>>

\* The promise of the task settles and the lock of the object is released.
Settle(d, outcome) ==
    /\ edit' = [edit EXCEPT ![current[d]] = outcome]
    /\ current' = [current EXCEPT ![d] = NoEdit]
    /\ phase' = [phase EXCEPT ![d] = "idle"]
    /\ UNCHANGED base

Begin(d) ==
    /\ connected[d] /\ phase[d] = "queued" /\ attended[d] = NoEdit
    /\ Goto(d, "begin") /\ Send(d, "begin")
    /\ UNCHANGED <<copy, arrivals, mediator, inbox, unacked, connected, losses>>

\* The executor has uploaded the picture and reflects.
Uploaded(d) ==
    /\ connected[d] /\ phase[d] = "upload"
    /\ Goto(d, "reflect") /\ Send(d, "reflect")
    /\ UNCHANGED <<copy, arrivals, mediator, inbox, unacked, connected, losses>>

\* BEGIN_TRANSACTION_ACK. Without the precondition the executor is skipped, and
\* the transaction is committed all the same.
Granted(d) ==
    IF Precondition(d)
    THEN Goto(d, "upload") /\ UNCHANGED uplink
    ELSE Goto(d, "void") /\ Send(d, "commit")

\* Mutant: the end of the other transaction is taken for the lock.
RetryWithoutBegin(d) ==
    IF Precondition(d)
    THEN Goto(d, "upload") /\ UNCHANGED uplink
    ELSE Settle(d, "aborted") /\ UNCHANGED uplink

\* TRANSACTION_ENDED after a rejection: again, if the precondition still holds.
Retry(d) ==
    IF Precondition(d)
    THEN Goto(d, "begin") /\ Send(d, "begin")
    ELSE Settle(d, "aborted") /\ UNCHANGED uplink

Accepts(d, type) ==
    \/ phase[d] = "begin" /\ type \in {"begin_ack", "rejected"}
    \/ phase[d] = "blocked" /\ type = "ended"
    \/ phase[d] = "reflect" /\ type = "reflect_ack"
    \/ phase[d] \in {"commit", "void"} /\ type = "commit_ack"

\* The running task reads an answer that it waits for.
ReadAnswer(d, type) ==
    /\ Accepts(d, type)
    /\ \/ type = "begin_ack" /\ Granted(d) /\ UNCHANGED copy
       \/ type = "rejected" /\ Goto(d, "blocked") /\ UNCHANGED <<uplink, copy>>
       \/ type = "ended" /\ Retry(d) /\ UNCHANGED copy
       \/ type = "reflect_ack" /\ Goto(d, "commit") /\ Send(d, "commit") /\ UNCHANGED copy
       \/ /\ type = "commit_ack" /\ phase[d] = "commit"
          /\ Settle(d, "success") /\ Apply(d, current[d]) /\ UNCHANGED uplink
       \/ /\ type = "commit_ack" /\ phase[d] = "void"
          /\ Settle(d, "aborted") /\ UNCHANGED <<uplink, copy>>
    /\ UNCHANGED <<arrivals, unacked>>

\* Backlogged by the running task, or ignored by the manager.
Ignore(d, type) ==
    /\ ~Accepts(d, type)
    /\ UNCHANGED <<copy, task, arrivals, uplink, unacked>>

-----------------------------------------------------------------------------
\* Reflected edits

Acknowledge(d, e) == unacked' = [unacked EXCEPT ![d] = @ \ {e}]

\* Mutants: a running task backlogs reflected messages, too; every edit is
\* handled as a picture.
ReadReflectedWithoutBypass(d, e) ==
    /\ IF phase[d] \in Reading
       THEN UNCHANGED <<copy, arrivals, unacked>>
       ELSE Apply(d, e) /\ Acknowledge(d, e) /\ UNCHANGED arrivals
    /\ UNCHANGED <<task, uplink>>
ReadReflectedDownloadsAll(d, e) ==
    /\ flight' = [flight EXCEPT ![d] = @ \cup {e}]
    /\ UNCHANGED <<copy, live, attended, missed, failures, unacked, task, uplink>>

\* A reflected edit is applied by a task of its own, or by a bypass of the
\* running task's read, which does not await it. If the download that an earlier
\* connection began still runs, its nonce is registered: discarded.
ReadReflected(d, e) ==
    /\ \/ /\ e \in flight[d] /\ Acknowledge(d, e)
          /\ UNCHANGED <<copy, arrivals>>
       \/ /\ e \notin flight[d] /\ e \notin Slow
          /\ Apply(d, e) /\ Acknowledge(d, e)
          /\ UNCHANGED arrivals
       \/ /\ e \notin flight[d] /\ e \in Slow
          /\ flight' = [flight EXCEPT ![d] = @ \cup {e}]
          /\ live' = [live EXCEPT ![d] = @ \cup {e}]
          /\ attended' = IF phase[d] \in Reading THEN attended
                         ELSE [attended EXCEPT ![d] = e]
          /\ UNCHANGED <<copy, missed, failures, unacked>>
    /\ UNCHANGED <<task, uplink>>

Read(d) ==
    /\ connected[d] /\ inbox[d] # <<>>
    /\ phase[d] \in Reading \/ (phase[d] \in NotRunning /\ attended[d] = NoEdit)
    /\ inbox' = [inbox EXCEPT ![d] = Tail(@)]
    /\ LET frame == Head(inbox[d])
       IN  \/ frame.type = "reflected" /\ ReadReflected(d, frame.edit)
           \/ frame.type # "reflected" /\ (ReadAnswer(d, frame.type) \/ Ignore(d, frame.type))
    /\ UNCHANGED <<mediator, connected, losses>>

\* A download is over. The acknowledgement on a closed connection throws.
Landed(d, e) ==
    /\ e \in flight[d]
    /\ flight' = [flight EXCEPT ![d] = @ \ {e}]
    /\ live' = [live EXCEPT ![d] = @ \ {e}]
    /\ attended' = IF attended[d] = e THEN [attended EXCEPT ![d] = NoEdit] ELSE attended
    /\ IF e \in live[d] THEN Acknowledge(d, e) ELSE UNCHANGED unacked
    /\ UNCHANGED <<task, mediator, uplink, inbox, connected, losses>>

Downloaded(d, e) ==
    /\ Landed(d, e) /\ Apply(d, e)
    /\ UNCHANGED <<missed, failures>>

\* The error is logged and the message acknowledged.
DownloadFailed(d, e) ==
    /\ failures < MaxFailures /\ failures' = failures + 1
    /\ Landed(d, e) /\ missed' = missed \cup {d}
    /\ UNCHANGED copy

-----------------------------------------------------------------------------
\* Connections

\* What is left of the reflection queue is reflected again, in order.
Redelivered(d) ==
    {[i \in DOMAIN kept |-> Reflected(kept[i])] : kept \in Filtered(committed, unacked[d])}

\* The mediator aborts the transaction of a device whose connection is gone.
Drop(d) ==
    /\ connected[d] /\ losses < MaxLosses /\ losses' = losses + 1
    /\ connected' = [connected EXCEPT ![d] = FALSE]
    /\ Send(d, "none")
    /\ IF holder = d THEN holder' = NoDevice /\ pending' = {} ELSE UNCHANGED <<holder, pending>>
    /\ \E again \in Redelivered(d) :
          inbox' = [x \in Devices |->
              IF x = d THEN again
              ELSE IF holder = d THEN inbox[x] \o EndedFor(x, d) ELSE inbox[x]]
    /\ live' = [live EXCEPT ![d] = {}]
    /\ attended' = [attended EXCEPT ![d] = NoEdit]
    /\ UNCHANGED <<committed, unacked, failures>>

\* A scheduled task keeps the lock of the object. What runs within the task of a
\* message fails, unless it is uploading, and releases the lock; if that task
\* still awaits the lock, it fails when it gets it. The message is delivered and
\* processed again, as another edit.
Disconnect(d) ==
    /\ Drop(d)
    /\ IF current[d] \in Remote /\ phase[d] \in Reading THEN Settle(d, "rejected")
       ELSE Goto(d, IF current[d] = NoEdit THEN "idle" ELSE "lost")
    /\ UNCHANGED <<copy, flight, missed>>

\* The upload of a remote edit is over; on the closed connection, reflecting fails.
Aborted(d) ==
    /\ current[d] \in Remote /\ phase[d] = "lost"
    /\ Settle(d, "rejected")
    /\ UNCHANGED <<copy, arrivals, mediator, wires, connected, losses>>

\* The process ends. The copy is in the database; nobody is told of the edit. A
\* download whose edit a later connection discarded and acknowledged is lost.
Restart(d) ==
    /\ Drop(d)
    /\ IF current[d] = NoEdit THEN UNCHANGED task ELSE Settle(d, "rejected")
    /\ flight' = [flight EXCEPT ![d] = {}]
    /\ missed' = IF flight[d] \subseteq unacked[d] THEN missed ELSE missed \cup {d}
    /\ UNCHANGED copy

\* Mutants: volatile tasks are neither run nor rejected; the loss of the connection
\* is reported as a conflict.
ReconnectKeepsVolatile(d) ==
    /\ ~connected[d] /\ connected' = [connected EXCEPT ![d] = TRUE]
    /\ UNCHANGED <<copy, task, arrivals, mediator, wires, losses>>
ReconnectReportsConflict(d) ==
    /\ ~connected[d] /\ connected' = [connected EXCEPT ![d] = TRUE]
    /\ IF current[d] \in Edits \ Remote THEN Settle(d, "aborted") ELSE UNCHANGED task
    /\ UNCHANGED <<copy, arrivals, mediator, wires, losses>>

\* The volatile tasks that are left are rejected.
Reconnect(d) ==
    /\ ~connected[d] /\ connected' = [connected EXCEPT ![d] = TRUE]
    /\ IF current[d] \in Edits \ Remote THEN Settle(d, "rejected") ELSE UNCHANGED task
    /\ UNCHANGED <<copy, arrivals, mediator, wires, losses>>

-----------------------------------------------------------------------------

Next ==
    \/ \E e \in Edits : Schedule(e) \/ Process(e) \/ RunWithin(e)
    \/ \E d \in Devices :
          \/ Begin(d) \/ Uploaded(d) \/ Mediate(d) \/ Read(d)
          \/ \E e \in Edits : Downloaded(d, e) \/ DownloadFailed(d, e)
          \/ Disconnect(d) \/ Restart(d) \/ Aborted(d) \/ Reconnect(d)

Spec == Init /\ [][Next]_vars

\* The manager and the mediator go on, and the connection manager connects again.
\* Nothing ends a request to the blob server, or a connection that is open.
Fairness ==
    /\ \A e \in Edits : WF_vars(RunWithin(e))
    /\ \A d \in Devices :
          WF_vars(Begin(d)) /\ WF_vars(Mediate(d)) /\ WF_vars(Read(d)) /\ WF_vars(Reconnect(d))

FairSpec == Spec /\ Fairness

(***************************************************************************)
(* Properties                                                              *)
(***************************************************************************)

TaskTypes ==
    /\ edit \in [Edits -> {"new", "open", "success", "aborted", "rejected"}]
    /\ current \in [Devices -> Edits \cup {NoEdit}]
    /\ phase \in [Devices -> Phases]
    /\ base \in [Devices -> Nat]
CopyTypes ==
    /\ version \in [Devices -> Nat] /\ value \in [Devices -> Edits \cup {NoEdit}]
    /\ overtaken \in SUBSET Devices /\ missed \in SUBSET Devices
ArrivalTypes ==
    /\ flight \in [Devices -> SUBSET Slow] /\ live \in [Devices -> SUBSET Slow]
    /\ attended \in [Devices -> Slow \cup Remote \cup {NoEdit}]
WireTypes ==
    /\ connected \in [Devices -> BOOLEAN]
    /\ uplink \in [Devices -> {"none", "begin", "reflect", "commit"}]
    /\ inbox \in [Devices -> Seq(Frames)]
    /\ unacked \in [Devices -> SUBSET Edits]
MediatorTypes ==
    /\ holder \in Devices \cup {NoDevice} /\ pending \in SUBSET Edits
    /\ committed \in Seq(Edits)
BoundTypes == losses \in 0..MaxLosses /\ failures \in 0..MaxFailures

\* The values that every variable may take.
TypeOK ==
    TaskTypes /\ CopyTypes /\ ArrivalTypes /\ WireTypes /\ MediatorTypes /\ BoundTypes

IsCommitted(e) == \E i \in DOMAIN committed : committed[i] = e

\* The content that the whole group agreed on.
Latest == IF committed = <<>> THEN NoEdit ELSE committed[Len(committed)]

\* Its edit was committed, but it has never learned of it.
Orphaned(d) == \E e \in Edits : Owner[e] = d /\ IsCommitted(e) /\ edit[e] = "rejected"

Quiet ==
    \A d \in Devices :
        connected[d] /\ current[d] = NoEdit /\ inbox[d] = <<>> /\ flight[d] = {}

\* An executor runs only while the mediator holds the lock of the group for its
\* device, so that two devices never run one at the same time, whatever answers
\* of earlier attempts, other devices' endings and lost connections there are.
ExecutorHoldsLock == \A d \in Devices : phase[d] \in Executing => holder = d

\* An executor starts only for an edit that was made on the state that the
\* group agreed on: the precondition, put again after the lock is acquired,
\* notices every edit committed before, unless one of them is still being
\* downloaded, a download has failed, was lost or has overtaken another, or the
\* device has lost the answer to a commit of its own.
ExecutorUpToDate ==
    [][\A d \in Devices :
        (/\ phase[d] # "upload" /\ phase'[d] = "upload"
         /\ flight[d] = {} /\ d \notin overtaken \cup missed /\ ~Orphaned(d))
            => value[d] = Latest /\ version[d] = base[d]]_vars

\* What the caller of an edit is told is true for the group: a success has been
\* committed, and an edit reported as a conflict is never seen by anyone.
OutcomeTrue ==
    \A e \in Edits :
        /\ edit[e] = "success" => IsCommitted(e)
        /\ edit[e] = "aborted" => ~IsCommitted(e) /\ e \notin pending

\* When all is quiet, a device shows what was committed last. The exceptions are
\* those of ExecutorUpToDate.
Converged ==
    Quiet => \A d \in Devices :
        value[d] = Latest \/ d \in overtaken \cup missed \/ Orphaned(d)

\* Without the exceptions, which the comment in transaction does not make: "the
\* precondition check ensures a consistent state across devices".
Consistent == Quiet => \A d \in Devices : value[d] = Latest

\* A request to the blob server that the task manager, the lock of the group or
\* the lock of the object waits for.
Hangs(d) ==
    \/ phase[d] = "upload" \/ attended[d] \in flight[d]
    \/ current[d] \in Remote /\ phase[d] = "lost"

\* The task of a local edit is queued behind the task of a message, which awaits
\* the lock of the object that the edit holds. Only a lost connection ends it.
Entangled(d) == attended[d] \in Remote \ flight[d] /\ phase[d] = "queued"

\* The promise of an edit settles, however often the lock of the group was held by
\* others, if no request to the blob server hangs and no local edit of a device and
\* a message that edits the same object wait for each other.
EditSettles ==
    (\A d \in Devices : []<>(~Hangs(d) /\ ~Entangled(d)))
        => \A e \in Edits : edit[e] = "open" ~> edit[e] # "open"

\* Without the second exception.
EditSettlesUnlessHanging ==
    (\A d \in Devices : []<>~Hangs(d)) => \A e \in Edits : edit[e] = "open" ~> edit[e] # "open"

================================================================================
