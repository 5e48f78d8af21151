-------------------------------- MODULE Outgoing --------------------------------
(***************************************************************************)
(* The way of an outgoing conversation message from the composer to the    *)
(* server: the durable outbox (model/outgoing-message-outbox.ts), the      *)
(* ordered preparation lane with its upload slots                          *)
(* (model/f1-outgoing-preparation-lane.ts), the job of the lane            *)
(* (model/f1-outgoing-message-dispatch.ts), the uploads and their          *)
(* cancellation (network/protocol/f1-blob-upload-coordinator.ts,           *)
(* model/message/common.ts), and the persistent send task                  *)
(* (task/csp/outgoing-conversation-message.ts), with the process being     *)
(* killed between any two database writes and started again.               *)
(*                                                                         *)
(* Each action is what runs between two awaits. The worker runs all ready  *)
(* continuations, in any order, before the next event (~Ready). What       *)
(* deletes messages, clears conversations or stops the uploads may itself  *)
(* be a continuation, of a task for instance, and comes at any point.      *)
(***************************************************************************)
EXTENDS Naturals, Sequences, FiniteSets, OrderedFilter

CONSTANTS
    Messages,           \* numbered in the order in which they are enrolled
    Conversations,
    Conv,               \* the conversation of a message
    Blobs,              \* the blobs a message has to upload
    Large,              \* messages whose upload counts as large
    Groups,             \* conversations that are groups
    MaxUploads,         \* MAX_CONCURRENT_UPLOADS
    MaxLarge,           \* MAX_CONCURRENT_LARGE_UPLOADS
    Budget,             \* RETRY_BUDGET_MS, in backoff delays
    Clock,              \* the readings of the wall clock when a message is enrolled
    MaxCrashes,         \* bound: how often the process ends
    MaxReconnects,      \* bound: how often the connection breaks
    MaxMeddling         \* bound: how often messages or uploads are meddled with

ASSUME OutgoingAssumption ==
    /\ Messages \subseteq Nat \ {0} /\ IsFiniteSet(Messages)
    /\ Conv \in [Messages -> Conversations]
    /\ Blobs \in [Messages -> SUBSET {"main", "thumbnail"}]
    /\ Large \subseteq Messages /\ Groups \subseteq Conversations
    /\ MaxLarge \in Nat \ {0} /\ MaxUploads \in Nat /\ MaxLarge <= MaxUploads
    /\ Budget \in Nat /\ MaxCrashes \in Nat /\ MaxReconnects \in Nat
    /\ MaxMeddling \in Nat
    /\ Clock \in [Messages -> SUBSET Nat]

VARIABLES
    \* in the database
    row,                \* the outbox
    createdAt,          \* when the row was enrolled
    status,             \* the message
    uploaded,           \* the blobs whose ID is stored in it
    left,               \* groups the user is no longer a member of
    \* in the process
    up,                 \* the process runs
    mid,                \* the message between whose two writes the process is
    lane,               \* _tails: the jobs of each conversation
    stage,              \* where the job of a message stands
    signal,             \* why an entry of the coordinator is aborted
    result,             \* how the upload of a blob ended
    charged,            \* chargedRetryMs, in backoff delays
    slotWaiters, running, runningLarge, shutdown,
    tasks,              \* persistent send tasks, in the order of scheduling
    wire,               \* what the first task has done
    confirmed,          \* tasks that ended, whose row is about to be cleared
    erred,              \* the run of the tasks ended, its queue is not replaced yet
    \* bounds and history
    crashes, reconnects, meddling,
    withdrawn,          \* the send intent was withdrawn by clearing the conversation
    orphans             \* messages whose scheduling threw, since the process started

durable == <<row, createdAt, status, uploaded, left>>
slots == <<slotWaiters, running, runningLarge>>
job == <<stage, signal, result, charged>>
sending == <<tasks, wire, confirmed, erred>>
history == <<crashes, reconnects, meddling, withdrawn>>
vars == <<durable, slots, job, sending, history, up, mid, lane, shutdown, orphans>>

Entries == {"main", "thumbnail", "wait"}
NoSignal == [e \in Entries |-> "no"]
NoResult == [b \in {"main", "thumbnail"} |-> "none"]
None == 0

Init ==
    /\ row = {} /\ createdAt = [m \in Messages |-> 0]
    /\ status = [m \in Messages |-> "new"]
    /\ uploaded = [m \in Messages |-> {}] /\ left = {}
    /\ up = TRUE /\ mid = None
    /\ lane = [c \in Conversations |-> <<>>]
    /\ stage = [m \in Messages |-> "none"]
    /\ signal = [m \in Messages |-> NoSignal]
    /\ result = [m \in Messages |-> NoResult]
    /\ charged = [m \in Messages |-> 0]
    /\ slotWaiters = <<>> /\ running = 0 /\ runningLarge = 0 /\ shutdown = FALSE
    /\ tasks = <<>> /\ wire = "idle" /\ confirmed = {} /\ erred = FALSE
    /\ crashes = 0 /\ reconnects = 0 /\ meddling = 0 /\ withdrawn = {} /\ orphans = {}

-----------------------------------------------------------------------------
\* Looking a message up

\* resolveLiveOutboundMessage, _resolveCurrentMessage
Live(m) == m \in row /\ status[m] = "unsent"
Pending(m) == Blobs[m] \ uploaded[m]
MayWrite(m) == Live(m) /\ Conv[m] \notin left

-----------------------------------------------------------------------------
\* The event loop

\* The entries of the coordinator that are in flight for a message.
InFlight(m) ==
    CASE stage[m] \in {"asking", "waiting", "granted", "backoff"} -> {"wait"}
      [] stage[m] = "uploading" -> {b \in Blobs[m] : result[m][b] = "busy"}
      [] OTHER -> {}

\* A continuation of a job can run.
Ready ==
    \/ confirmed # {}
    \/ \E m \in Messages :
          \/ stage[m] = "queued" /\ Head(lane[Conv[m]]) = m
          \/ stage[m] \in {"asking", "granted"}
          \/ stage[m] = "uploading" /\ InFlight(m) = {}
          \/ \E e \in InFlight(m) : signal[m][e] # "no"

Idle == up /\ mid = None        \* no synchronous sequence of writes is under way
Event == Idle /\ ~Ready
Meddle == Idle /\ meddling < MaxMeddling /\ meddling' = meddling + 1

-----------------------------------------------------------------------------
\* Upload slots

CanStart(large, r, rl) == r < MaxUploads /\ (large => rl < MaxLarge)

Weight(m) == IF m \in Large THEN 1 ELSE 0

Without(seq, i) == SubSeq(seq, 1, i - 1) \o SubSeq(seq, i + 1, Len(seq))

\* The waiters that may start with r uploads running, rl of them large.
AbleAtOldCounts(r, rl) ==
    {i \in DOMAIN slotWaiters : CanStart(slotWaiters[i] \in Large, running, runningLarge)}
Able(r, rl) == {i \in DOMAIN slotWaiters : CanStart(slotWaiters[i] \in Large, r, rl)}

\* A slot is given back and handed to the first waiter that may start. The loop
\* goes on to the end of the queue; NoStartableWaiter says it finds nobody else.
Release(m, others) ==
    LET r == running - 1
        rl == runningLarge - Weight(m)
    IN  IF Able(r, rl) = {}
        THEN /\ running' = r /\ runningLarge' = rl /\ UNCHANGED slotWaiters
             /\ stage' = others
        ELSE LET i == CHOOSE i \in Able(r, rl) : \A j \in Able(r, rl) : i <= j
                 w == slotWaiters[i]
             IN  /\ running' = r + 1 /\ runningLarge' = rl + Weight(w)
                 /\ slotWaiters' = Without(slotWaiters, i)
                 /\ stage' = [others EXCEPT ![w] = "granted"]

-----------------------------------------------------------------------------
\* The coordinator cancels entries

\* The first reason wins. A waiter leaves the slot queue at once.
AbortEntries(ms, entries, reason) ==
    /\ signal' = [m \in Messages |-> [e \in Entries |->
           IF m \in ms /\ e \in InFlight(m) \cap entries /\ signal[m][e] = "no"
           THEN reason ELSE signal[m][e]]]
    /\ slotWaiters' = FilterSeq(slotWaiters, Messages \ ms)
AbortUnrejected(ms, reason) == AbortEntries(ms, Entries \ {"wait"}, reason)
Abort(ms, reason) == AbortEntries(ms, Entries, reason)

-----------------------------------------------------------------------------
\* Composing

\* Two sends may overtake each other while they wait for the contact to become a
\* direct one and for the conversation to be unarchived: that is before
\* enrollOutgoingMessageInOutbox. createdAt is whatever the wall clock reads: the
\* same for two messages of a millisecond, and less when the clock was set back.
Enroll(m) ==
    /\ Event /\ status[m] = "new"
    /\ \A n \in Messages : n < m /\ Conv[n] = Conv[m] => status[n] # "new"
    /\ row' = row \cup {m}
    /\ \E at \in Clock[m] : createdAt' = [createdAt EXCEPT ![m] = at]
    /\ status' = [status EXCEPT ![m] = "absent"]
    /\ mid' = m
    /\ UNCHANGED <<uploaded, left, slots, job, sending, history, up, lane, shutdown, orphans>>

\* The message is persisted and dispatched: into the lane, unless it is shut down.
Persist(m) ==
    /\ up /\ mid = m /\ status[m] = "absent"
    /\ status' = [status EXCEPT ![m] = "unsent"]
    /\ IF shutdown
       THEN UNCHANGED <<lane, stage>>
       ELSE /\ lane' = [lane EXCEPT ![Conv[m]] = Append(@, m)]
            /\ stage' = [stage EXCEPT ![m] = "queued"]
    /\ mid' = None
    /\ UNCHANGED <<row, createdAt, uploaded, left, slots, signal, result, charged, sending,
                   history, up, shutdown, orphans>>

-----------------------------------------------------------------------------
\* The job of a message

Forget(m) ==
    /\ lane' = [lane EXCEPT ![Conv[m]] = Tail(@)]
    /\ signal' = [signal EXCEPT ![m] = NoSignal]
    /\ result' = [result EXCEPT ![m] = NoResult]
    /\ charged' = [charged EXCEPT ![m] = 0]

Ended(m) == [stage EXCEPT ![m] = "none"]

\* The job ends; the row is cleared or left to the next start.
EndJob(m, clear) ==
    /\ Forget(m)
    /\ row' = IF clear THEN row \ {m} ELSE row
    /\ UNCHANGED <<status, mid, tasks, orphans>>

\* The send failed terminally: sendFailedAt is stored, then the row is cleared.
\* The lane goes on to the next job once both are written.
GiveUp(m) ==
    IF Live(m)
    THEN /\ status' = [status EXCEPT ![m] = "failed"]
         /\ mid' = m
         /\ UNCHANGED <<lane, signal, result, charged, row, tasks, orphans>>
    ELSE EndJob(m, TRUE)

\* The end of prepareAndSchedule: the send task is scheduled. The queue of a run
\* that ended throws, which the lane only logs: the row is left, and nobody works
\* on it before the next start.
Schedule(m) ==
    /\ Forget(m)
    /\ tasks' = IF erred THEN tasks ELSE Append(tasks, m)
    /\ orphans' = IF erred THEN orphans \cup {m} ELSE orphans
    /\ UNCHANGED <<row, status, mid>>
HandOverOrClear(m) == IF shutdown \/ ~Live(m) THEN EndJob(m, TRUE) ELSE Schedule(m)
HandOver(m) == IF shutdown \/ ~Live(m) THEN EndJob(m, ~shutdown) ELSE Schedule(m)

\* An outcome that ends the job: "gone" clears the row, "interrupted" keeps it.
EndWith(m, outcome) == EndJob(m, outcome = "gone")

jobRest == <<createdAt, uploaded, left, wire, confirmed, erred, history, up, shutdown>>

\* From the start of the job, or of a further round of uploadWithRetries, to the
\* wait for a slot.
NextRound(m) ==
    IF ~Live(m)
    THEN EndJob(m, TRUE) /\ stage' = Ended(m)
    ELSE IF Pending(m) = {}
    THEN HandOver(m) /\ stage' = Ended(m)
    ELSE /\ stage' = [stage EXCEPT ![m] = "asking"]
         /\ signal' = [signal EXCEPT ![m] = NoSignal]
         /\ result' = [result EXCEPT ![m] = NoResult]
         /\ UNCHANGED <<charged, lane, row, status, mid, tasks, orphans>>

StartJob(m) ==
    /\ Idle /\ stage[m] = "queued" /\ Head(lane[Conv[m]]) = m
    /\ NextRound(m)
    /\ UNCHANGED <<slots, jobRest>>

\* acquireUploadSlot: take a slot, or wait for one.
AskForSlot(m) ==
    /\ Idle /\ stage[m] = "asking"
    /\ IF signal[m]["wait"] # "no"
       THEN /\ EndWith(m, signal[m]["wait"]) /\ stage' = Ended(m)
            /\ UNCHANGED slots
       ELSE /\ IF CanStart(m \in Large, running, runningLarge)
               THEN /\ running' = running + 1 /\ runningLarge' = runningLarge + Weight(m)
                    /\ stage' = [stage EXCEPT ![m] = "granted"]
                    /\ UNCHANGED slotWaiters
               ELSE /\ slotWaiters' = Append(slotWaiters, m)
                    /\ stage' = [stage EXCEPT ![m] = "waiting"]
                    /\ UNCHANGED <<running, runningLarge>>
            /\ UNCHANGED <<lane, signal, result, charged, row, status, mid, tasks, orphans>>
    /\ UNCHANGED jobRest

\* A job whose wait was aborted ends.
WaitAborted(m) ==
    /\ Idle /\ stage[m] \in {"waiting", "backoff"} /\ signal[m]["wait"] # "no"
    /\ EndWith(m, signal[m]["wait"]) /\ stage' = Ended(m)
    /\ UNCHANGED <<slots, jobRest>>

\* What attemptUpload finds when it looks again.
AttemptIfLive(m) == IF Live(m) THEN "started" ELSE "gone"
Attempt(m) == IF shutdown THEN "interrupted" ELSE AttemptIfLive(m)

\* The wait was aborted between the grant and the continuation: the slot is given
\* back.
KeepSlot(m) == EndWith(m, signal[m]["wait"]) /\ stage' = Ended(m) /\ UNCHANGED slots
GiveSlotBack(m) == EndWith(m, signal[m]["wait"]) /\ Release(m, Ended(m))

\* The job holds a slot: the uploads of all pending blobs start.
StartUpload(m) ==
    /\ Idle /\ stage[m] = "granted"
    /\ IF signal[m]["wait"] # "no"
       THEN GiveSlotBack(m)
       ELSE IF Attempt(m) # "started"
       THEN EndWith(m, Attempt(m)) /\ Release(m, Ended(m))
       ELSE /\ stage' = [stage EXCEPT ![m] = "uploading"]
            /\ result' = [result EXCEPT ![m] =
                  [b \in DOMAIN @ |-> IF b \in Pending(m) THEN "busy" ELSE "none"]]
            /\ UNCHANGED <<slots, signal, charged, lane, row, status, mid, tasks, orphans>>
    /\ UNCHANGED jobRest

-----------------------------------------------------------------------------
\* The uploads

uploadRest == <<row, createdAt, status, left, slots, stage, charged, sending, history, up, mid,
                lane, shutdown, orphans>>

Uploading(m, b) == Event /\ stage[m] = "uploading" /\ b \in InFlight(m)

\* The blob ID is stored as soon as the blob is uploaded.
BlobUploaded(m, b) ==
    /\ Uploading(m, b)
    /\ uploaded' = [uploaded EXCEPT ![m] = @ \cup {b}]
    /\ result' = [result EXCEPT ![m][b] = "ok"]
    /\ UNCHANGED <<signal, uploadRest>>

\* The server answered with an error, or nothing did: to be retried.
BlobFailed(m, b) ==
    /\ Uploading(m, b)
    /\ \E failure \in {"answered", "transport"} : result' = [result EXCEPT ![m][b] = failure]
    /\ UNCHANGED <<signal, uploaded, uploadRest>>

\* A terminal failure aborts the upload of the sibling.
BlobRefused(m, b) ==
    /\ Uploading(m, b)
    /\ result' = [result EXCEPT ![m][b] = "terminal"]
    /\ signal' = [signal EXCEPT ![m] =
          [e \in Entries |-> IF e \in InFlight(m) \ {b} /\ @[e] = "no" THEN "sibling" ELSE @[e]]]
    /\ UNCHANGED <<uploaded, uploadRest>>

\* A cancelled upload ends at once, whatever the transport does.
BlobCancelled(m, b) ==
    /\ Idle /\ stage[m] = "uploading" /\ b \in InFlight(m) /\ signal[m][b] # "no"
    /\ result' = [result EXCEPT ![m][b] = signal[m][b]]
    /\ UNCHANGED <<signal, uploaded, uploadRest>>

\* pickPrimaryFailure
Primary(failures) ==
    CASE failures = {} -> "ok"
      [] "gone" \in failures -> "gone"
      [] "interrupted" \in failures -> "interrupted"
      [] "terminal" \in failures -> "terminal"
      [] "answered" \in failures -> "answered"
      [] OTHER -> "transport"

\* The next delay would exceed the budget.
OverBudgetLate(m) == charged[m] > Budget
OverBudget(m) == charged[m] + 1 > Budget

Backoff(m) ==
    /\ Release(m, [stage EXCEPT ![m] = "backoff"])
    /\ signal' = [signal EXCEPT ![m] = NoSignal]
    /\ UNCHANGED <<result, lane, row, status, mid, tasks, orphans>>

\* All uploads of the attempt have settled: the slot is given back, and the job
\* goes on as the outcome says. Only answered failures are charged.
AttemptEnds(m) ==
    /\ Idle /\ stage[m] = "uploading" /\ InFlight(m) = {}
    /\ LET outcome == Primary({result[m][b] : b \in Blobs[m]} \ {"ok", "none"})
       IN  IF outcome = "ok"
           THEN HandOver(m) /\ Release(m, Ended(m))
           ELSE IF outcome \in {"gone", "interrupted"}
           THEN EndWith(m, outcome) /\ Release(m, Ended(m))
           ELSE IF outcome = "terminal" \/ (outcome = "answered" /\ OverBudget(m))
           THEN GiveUp(m) /\ Release(m, IF Live(m) THEN [stage EXCEPT ![m] = "failing"]
                                                   ELSE Ended(m))
           ELSE IF ~Live(m)
           THEN EndJob(m, TRUE) /\ Release(m, Ended(m))
           ELSE /\ charged' = [charged EXCEPT ![m] = IF outcome = "answered" THEN @ + 1 ELSE @]
                /\ Backoff(m)
    /\ UNCHANGED jobRest

\* The second write of giveUp, of the terminal failures of the send task, and of
\* nothing else: the row is cleared.
ClearFailed(m) ==
    /\ up /\ mid = m /\ status[m] = "failed"
    /\ row' = row \ {m} /\ mid' = None
    /\ IF stage[m] = "failing"
       THEN Forget(m) /\ stage' = Ended(m) /\ UNCHANGED sending
       ELSE /\ tasks' = Tail(tasks) /\ wire' = "idle" /\ confirmed' = confirmed \cup {m}
            /\ UNCHANGED <<lane, job, erred>>
    /\ UNCHANGED <<createdAt, status, uploaded, left, slots, history, up, shutdown, orphans>>

\* The delay before a retry is over.
BackoffElapsed(m) ==
    /\ Event /\ stage[m] = "backoff"
    /\ IF shutdown THEN EndJob(m, FALSE) /\ stage' = Ended(m) ELSE NextRound(m)
    /\ UNCHANGED <<slots, jobRest>>

-----------------------------------------------------------------------------
\* The send task: the first of the queue of persistent tasks runs

sendRest == <<createdAt, uploaded, left, slots, job, erred, history, up, lane, shutdown, orphans>>

Sender(m) == Event /\ ~erred /\ tasks # <<>> /\ Head(tasks) = m

\* The task resolves; its row is cleared in a continuation.
TaskEnds(m) ==
    /\ tasks' = Tail(tasks) /\ wire' = "idle" /\ confirmed' = confirmed \cup {m}
    /\ UNCHANGED <<row, mid>>

\* _sendPrecondition and the check for missing blobs: a message that can never be
\* sent fails terminally, one that is no longer live is left.
Dismiss(m) ==
    IF Live(m)
    THEN status' = [status EXCEPT ![m] = "failed"] /\ mid' = m /\ UNCHANGED <<row, sending>>
    ELSE TaskEnds(m) /\ UNCHANGED status

\* The task starts and reflects the message.
TaskRuns(m) ==
    /\ Sender(m) /\ wire = "idle"
    /\ IF MayWrite(m) /\ Pending(m) = {}
       THEN wire' = "reflected" /\ UNCHANGED <<tasks, confirmed, row, status, mid>>
       ELSE Dismiss(m)
    /\ UNCHANGED sendRest

\* The precondition holds at the moment the message enters the outgoing queue.
TaskWrites(m) ==
    /\ Sender(m) /\ wire = "reflected"
    /\ IF MayWrite(m)
       THEN wire' = "written" /\ UNCHANGED <<tasks, confirmed, row, status, mid>>
       ELSE Dismiss(m)
    /\ UNCHANGED sendRest

\* The server acknowledged, the update is reflected, sentAt is stored.
TaskAcked(m) ==
    /\ Sender(m) /\ wire = "written"
    /\ status' = [status EXCEPT ![m] = IF @ = "absent" THEN @ ELSE "sent"]
    /\ TaskEnds(m)
    /\ UNCHANGED sendRest

\* The continuation of schedule(...) in prepareAndSchedule.
ClearRow(m) ==
    /\ Idle /\ m \in confirmed
    /\ row' = row \ {m} /\ confirmed' = confirmed \ {m}
    /\ UNCHANGED <<status, mid, tasks, wire, sendRest>>

-----------------------------------------------------------------------------
\* What happens to the process and to the messages meanwhile

\* The connection breaks, and the run of the tasks ends: its queue is in error.
ConnectionBreaks ==
    /\ Idle /\ ~erred /\ reconnects < MaxReconnects
    /\ reconnects' = reconnects + 1 /\ wire' = "idle" /\ erred' = TRUE
    /\ UNCHANGED <<durable, slots, job, tasks, confirmed, crashes, meddling, withdrawn, up, mid,
                   lane, shutdown, orphans>>

\* The task manager is replaced. It keeps the persistent tasks; once connected
\* again, the first of them runs from its start.
Replaced ==
    /\ Idle /\ erred /\ erred' = FALSE
    /\ UNCHANGED <<durable, slots, job, tasks, wire, confirmed, history, up, mid, lane, shutdown,
                   orphans>>

\* The message is deleted, with its row; its lifetime guard cancels its uploads.
Remove(m) ==
    /\ Meddle /\ status[m] \in {"unsent", "sent", "failed"}
    /\ status' = [status EXCEPT ![m] = "absent"]
    /\ row' = row \ {m}
    /\ Abort({m}, "gone")
    /\ UNCHANGED <<createdAt, uploaded, left, running, runningLarge, stage, result, charged,
                   sending, crashes, reconnects, withdrawn, up, mid, lane, shutdown, orphans>>

\* The conversation is cleared softly: its rows go and its uploads are cancelled,
\* its messages stay.
SoftClear(c) ==
    LET ofC == {m \in Messages : Conv[m] = c}
    IN  /\ Meddle /\ row \cap ofC # {}
        /\ row' = row \ ofC
        /\ withdrawn' = withdrawn \cup {m \in ofC : status[m] = "unsent"}
        /\ Abort(ofC, "gone")
        /\ UNCHANGED <<createdAt, status, uploaded, left, running, runningLarge, stage, result,
                       charged, sending, crashes, reconnects, up, mid, lane, shutdown, orphans>>

Leave(c) ==
    /\ Meddle /\ c \in Groups \ left
    /\ left' = left \cup {c}
    /\ UNCHANGED <<row, createdAt, status, uploaded, slots, job, sending, crashes, reconnects,
                   withdrawn, up, mid, lane, shutdown, orphans>>

\* stopOutgoingUploads: the lane first, then the uploads (quit or teardown).
Stop ==
    /\ Meddle /\ ~shutdown
    /\ shutdown' = TRUE
    /\ Abort(Messages, "interrupted")
    /\ UNCHANGED <<durable, running, runningLarge, stage, result, charged, sending, crashes,
                   reconnects, withdrawn, up, mid, lane, orphans>>

\* The process ends, also between two writes. Only the database survives.
Crash ==
    /\ up /\ crashes < MaxCrashes
    /\ crashes' = crashes + 1
    /\ up' = FALSE /\ mid' = None
    /\ lane' = [c \in Conversations |-> <<>>]
    /\ stage' = [m \in Messages |-> "none"]
    /\ signal' = [m \in Messages |-> NoSignal]
    /\ result' = [m \in Messages |-> NoResult]
    /\ charged' = [m \in Messages |-> 0]
    /\ slotWaiters' = <<>> /\ running' = 0 /\ runningLarge' = 0 /\ shutdown' = FALSE
    /\ tasks' = <<>> /\ wire' = "idle" /\ confirmed' = {} /\ erred' = FALSE
    /\ orphans' = {}
    /\ UNCHANGED <<durable, reconnects, meddling, withdrawn>>

\* The rows of a conversation that still have something to send, in an order that
\* createdAt allows.
Kept(c) == {m \in row : Live(m) /\ Conv[m] = c}
AnyOrder(seq) == DOMAIN seq \subseteq Nat
Sorted(seq) == \A i, j \in DOMAIN seq : i < j => createdAt[seq[i]] <= createdAt[seq[j]]
OldestFirst(c) ==
    {seq \in [1..Cardinality(Kept(c)) -> Kept(c)] :
        /\ Sorted(seq)
        /\ Kept(c) = {seq[i] : i \in DOMAIN seq}}

\* recoverOutgoingMessageOutbox, at the start of the backend: rows with nothing
\* to send are dropped, the others dispatched, oldest first.
Recover ==
    /\ ~up /\ up' = TRUE
    /\ row' = {m \in row : Live(m)}
    /\ lane' \in [Conversations -> UNION {OldestFirst(c) : c \in Conversations}]
    /\ \A c \in Conversations : lane'[c] \in OldestFirst(c)
    /\ stage' = [m \in Messages |-> IF m \in row' THEN "queued" ELSE "none"]
    /\ UNCHANGED <<createdAt, status, uploaded, left, slots, signal, result, charged, sending,
                   history, mid, shutdown, orphans>>

-----------------------------------------------------------------------------
Continue(m) ==
    \/ Persist(m) \/ StartJob(m) \/ AskForSlot(m) \/ WaitAborted(m) \/ StartUpload(m)
    \/ AttemptEnds(m) \/ ClearFailed(m) \/ ClearRow(m)
    \/ \E b \in Blobs[m] : BlobCancelled(m, b)

Settle(m) == \E b \in Blobs[m] : BlobUploaded(m, b) \/ BlobFailed(m, b) \/ BlobRefused(m, b)

Send(m) == TaskRuns(m) \/ TaskWrites(m) \/ TaskAcked(m)

Next ==
    \/ \E m \in Messages :
          Enroll(m) \/ Continue(m) \/ Settle(m) \/ BackoffElapsed(m) \/ Send(m) \/ Remove(m)
    \/ \E c \in Conversations : SoftClear(c) \/ Leave(c)
    \/ ConnectionBreaks \/ Replaced \/ Stop \/ Crash \/ Recover

Spec == Init /\ [][Next]_vars

\* The worker runs its continuations. Every upload settles, at the latest when the
\* timer of UPLOAD_MAX_DURATION_MS fires, and so does the timer of a backoff: that
\* event is served sooner or later, however often others come first. Nothing is
\* assumed of the user, of the server's answers or of the connection.
FairSpec ==
    /\ Spec
    /\ \A m \in Messages : WF_vars(Continue(m))
    /\ \A m \in Messages : SF_vars(Settle(m) \/ BackoffElapsed(m))

-----------------------------------------------------------------------------
\* Properties

Statuses == {"new", "absent", "unsent", "sent", "failed"}
Stages == {"none", "queued", "asking", "waiting", "granted", "uploading", "backoff", "failing"}
Signals == {"no", "gone", "interrupted", "sibling"}
Results == {"none", "busy", "ok", "answered", "transport", "terminal"} \cup (Signals \ {"no"})

\* The types of all variables.
TypeOK ==
    /\ row \subseteq Messages /\ createdAt \in [Messages -> Nat]
    /\ status \in [Messages -> Statuses]
    /\ uploaded \in [Messages -> SUBSET {"main", "thumbnail"}] /\ left \subseteq Groups
    /\ up \in BOOLEAN /\ mid \in Messages \cup {None} /\ shutdown \in BOOLEAN
    /\ lane \in [Conversations -> Seq(Messages)]
    /\ stage \in [Messages -> Stages]
    /\ signal \in [Messages -> [Entries -> Signals]]
    /\ result \in [Messages -> [{"main", "thumbnail"} -> Results]]
    /\ charged \in [Messages -> 0..Budget]
    /\ slotWaiters \in Seq(Messages) /\ running \in Nat /\ runningLarge \in Nat
    /\ tasks \in Seq(Messages) /\ wire \in {"idle", "reflected", "written"}
    /\ confirmed \subseteq Messages /\ withdrawn \subseteq Messages /\ orphans \subseteq Messages
    /\ erred \in BOOLEAN
    /\ crashes \in 0..MaxCrashes /\ reconnects \in 0..MaxReconnects
    /\ meddling \in 0..MaxMeddling

Holders == {m \in Messages : stage[m] \in {"granted", "uploading"}}

\* The slots counted as taken are those that jobs hold, through every failure,
\* cancel and grant, and there are never more than allowed.
SlotsConserved ==
    /\ running = Cardinality(Holders) /\ running <= MaxUploads
    /\ runningLarge = Cardinality(Holders \cap Large) /\ runningLarge <= MaxLarge

\* No wakeup is lost: whoever waits for a slot could not take it now, and every
\* job that waits, unless it is cancelled, is in the queue of waiters.
NoStartableWaiter ==
    /\ \A i \in DOMAIN slotWaiters : ~CanStart(slotWaiters[i] \in Large, running, runningLarge)
    /\ \A m \in Messages : stage[m] = "waiting" /\ signal[m]["wait"] = "no"
          => \E i \in DOMAIN slotWaiters : slotWaiters[i] = m

OwnedByLane(m) == \E i \in DOMAIN lane[Conv[m]] : lane[Conv[m]][i] = m
OwnedByTask(m) == \E i \in DOMAIN tasks : tasks[i] = m

\* A persisted message that is neither sent nor failed nor withdrawn has its row,
\* also after a crash between any two writes; and while the process does not shut
\* down exactly one of the lane and the task manager works on it, unless its
\* scheduling threw: then nobody does, before the next start takes up the row.
NeverStranded ==
    \A m \in Messages :
        /\ status[m] = "unsent" /\ m \notin withdrawn => m \in row
        /\ up /\ ~shutdown /\ Live(m)
              => IF m \in orphans THEN ~OwnedByLane(m) /\ ~OwnedByTask(m)
                                  ELSE OwnedByLane(m) # OwnedByTask(m)

\* While a message is transmitted, for the first time or again, no message
\* enrolled before it in its conversation, at a lesser time, is still to be sent
\* (f1-outgoing-preparation-lane.ts: the order of composing is the order of
\* sending), but for those whose scheduling threw.
Transmits(n) == wire = "reflected" /\ wire' = "written" /\ Head(tasks) = n
SentBefore(n, m) == m < n /\ Conv[m] = Conv[n] /\ Live(m)
OrderKept ==
    [][\A m, n \in Messages :
        Transmits(n) /\ SentBefore(n, m) /\ createdAt[m] < createdAt[n] => m \in orphans]_vars

\* The same of messages enrolled at the same time too. It does not hold: after a
\* restart the rows of one millisecond are dispatched in any order.
SentAsEnrolled ==
    [][\A m, n \in Messages : Transmits(n) /\ SentBefore(n, m) => m \in orphans]_vars

\* After the process stopped its uploads, none is started (f1-outgoing-shutdown.ts),
\* and no late result is stored, nor in a message that is no longer to be sent.
CancelIsFinal ==
    [][\A m \in Messages :
        /\ shutdown /\ stage'[m] = "uploading" => stage[m] = "uploading"
        /\ uploaded'[m] # uploaded[m] => Live(m) /\ ~shutdown]_vars

\* Once the lane is shut down it empties: no wait, retry or upload goes on.
StopEndsJobs ==
    shutdown ~> (\A c \in Conversations : lane[c] = <<>>)

================================================================================
