# F1Whisper desktop: a TLA+ model of the protocol core

This directory holds TLA+ specifications of the part of F1Whisper desktop that
talks to the mediator, the chat server and the peer of a call: what happens to
tasks, connections, incoming and outgoing messages, shared edits and calls when
the network, the user and the process do what they like. TLC checks them on small
instances; TLAPS proves type correctness, the safety properties and the refinement
for every instance.

`P` stands for `src/apps/desktop/src/common` below. `manager.ts` is
`P/network/protocol/task/manager.ts`, `connection.ts` is
`P/dom/network/protocol/connection.ts`, `queue.ts` is `P/utils/queue.ts`.

## Running

    tlc -workers 2 -config MCTaskManager.cfg     MCTaskManager.tla
    tlc -workers 2 -config MCTaskManagerLive.cfg MCTaskManager.tla
    tlc -workers 2 -config ConnectionManager.cfg ConnectionManager.tla
    tlc -workers 2 -config MCOutgoing.cfg        MCOutgoing.tla
    tlc -workers 2 -config MCOutgoingLive.cfg    MCOutgoing.tla
    tlc -workers 2 -config MCTransaction.cfg     MCTransaction.tla
    tlc -workers 2 -config MCInbound.cfg         MCInbound.tla
    tlc -workers 2 -config MCCalls.cfg           MCCalls.tla
    tlc -workers 2 -config MCCallsLive.cfg       MCCalls.tla
    tlapm OrderedFilter_proofs.tla
    tlapm TaskManager_proofs.tla
    tlapm DurableTasks_proofs.tla
    tlapm Transaction_proofs.tla
    tlapm Inbound_proofs.tla
    tlapm ConnectionManager_proofs.tla
    tlapm Calls_proofs.tla
    tlapm Outgoing_proofs.tla

The other configurations check one property each and end in a counterexample;
see *Findings*.

## Inventory

The app is an Electron program. The *app* (UI) and the *electron main* process
talk through endpoints to one *backend worker*. The worker is single-threaded:
all concurrency is the interleaving of promise continuations, timers and sockets.

| Component | State | Operations | What is hard | What makes it correct |
|---|---|---|---|---|
| **Task manager** (`manager.ts`) | inner manager (connected, disconnected), `_tasks`, decoder and encoder queue, backlog, the running task, `done` promises | schedule, replace, run, `_next`, `_run`, read, write, reflect, bypass | connections break between any two awaits; an old run outlives its manager; errored queues; backlog handed over and back | no persistent task lost, none completes unserved, volatile ones never re-run, inbound messages in order |
| **Queues** (`queue.ts`) | values, waiters, error | put, get, consume, prepend, error, putConditional | error state while somebody waits | every waiter is woken once, with a value or the error |
| **Transactions** (`TaskCodec.transaction`) | transaction state, ttl | begin, rejected, ended, commit | another device holds the lock; precondition grows stale; the answer to a commit is lost | the executor runs under the lock and on the agreed state; its caller is told the truth; devices converge |
| **Connection manager** (`connection.ts`) | runner, auto-connect promise, state, leader state, current connection | connect, disconnect, toggle, self-kick, reset | closing sequence vs. timeout vs. user; assertions in the runner; promise replaced while awaited | the runner survives, the state shown is true, delays are kept, refusals honoured |
| **Handshake and layer codecs** (`controller.ts`, `layer-*-codec.ts`) | auth states, sequence numbers | hello, login, echo, close error | two handshakes complete in either order | CONNECTED only when both are |
| **Outgoing message outbox, preparation lane, dispatch** (`P/model/…outbox.ts`, `f1-outgoing-*.ts`) | outbox rows, lane per conversation, upload slots | enroll, enqueue, upload, retry, recover, drain, shutdown | crash between two writes; retry waits; cancellation races with grant | a message survives, is sent in order, slots are neither leaked nor exceeded |
| **Blob upload coordinator** (`f1-blob-upload-coordinator.ts`) | in-flight entries | run/join, abort | a late result after a cancel; one blob of two fails | a cancelled upload leaves nothing behind; a slot is given back once |
| **Outgoing CSP message task** (`task/csp/outgoing-*.ts`) | per-run cursor | reflect, send, ack | re-run from the beginning after a reconnect | receivers may deduplicate by message id |
| **Incoming message task, reflected task, nonces** (`incoming-message.ts`, `d2m/reflected.ts`, `P/crypto/nonce.ts`) | nonces and their guards, rows, dispositions | process, acknowledge, commit, recover | two copies of a message overlap; crash between any two writes | stored once, never lost, never brought back, the sender's timer |
| **Drop device** (`d2m/drop-device.ts`, `drop-device-layer-codec.ts`) | – | drop, acknowledge | unrecoverable errors, self-kick | uploads stop and the UI is told only once unlinked |
| **Reflected D2D, group, contact tasks** (`task/d2d`, `task/common`) | model repositories | many small ones | they bypass the running task; some await a download | the same state on every device |
| **Calls** (`P/network/protocol/call`, `P/dom/webrtc`) | the active call, the call lock, the WebRTC context, candidates, timers | call, accept, hang up, offer, answer, candidate, demotion | the lock, the task queue and the microphone are awaited while the peer and the user go on | one call per device; no microphone outlives it; both sides end |
| **Background jobs, remote secret monitor, backend start, device join** | timers, key state | schedule, poll, load | timeouts and retries | – |
| **Stores, endpoint, database, key storage, crypto, electron main, UI, launcher, packages, conferencing** | – | – | synchronous, I/O, or presentation | – |

How they interact. `ConnectionManager._run` creates a `Connection`; each attempt
calls `TaskManager.replace` with a connecting context, each end calls it with
`DISCONNECTED`. A connection's pipeline shares two capacity-one queues (decoder,
encoder) with the connected task manager and an abort signal. An error in the
task manager errors the encoder queue, that detaches the writable side of the
transport, that closes the connection, that resets the manager. Features only
call `TaskManager.schedule` and await the promise.

## Modules

| Module | What it is |
|---|---|
| `DurableTasks` | abstract: what callers are promised about persistent tasks. A queue; accepted tasks complete in order, once. |
| `TaskManager` | the task manager with its queues, the pipeline, and both servers as far as they matter |
| `MCTaskManager` | its instance for TLC: three tasks and their programs |
| `OrderedFilter` | `Array.filter` in a form the provers can reason about; `OrderedFilter_proofs` has its lemmas |
| `TaskManager_proofs` | TLAPS proofs about `TaskManager` |
| `DurableTasks_proofs` | the proof that `TaskManager` implements `DurableTasks` |
| `ConnectionManager` | the runner, the connection's life cycle, close errors, self-kick |
| `Outgoing`, `MCOutgoing` | an outgoing message from the composer to the server: outbox, lane, slots, uploads, send task, with crash and recovery |
| `Transaction`, `MCTransaction` | edits of one object by the devices of a group, in device group transactions |
| `Inbound`, `MCInbound` | the direct and the reflected copy of an incoming message on a linked device, with crash |
| `Calls`, `MCCalls` | one-to-one calls between two devices |
| `Transaction_proofs`, `Inbound_proofs`, `ConnectionManager_proofs`, `Calls_proofs`, `Outgoing_proofs` | TLAPS proofs about these modules |

`Outgoing`, `Transaction`, `Inbound` and `Calls` refine, each for itself, what
`TaskManager` has as a program of steps; they do not instantiate it. From it they take that one task runs at a time,
that a persistent task is run again from its start and a volatile one is rejected
when the connection is lost, and that reflected messages bypass a task that reads.

### TaskManager

One action is the code between two awaits. The variables follow the fields
(`tasks` is `_tasks`, `backlog` is `_decoder.backlog`, `held` is the backlog that
`_run` moved to the running task, `done` what each returned promise did); the
comment at each one says which.

* A task is data: a sequence of steps. `"io"` is a write followed by reads until
  the answer is accepted (a reflect, an outgoing message), `"ack"` a write alone,
  `"off"` an await of something that is not a queue. The real tasks are such
  sequences; what is in their messages does not matter to the manager.
* `Schedule` = `ScheduleOffline`, `ScheduleOnline` (the two classes' `schedule`).
  A rejection and a synchronous throw are different settlements.
* `Connect` = `replace(CONNECTING)` with the filtering constructor, or
  `ConnectAsserts` if its assertion fails. `Disconnect` = `replace(DISCONNECTED)`.
* `PickTask`, `PickInbound`, `NextThrows` = `_next` and the entry of `_run`;
  `Read`/`Receive` = `TaskCodec.read`; `Write` = `_write`; `BypassAck` = `_bypass`;
  `Finish` = the end of `_run` and of the loop body; `Throw`, `Fail`, `Exit` = its
  catch, with the unrecoverable branch that runs a `DropDeviceTask` first.
* `AbortEffect` = the abort subscription in `run`.
* A run that is still awaiting something when its manager is replaced is a member
  of `ghosts`; only runs that will touch no queue any more are kept (`Survives`),
  since the others fail on an errored queue without any effect that is left.
* `Filtered` (in `OrderedFilter`) is `Array.filter`, written as the set with the
  filtered sequence as its only member; `FilterSeq` is that member. The community
  modules' `SelectSeq` is recursive, which the provers cannot use.
* The servers are external: unacknowledged messages are sent again on every
  connection, in order; requests are answered; frames die with the connection.
  Reflected messages are not sent again while still on their way.

Left out: transactions (in `Transaction`), the log, `flushPendingOutgoing` (it only
polls a length), the `_next` race's own assertion (see the hazards). What a task
throws and how it is classified is the choice in `Fail`.

### ConnectionManager

The worker drains its microtasks before it takes the next event, and the code
relies on it. So a timer, a socket, a dialog or a call (`Event`) happens only when
no continuation is ready (`~Busy`); the continuations are `StartAttempt` (the
auto-connect promise is resolved), `Reset` (`disconnectedPromise`) and `Fallback`
(the rejected self-kick).

* `phase` is where `_run` stands: at the gate, opening, open, showing the dialog,
  sleeping, or dead (the generator ended by an exception).
* `awaited` is the difference between `_autoConnect` and the promise the runner
  actually awaits, which may have been replaced.
* `closing` is the closing sequence: `draining` while the readable side may still
  hold a `CLOSE_ERROR`, `done` when `disconnected` is raised, `aborted` when the
  establishment timeout hit before the WebSocket was open.
* `inner` and `leader` stand for the task manager and the leader state, with the
  assertions of `replace`; `state` is the store that is monotonic: what the code
  throws when it is moved backwards is in `PipeAttached` and `Advance`.
* `HandleClose` is the exhaustive switch on the close code: recoverable, with a
  hint, our version outdated (dialog), the server's outdated, dropped, fatal.
* `kick`, `d2mOnly` and `dropped` are `selfKickFromMediator`, its
  `DropDeviceTask`, the D2M-only fallback connection, and what the mediator knows.
* `refused`, `asked` and `overlapped` are history variables.
* Time is in ticks; the time since the last attempt saturates at `Horizon`, the
  largest value it is compared with.

Left out: what the handshakes exchange (either may complete first; the real
ones mostly run one after the other), the tasks other than the `DropDeviceTask`,
endpoints and logging. Of the tasks that a manager takes over, `oldRun` keeps what
the assertion in the task manager's constructor looks at: whether the run of an
earlier connection has settled the promise of a task that was carried over
(`OldRunEnds`), and whether the current manager has consumed that task (`RerunEnds`).

### Outgoing

* One action is the code between two awaits. Continuations run in any order, all
  of them before the next event (`Ready`, `Idle`, `Event`); what deletes a
  message, clears a conversation or stops the uploads may be a continuation itself
  (`Meddle`).
* `row`, `createdAt`, `status`, `uploaded` and `left` are in the database and
  survive `Crash`, which comes between any two writes; `Recover` rebuilds the
  lane.
* `lane` are the tails of the preparation lane, `slotWaiters`, `running` and
  `runningLarge` its slots. `stage` is where the job of a message awaits
  something.
* `signal` is why an entry of the upload coordinator is aborted (`"wait"` is the
  wait for a slot), `result` how the upload of a blob ended, `charged` the spent
  retry budget, in backoff delays.
* `tasks` and `wire` are the persistent send tasks and what the first has done.
* From the end of the tasks' run (`ConnectionBreaks`) until the manager is replaced
  (`Replaced`) its queue is in error (`erred`), and scheduling throws. The lane only
  logs that: the row of such a message (`orphans`) is left to the next start.
* Messages are numbered in the order in which they are enrolled. Sends that wait for
  the contact or for the conversation to be unarchived may overtake each other before.
* `Clock` has the readings of the wall clock for `createdAt`: equal ones for messages
  of one millisecond, lesser ones after the clock was set back.

Left out: what the user interface shows of failures, thumbnails made again after
an upload, `drain` (it only counts), the loop over the receivers of a group.

### Transaction

All devices run the same code; the mediator is external (`Mediate`), as is the
transport. A local edit is scheduled inside the lock of its object (`Schedule`); without
a connection it is rejected at once. A remote one is made by a message of the contact
(`Process`): its task keeps the task manager while it awaits the lock, and then runs
the transaction within itself (`RunWithin`). Its local
effect is applied with the reading of `COMMIT_TRANSACTION_ACK`, as the caller's
continuation runs before anything else. `flight` holds reflected pictures that are
being downloaded: a read that meets one goes on without awaiting it, the task
manager alone awaits it. The history variables `overtaken` and `missed` mark a
device on which an older download came last, or on which one failed or was lost:
the manager acknowledges a reflected message that was sent again while its first
copy is still being downloaded, and a restart then ends the download for good. A
restart keeps database, reflection queue and mediator.

### Inbound

A linked device gets a message twice: from its own queue at the chat server and
reflected by the leader. The model has the two tasks with their nonces and guards,
dispositions, rows, timers (the one the sender advertises, the one of the
conversation, the one frozen when processing began) and acknowledgements. What
runs without an await is one action or a stage the worker leaves first
(`Synchronous`), so that only a crash comes between its writes. A task whose
connection was lost goes on as `"ghost"` until it touches a queue. The contact and
group steps are a wait whose outcome is open; the sender is known.

### Calls

* Two devices run the same manager, `d` calls as `Caller[c]` says. `status` is the
  `O2oCallState`, `step` what `call` or `_accept` awaits next, `lock` the queue of
  executors of the `AsyncLock` that a call shares with incoming offers.
* `tasks` and `running` are the task manager as the calls see it: first in, first
  out, one at a time. An incoming message whose task awaits the lock or the
  description of an answer keeps it busy.
* `dom`, `aborted`, `remote` and `candidate` are the context in the main thread.
  Aborting a call reaches it in a step of its own (`Teardown`). A context whose
  connection fails closes itself (`ContextFails`), and its manager ends the call
  when the report arrives (`FailureReported`).
* A message is handled at most once, as its nonce is guarded while its task runs.
  Losing the connection rejects outgoing tasks; short-lived messages may expire on
  the server.

## Runs

| Run | Configuration | What it shows |
|---|---|---|
| `tasks` | `MCTaskManager.cfg` | safety of the task manager and that it implements `DurableTasks` |
| `tasks_live` | `MCTaskManagerLive.cfg` | every persistent task completes, every message is acknowledged |
| `connections` | `ConnectionManager.cfg` | safety and liveness of the connection manager |
| `outgoing` | `MCOutgoing.cfg` | no message stranded, reordered or uploaded after a cancel; slots conserved; no lost wakeup |
| `outgoing_live` | `MCOutgoingLive.cfg` | a stopped lane empties |
| `transaction` | `MCTransaction.cfg` | locking, precondition, truthful outcomes, convergence, progress |
| `inbound` | `MCInbound.cfg` | stored once, never lost, never brought back, timers, both queues drain |
| `calls` | `MCCalls.cfg` | two devices that call each other: one live call each, no setup after an end |
| `calls_live` | `MCCallsLive.cfg` | candidates flushed, microphone released, the peer follows |

**`tasks`** (613,000 states). Two persistent tasks, one that needs an answer and
one that only awaits something off the queues; one volatile task; two messages,
one reflected message; two connections. `TypeOK` includes that the running task is
the head of the queue and that a put never overwrites. `PersistentKept`,
`VolatileRunsOnce` and `ResolvedWasServed` relate promises, queue and what the
servers received across connections. `InboundInOrder` says that the pipeline, the
decoder queue, both backlogs, the task at hand and the processed messages always
concatenate to what the server sent. `DurableQueue` is the refinement.

*Bounds.* `MaxConnects = 2` allows one connection to be lost at any point and a
second one to meet what the first left behind (carried tasks, an old run). Two
messages are the least that can be reordered; two persistent tasks the least of
which one can complete while the other is carried or waits. The last connection
does not fail spontaneously, so that the liveness run may end well; a
`DropDeviceTask` may still end it.

**`tasks_live`**. As above without the volatile task and with one message. The
properties allow for the three states in which the code gives up: device dropped,
runner dead, event loop hung. Deadlock is not checked in the runs of
`TaskManager`, which really stop there, or when everything is done.

**`connections`** (665,000 states, deadlock checked). Delay 2, hint 3,
establishment timeout 3. A delay of 2 ticks is the least with a rest of the delay
that is neither nothing nor all of it; the hint is longer than the delay as in
the code (its only hint is 10 s, the delay 5 s; `TimesAssumption` says so).
Nothing else is bounded: attempts, toggles and self-kicks are unlimited.
`RunnerSurvives` and `StateTruthful` are conditional on no two connections having
overlapped: with them, the code is known to break both (see `OneConnection`).
`RunnerSurvives` has one more exception, the attempt whose assertion fails on a task
that an old run has settled (see `CarriedNotDone`): every other way to the end of the
runner needs a close code that demands it.

**`outgoing`** (1,473,000 states). Three messages: a file with a thumbnail and a
text behind it in a group, a large file in another conversation; two slots, one
for large uploads; a retry budget of one delay; one crash, one lost connection,
two acts of meddling. It is the least in which a large upload waits while a small
one overtakes it, a text waits behind an upload, one blob of a message fails
beside the other, and a recovery meets two rows of a conversation. The clock moves on
between the two messages of the conversation, as `OrderKept` claims nothing of messages
enrolled at the same time; with `ClockWithTies` the properties hold too (3,682,000
states), the run keeps to the smaller instance.
**`outgoing_live`** (22,000 states): three conversations with one upload each, so that two compete
for the large slot when the lane is stopped.

`NeverStranded` has two halves: in the database, every unsent message has its row
whatever was cut off; in the process, exactly one of lane and task manager owns
it, or none if its scheduling threw. `OrderKept` lets such a message be overtaken, and
nothing else. `NoStartableWaiter` excludes a lost wakeup, `SlotsConserved` a slot that is
given back twice or never. `CancelIsFinal` says that a late result leaves nothing
behind.

**`transaction`** (160,000 states; two devices, three edits, two of them pictures,
the third made by a message of the contact;
two lost connections or restarts, one failed download). One device has two edits,
so that one waits for the lock of the object while the other waits for the lock of
the group. Two losses are the least with which a download is lost after its
message was sent again and acknowledged; with one, TLC does not see this case, the
proof of `CopiesConverge` did.
`ExecutorUpToDate` and `Converged` name their exceptions: a device that lost the
answer to its own commit, one on which downloads overtook each other, one whose
download failed or was lost. For the first, see `commit_unanswered`.
`EditSettles` has two: a request to the blob server that never ends (`Hangs`), since the
transaction has no timeout of its own, and a local edit whose task is queued behind that
of a message which awaits the lock of the same object (`Entangled`). Without the second
it is false, see `EditsEntangled`.

**`inbound`** (166,000 states). One message with every timer a sender may
advertise, or none; one lost connection, one crash, one removal, refusal or change
of the conversation's timer. A second message would only compete for the one task
that runs. `PendingSettles` names its exceptions: a removed message, and a process
that ended inside the reflection or before the direct copy left its disposition.

**`calls`** (1,000,000 states). Each device calls the other, one may lose its
authority. **`calls_live`** (77,000 states). One call with a candidate, one lost
connection or expired message, one demotion, one interruption. `PeerFollows` excepts a
peer in `connecting` that WebRTC has nothing to check for, an answerer without a
candidate, or a caller (the answerer's candidates are not modelled): no timer watches
that state, only the user ends it (see `AnswererStuck`). Liveness is checked
for one call since with two the code may wait for ever, see `offer_unfinished`. A
system in which all calls are over has stopped, so deadlock is not checked; nor is
it in the other four modules' runs but that of `connections`, for the same reason:
all messages are through, all edits settled, both copies handled.

### Fairness

Weak fairness, and strong fairness in one place of `Outgoing`. In `TaskManager` on
what the event loop does by itself: the run loop, old runs, bypasses, the
pipeline, the reconnect, and the server's sending. In `ConnectionManager` on
continuations, the clock, expired timers, and on the draining of a closed pipe,
which ends as its source has ended. None on callers, users, dialogs, or on
connections breaking or being established. A WebSocket that was closed before it
opened reports that. Where several actions form one fair group (`RunLoop`), a run
waiting in one of them has no other enabled action of the group.

`Outgoing`: weak fairness of the worker's continuations (`Continue`), strong
fairness of the end of an upload (`UPLOAD_MAX_DURATION_MS`) or of its backoff
timer, as both are events that the continuations of others disable for a moment;
none on the connection, the send tasks or users. `Transaction`: the manager, the
mediator and the reconnect; none on requests to the blob server. `Inbound`: both tasks, the servers, the
expiry timer and the reconnect; none on losses or users. `Calls`: requests,
prompts, tasks and timers end, and WebRTC notices that a peer is gone if it has an
established connection or a candidate to check; none on users, candidates, the first
connection or the failure of one that never had a candidate. No behaviour of `Calls` repeats a
state, so one fair action stands for all of them.

### Findings

Three runs end in a counterexample, against a sentence of the code's own
documentation.

| Run | Against | What happens |
|---|---|---|
| `offer_unfinished` | `o2o-call.ts:241`, user-initiated actions "may await normally" | `call` awaits its offer task inside the call lock; the task of an incoming offer awaits that lock and runs before it. Both sides stay stuck. |
| `commit_unanswered` | `manager.ts:564`, "a consistent state across devices" | A device that committed an edit and lost the answer keeps the old content for good. |
| `queue_spins` | `queue.ts:178`, "Await a value, bubble any error" | `prepend` of an errored queue without values leaves a waiter that is resolved without values; `get` spins in microtasks. |

Other properties that the modules state and their models violate have a
configuration of their own but no run. Each ends in a short counterexample.

| Configuration (module) | Against | What happens |
|---|---|---|
| `CarriedNotDone` (`MCTaskManager`) | `manager.ts:825`, the assertion on `done` | An old run resolves its promise after `_tasks` was copied. The next `replace` throws outside the `try`; the runner ends and nothing reconnects. |
| `PersistentAccepted` (`MCTaskManager`) | `connection.ts:705`, `task/index.ts:253` | Between the exit of the run loop and `replace(DISCONNECTED)`, `schedule` throws; a persistent task is not kept. |
| `UnlinkFailure` (`ConnectionManager`) | `connection.ts:1210`, "On failure, auto-reconnect is turned on" | `_reset` asserts a connected task manager, there is none, so auto-connect stays off. |
| `UploadsStopped` (`ConnectionManager`) | `connection.ts:814`, "only once the unlink SUCCEEDED" | Any close of the D2M-only connection counts as success. |
| `OneConnection` (`ConnectionManager`) | `connection.ts:699`, "only one connection to the server is active" | A self-kick rejected by the next task manager opens a second connection while the first is being created. |
| `SkippedDelay` (`ConnectionManager`) | `connection.ts:702`, "sensible delays" | `skipConnectionDelay` is never reset. |
| `OrderAfterRestart` (`MCOutgoing`) | `f1-outgoing-preparation-lane.ts:20`, the order of composing is the order of sending | Recovery sorts by the wall clock alone (`sqlite.ts:3566`): of two messages enrolled in the same millisecond it may send the later one first. |
| `EditsEntangled` (`MCTransaction`) | `profile-picture.ts:441`, an edit settles while connected | The task of a message awaits the lock of an object that a local edit holds; the task of that edit is queued behind it. Only a lost connection ends it. |
| `PictureOvertaken` (`MCTransaction`) | `manager.ts:564` | Two reflected pictures that bypass a waiting task are downloaded side by side; the older one may be applied last. |
| `RecoveredNonce` (`MCInbound`) | `incoming-message.ts:663`, "Reflection already committed the CSP nonce" | It skips the commit while the direct copy holds the nonce; if that one loses its connection, nobody persists it. |
| `AnswererStuck` (`MCCalls`) | `o2o-call.ts:374-378`, an answerer without the caller's candidates | The offer was sent, the caller's task is rejected with its connection and ends the call; the answerer accepts it and connects for ever. |
| `CandidateIgnored` (`MCCalls`) | `o2o-call.ts:374`, candidates are buffered until `accept` | A candidate task is scheduled as soon as the caller's connection gathers, before its offer task: the callee has no call yet and ignores it. |

## Proofs

Every theorem is `Spec => []Inv` or `Spec => [][A]_vars`, for every value of the
constants that the modules' assumptions allow; these only type the constants, and
say of times and limits what the code's constants say. The pattern is the same
throughout: an inductive invariant, a conjunction of named parts; one lemma per
part, in it one step per action that disturbs the part, and one step for all
others; the theorems follow from the invariant. TLC had found each inductive
invariant to hold before it was proved, on the instances of the runs and on larger
ones (numbers below).

**`OrderedFilter_proofs`**. The operator is not recursive, so what filtering
returns can be proved: it has exactly the elements that pass, in their order, and
it commutes with appending, joining and dropping the head. `Connect`, the order of
messages and the refinement rest on these lemmas.

**`TaskManager_proofs`** (613,000 states; 117,000 of an instance with three
connections). For every set of tasks, every program of steps, any number of
messages and connections:

* `TypeCorrect`: part of `TypeOK`, `HeadRuns`, is not a type: the running active
  task is the head of `_tasks`. It is what makes the unconditional removal of the
  head at the end of a run remove the right task.
* `NoPersistentTaskLost`: `PersistentKept` is not inductive by itself, as `Finish`
  removes the head of the queue and settles the task that *runs*. With `HeadRuns`
  it is.
* `NeverRunAgain`: a volatile task is started at most once. The invariant
  (`OnceInv`) is about the copies of the queue that old runs hold: no two of them,
  and none and the current queue, share a volatile task, because the constructor
  filtered it out; and one that is still queued was not started.
* `ResolvedMeansServed`: an exchange is recognised by the kind of its answer only,
  so the invariant (`ServedInv`) must say that at most one request or its answer is
  anywhere between task and server, and that it belongs to the running step. An
  old run that is going to resolve its task has all its steps served.
* `InboundOrdered`: what was processed, is at hand, and waits in backlogs, decoder
  queue and pipeline is what the server sent, in its order. `Finish` puts the
  backlog it took over *behind* what the task put aside meanwhile, while a task reads the backlog it
  took over last. Both are in order only because a run that did both is still
  reading (`HeldWhileReading`), so it does not finish.

**`DurableTasks_proofs`**. `QueueIsDurable`: `TaskManager` implements
`DurableTasks`. The abstract queue is the current queue filtered by the pending
persistent tasks. `PendingOnce` makes the removal of a settled task the removal
of a head. `GhostsInFront` is the subtle part: an old run settles *its* head, and
that is the head of the abstract queue only since what is pending in an old copy
is always a front part of what is pending in the current one.

**`Transaction_proofs`** (517,000 states with three losses). For any devices and
edits: `ExecutorLocked`, `OutcomeCorrect`, `CopiesConverge`, `ExecutorCurrent`. The
invariant has three layers. `LockInv`: a device has at most one request under way,
to the mediator or answered, and it is the one its task waits for; the lock is
granted with an answer that is still in the pipe, and no edit of another device is
behind that answer. `LogInv`: where an edit stands in the mediator's log and what
its device knows of that. `CopyInv`: a device shows an edit or a later one, or the
edit is on its way to it.

**`Inbound_proofs`** (1,480,000 states with two losses, two crashes, two acts of
meddling). `RowOnce`, `NothingLost`, `TimerKept`, `PurgedStaysPurged`. The
invariant says of every durable trace (row, disposition, nonce, acknowledgement)
that it is only there once the message was stored or refused (`TraceOf`), and that
a CSP nonce has one holder, so that none but the task with the guard is going to
insert a row (`GuardOf`).

**`ConnectionManager_proofs`** (665,000 states). For any delays, hints and
timeouts: `RunnerReturnsOnlyIf`, `StateIsTruthful` (both but for the exceptions that the
properties name), `CloseErrorObeyed`. `PhaseOf` says what task
manager, state, leader state and `_connection` are in each phase; `RefusalOf` that a
forbidding close error is still going to be decoded, or that nothing the runner awaits
is resolved.

**`Calls_proofs`** (1,000,000 and 77,000 states of the runs).
For any calls between the two devices: `SetupBeforeEnd`, `CandidatesFlushed`, and in
`TypeCorrect` that a device conducts one call at a time. An offer is in one place
(`OfferOf`); who sends the end of a call is done with it (`EndOf`), which holds as
the executor of `call` is alone in the lock (`LockOf`); the offer was applied
before the answer is described, and the context of the answerer is open unless it has
closed itself (`AnswerOf`).

**`Outgoing_proofs`** (1,473,000 states of the run). For any messages, conversations,
blobs and limits: `TypeCorrect`, `SlotsNeverLeak`, `NoWakeupLost`,
`NoMessageStranded`, `OrderOfEnrolling`, `CancelsAreFinal`. Nothing is assumed of the
clock: the order is by the times that the rows have. The many ways
in which a step of a job may end are first brought into one form (`JobStep`): what
happens to the message (the job ends, hands it over, fails or goes on) and, apart from
it, what happens to the slots (nothing, one is taken or waited for, one is given back
or passed on). The invariant:

* `LaneInv`, `TaskInv`: a lane has exactly the messages with a job, each once, and who
  is past the first stage is its head; tasks are of messages without a job. So a
  message never has both, and handing over removes the right job.
* `MidInv`, `NewInv`: what lies between two writes, and that a message to be composed
  has left no trace, so that enrolling it collides with nothing.
* `SignalInv`, `UploadInv`: a reason means what it says ("gone": no row;
  "interrupted": shut down). Without it a job could end with its row in place and no
  owner. An upload that is not cancelled is of a message that is to be sent.
* `WaiterInv` with the two slot properties: `Release` wakes one waiter only, which is
  enough since nobody in the queue could start before, and who is woken uses up again
  what they were waiting for (`NobodyElse`).
* `KeptInv` is `NeverStranded` without the lane, and the order rests on it: whoever is
  handed over was the head of a lane in order, so an earlier message that is to be sent
  is in no lane, hence has its task already (`EarlierHandedOver`) unless its scheduling
  threw.

What the proofs changed in the model. The proof of `CopiesConverge` failed at
`Restart` for a download that a redelivery had already acknowledged: the message is
lost to that device, which no run had shown with one loss. It is in the model now,
named as an exception, and the run has two losses. `SelectSeq` gave way to
`FilterSeq` where sequences are reasoned about.

Only model-checked: all liveness (including `StopEndsJobs`, `EditSettles` and
`PendingSettles`), as TLAPS has no rule for fairness here.

## Plan

Modelling has reached the messaging core and calls, and every safety property that a
passing run checks is proved. What is left to prove is about more of the model rather
than about stronger instances of it: that `Outgoing` and `Inbound` implement an
abstract message store, and that two devices of `Transaction` that are not among the
exceptions agree on every prefix of the mediator's log.

Modules that may follow: group calls, the remote secret monitor, the
race inside `_next` split into settling and continuation.

## Not modelled

Group calls, background jobs, the remote secret monitor, device join and the
backend's start have state machines of their own, apart from the messaging core.
Group and contact tasks and most reflected D2D tasks are mappings between messages
and models; to the task manager, they are programs of steps. Of the incoming
messages, `Inbound` has conversation messages on a linked device that does not
lead; control messages, status updates, reactions, edits and the leader's
reflection are left out. Of the calls, muting, the ringing label and the callee's
candidates. Several producers blocked in one queue (`putConditional`) are not
modelled. Databases, key storage, cryptography, the electron main process, the
user interface, the launcher and the shared packages (codecs generated from a
protocol description among them) are I/O, libraries or presentation.
