----------------------------- MODULE TaskManager -----------------------------
(***************************************************************************)
(* TaskManager, ConnectedTaskManager and DisconnectedTaskManager           *)
(* (common/network/protocol/task/manager.ts): the queue of scheduled       *)
(* tasks, the run loop that executes one task at a time, the decoder and   *)
(* encoder queues it shares with the connection's pipeline, the backlog,   *)
(* and what happens to all of them when the connection goes away.          *)
(*                                                                         *)
(* A task is a fixed sequence of steps:                                    *)
(*   "off"  awaits something that is not a queue (an HTTP upload, a store) *)
(*   "io"   writes a request and reads until it is acknowledged            *)
(*   "ack"  writes an acknowledgement and does not wait for an answer      *)
(* The code between two awaits is one action.                              *)
(***************************************************************************)
EXTENDS Naturals, Sequences, FiniteSets, OrderedFilter

CONSTANTS
    Tasks,          \* tasks the app may schedule, each of them once
    Persistent,     \* those with persist = true
    Program,        \* steps of every task
    MsgProgram,     \* steps of the passive task of an incoming message
    MaxMsg,         \* messages 1..MaxMsg wait for us on the chat server
    MaxReflected,   \* reflected messages 1..MaxReflected on the mediator
    MaxConnects     \* the connection stays up once it was established this often

TaskSteps == {"off", "io"}
MsgSteps == {"off", "io", "ack"}

ASSUME TasksAssumption == Persistent \subseteq Tasks
ASSUME ProgramAssumption ==
    /\ Program \in [Tasks -> Seq(TaskSteps)]
    /\ MsgProgram \in Seq(MsgSteps)
ASSUME BoundsAssumption == MaxMsg \in Nat /\ MaxReflected \in Nat /\ MaxConnects \in Nat

VARIABLES
    inner,          \* the kind of the current inner task manager
    tasks,          \* its _tasks
    tasksErr,       \* _tasks was moved into the error state
    loop,           \* where the connected manager's run loop stands
    cur,            \* the task the loop runs
    pc,             \* index of its current step
    wrote,          \* the current step's request is written, its answer is awaited
    slot,           \* the decoder queue: at most one frame
    out,            \* the encoder queue: at most one frame
    queueErr,       \* both of them are in the error state
    backlog,        \* the manager's _decoder.backlog
    backlogErr,     \* ... is in the error state
    held,           \* the backlog that the running task took over
    bypass,         \* reflected messages being processed beside the running task
    aborted,        \* the connection's abort signal was raised
    inbox,          \* frames on their way from the server, pipeline buffers included
    pushed,         \* messages the chat server sent on this connection
    processed,      \* messages whose passive task finished on this connection
    acked,          \* messages the chat server need not send again
    ackedR,         \* reflected messages the mediator need not send again
    served,         \* requests <<task, step>> that reached the server
    dropped,        \* the mediator dropped this device
    done,           \* what the promise returned by schedule did
    runs,           \* how often the task was started
    ghosts,         \* earlier managers' loops that are still running a task
    runner,         \* the connection manager: up, dead (assertion), its device
                    \* dropped, or the event loop hung
    connects        \* connection attempts so far

sessionVars == <<slot, out, queueErr, backlog, backlogErr, held, bypass, inbox>>
runVars     == <<loop, cur, pc, wrote>>
queueVars   == <<inner, tasks, tasksErr>>
serverVars  == <<pushed, processed, acked, ackedR, served, dropped>>
vars == <<sessionVars, runVars, queueVars, serverVars, aborted, done, runs, ghosts,
          runner, connects>>

-----------------------------------------------------------------------------
\* Frames and running tasks

Msgs == 1..MaxMsg
Reflecteds == 1..MaxReflected

Frame(kind, id) == [kind |-> kind, id |-> id]
InFrames == [kind : {"msg"}, id : Msgs] \cup [kind : {"reflected"}, id : Reflecteds]
                \cup [kind : {"ack", "dropAck"}, id : {0}]
OutFrames == [kind : {"req"}, id : Tasks \X Nat] \cup [kind : {"msgReq", "msgAck"}, id : Msgs]
                \cup [kind : {"reflectedAck"}, id : Reflecteds] \cup [kind : {"drop"}, id : {0}]

NoTask == Frame("none", 0)
DropDevice == Frame("drop", 0)
Running == [kind : {"active"}, id : Tasks] \cup [kind : {"msg"}, id : Msgs]
                \cup [kind : {"reflected"}, id : Reflecteds] \cup {NoTask, DropDevice}

Steps(task) ==
    CASE task.kind = "active"    -> Program[task.id]
      [] task.kind = "msg"       -> MsgProgram
      [] task.kind = "reflected" -> <<"ack">>
      [] task.kind = "drop"      -> <<"io">>
      [] OTHER                   -> <<>>

Step == Steps(cur)[pc]
AtStep(kinds) == loop = "task" /\ pc \in DOMAIN Steps(cur) /\ Step \in kinds

\* The frame a step of the running task writes.
RequestKind ==
    IF cur.kind = "active" THEN "req"
    ELSE IF cur.kind = "reflected" THEN "reflectedAck"
    ELSE IF cur.kind = "drop" THEN "drop"
    ELSE IF Step = "ack" THEN "msgAck" ELSE "msgReq"
Request == Frame(RequestKind, IF cur.kind = "active" THEN <<cur.id, pc>> ELSE cur.id)

\* The answer it waits for.
Answer == IF cur.kind = "drop" THEN Frame("dropAck", 0) ELSE Frame("ack", 0)

Items == {tasks[i] : i \in DOMAIN tasks}

-----------------------------------------------------------------------------
\* Initial state: the app has started, nothing is connected

EmptySession ==
    /\ slot = <<>> /\ out = <<>> /\ queueErr = FALSE
    /\ backlog = <<>> /\ backlogErr = FALSE /\ held = <<>>
    /\ bypass = {} /\ inbox = <<>>

Init ==
    /\ EmptySession
    /\ inner = "disconnected" /\ tasks = <<>> /\ tasksErr = FALSE
    /\ loop = "off" /\ cur = NoTask /\ pc = 1 /\ wrote = FALSE
    /\ aborted = FALSE
    /\ pushed = <<>> /\ processed = <<>> /\ acked = {} /\ ackedR = {}
    /\ served = {} /\ dropped = FALSE
    /\ done = [t \in Tasks |-> "none"]
    /\ runs = [t \in Tasks |-> 0]
    /\ ghosts = {}
    /\ runner = "up"
    /\ connects = 0

\* Nothing runs any more in a worker whose event loop hangs.
Alive == runner # "hung"

-----------------------------------------------------------------------------
\* Scheduling and replacing the inner task manager

Enqueue(t) ==
    /\ done' = [done EXCEPT ![t] = "pending"]
    /\ tasks' = Append(tasks, t)
Refuse(t, settlement) == done' = [done EXCEPT ![t] = settlement] /\ UNCHANGED tasks

\* DisconnectedTaskManager.schedule: only persistent tasks are kept for later.
ScheduleOffline(t) ==
    IF t \in Persistent THEN Enqueue(t) ELSE Refuse(t, "rejected")

\* ConnectedTaskManager.schedule: it throws out of _tasks.put once the run loop
\* has exited with an error.
ScheduleOnline(t) ==
    IF tasksErr THEN Refuse(t, "thrown") ELSE Enqueue(t)

Schedule(t) ==
    /\ Alive /\ done[t] = "none"
    /\ \/ inner = "disconnected" /\ ScheduleOffline(t)
       \/ inner = "connected" /\ ScheduleOnline(t)
    /\ UNCHANGED <<inner, tasksErr, sessionVars, runVars, serverVars, aborted, runs,
                   ghosts, runner, connects>>

CarriedDone == \E t \in Items : done[t] # "pending"

\* The tasks that a new connection's task manager takes over.
RescheduledAll == {tasks}
RescheduledWithoutHead == Filtered(IF tasks = <<>> THEN tasks ELSE Tail(tasks), Persistent)
RescheduledReversed ==
    {[i \in DOMAIN q |-> q[Len(q) + 1 - i]] : q \in Filtered(tasks, Persistent)}
Rescheduled == Filtered(tasks, Persistent)

\* replace(CONNECTING): every connection gets a new ConnectedTaskManager with
\* queues of its own. Its constructor keeps the persistent tasks and rejects
\* the others.
Connect ==
    /\ Alive /\ inner = "disconnected" /\ runner = "up" /\ ~CarriedDone
    /\ inner' = "connected"
    /\ tasks' \in Rescheduled
    /\ done' = [t \in Tasks |-> IF t \in Items \ Persistent THEN "rejected" ELSE done[t]]
    /\ tasksErr' = FALSE
    /\ loop' = "off" /\ cur' = NoTask /\ pc' = 1 /\ wrote' = FALSE
    /\ slot' = <<>> /\ out' = <<>> /\ queueErr' = FALSE
    /\ backlog' = <<>> /\ backlogErr' = FALSE /\ held' = <<>>
    /\ bypass' = {} /\ inbox' = <<>>
    /\ pushed' = <<>> /\ processed' = <<>>
    /\ aborted' = FALSE
    /\ connects' = connects + 1
    /\ UNCHANGED <<acked, ackedR, served, dropped, runs, ghosts, runner>>

\* The constructor's assertion on done fails: the exception ends the
\* connection manager's generator, nothing reconnects any more.
ConnectAsserts ==
    /\ Alive /\ inner = "disconnected" /\ runner = "up" /\ CarriedDone
    /\ runner' = "dead"
    /\ UNCHANGED <<sessionVars, runVars, queueVars, serverVars, aborted, done, runs,
                   ghosts, connects>>

\* Only from here on, a failing connection is a matter of the network.
MayFail == connects < MaxConnects

\* Connection.create rejects, its run loop was never started:
\* replace(DISCONNECTED) at once.
ConnectFails ==
    /\ Alive /\ inner = "connected" /\ loop = "off" /\ MayFail
    /\ inner' = "disconnected"
    /\ UNCHANGED <<tasks, tasksErr, sessionVars, runVars, serverVars, aborted, done, runs,
                   ghosts, runner, connects>>

StartRun ==
    /\ Alive /\ inner = "connected" /\ loop = "off"
    /\ loop' = "next"
    /\ UNCHANGED <<cur, pc, wrote, queueVars, sessionVars, serverVars, aborted, done, runs,
                   ghosts, runner, connects>>

\* From its step from on, the task touches no queue any more.
OffQueue(t, from) == \A i \in from..Len(Program[t]) : Program[t][i] = "off"

\* A run that touches no queue of its manager any more can still end well when
\* that manager is gone. All others fail on an errored queue.
Survives == loop = "task" /\ cur.kind = "active" /\ ~backlogErr /\ OffQueue(cur.id, pc)

\* What is left of an old loop: its queue, and whether its backlog has frames.
Ghost == [queue |-> tasks, stocked |-> held \o backlog # <<>>]
Ghosts == [queue : Seq(Tasks) \ {<<>>}, stocked : BOOLEAN]

\* The closing sequence is over: replace(DISCONNECTED) copies _tasks. An old
\* run that is still awaiting something is not waited for.
Disconnect ==
    /\ Alive /\ inner = "connected" /\ aborted /\ loop \in {"task", "exited"}
    /\ inner' = "disconnected"
    /\ ghosts' = IF Survives THEN ghosts \cup {Ghost} ELSE ghosts
    /\ loop' = "off" /\ cur' = NoTask /\ pc' = 1 /\ wrote' = FALSE
    /\ tasksErr' = FALSE
    /\ slot' = <<>> /\ out' = <<>> /\ queueErr' = FALSE
    /\ backlog' = <<>> /\ backlogErr' = FALSE /\ held' = <<>>
    /\ bypass' = {} /\ inbox' = <<>>
    /\ aborted' = FALSE
    /\ runner' = IF dropped THEN "dropped" ELSE runner
    /\ UNCHANGED <<tasks, pushed, processed, acked, ackedR, served, dropped, done, runs,
                   connects>>

\* The old run completes: done.resolve, a no-op on a settled promise. The old
\* loop goes on with its own copy of the queue. Prepending an errored backlog
\* without frames leaves one whose get neither waits nor raises: it spins, and
\* the event loop hangs, unless the loop exits at once with nothing scheduled.
GhostFinish(g) ==
    LET rest == Tail(g.queue)
    IN  /\ Alive /\ g \in ghosts
        /\ done' = [done EXCEPT ![Head(g.queue)] = IF @ = "pending" THEN "resolved" ELSE @]
        /\ runner' = IF rest # <<>> /\ ~g.stocked THEN "hung" ELSE runner
        /\ IF rest # <<>> /\ g.stocked
           THEN /\ runs' = [runs EXCEPT ![Head(rest)] = @ + 1]
                /\ ghosts' = (ghosts \ {g}) \cup
                       {h \in {[g EXCEPT !.queue = rest]} : OffQueue(Head(rest), 1)}
           ELSE ghosts' = ghosts \ {g} /\ UNCHANGED runs
        /\ UNCHANGED <<sessionVars, runVars, queueVars, serverVars, aborted, connects>>

-----------------------------------------------------------------------------
\* The run loop

\* The error path of run: every queue is moved into the error state.
ExitWithoutQueues ==
    /\ loop' = "exited" /\ cur' = NoTask /\ pc' = 1 /\ wrote' = FALSE
    /\ tasksErr' = TRUE /\ backlogErr' = TRUE /\ UNCHANGED queueErr
Exit ==
    /\ loop' = "exited" /\ cur' = NoTask /\ pc' = 1 /\ wrote' = FALSE
    /\ tasksErr' = TRUE /\ queueErr' = TRUE /\ backlogErr' = TRUE

\* _next and _run for what it returned: the task takes over the backlog.
Start(task, remaining) ==
    /\ loop' = "task" /\ cur' = task /\ pc' = 1 /\ wrote' = FALSE
    /\ held' = remaining /\ backlog' = <<>> /\ backlogErr' = FALSE

\* A scheduled task goes first. It stays in _tasks while it runs.
PickTask ==
    /\ Alive /\ loop = "next" /\ tasks # <<>>
    /\ Start(Frame("active", Head(tasks)), backlog)
    /\ runs' = [runs EXCEPT ![Head(tasks)] = @ + 1]
    /\ UNCHANGED <<queueVars, slot, out, queueErr, bypass, inbox, serverVars, aborted, done,
                   ghosts, runner, connects>>

\* Without a scheduled task, an inbound frame is consumed: from the backlog
\* first. Acknowledgements nobody waits for are ignored.
Handle(frame, remaining) ==
    IF frame.kind \in {"msg", "reflected"}
    THEN Start(frame, remaining)
    ELSE backlog' = remaining /\ UNCHANGED <<runVars, held, backlogErr>>

PickInbound ==
    /\ Alive /\ loop = "next" /\ tasks = <<>>
    /\ aborted => backlog # <<>> /\ ~backlogErr
    /\ \/ /\ backlog # <<>>
          /\ Handle(Head(backlog), Tail(backlog))
          /\ UNCHANGED slot
       \/ /\ backlog = <<>> /\ slot # <<>>
          /\ Handle(Head(slot), <<>>)
          /\ slot' = <<>>
    /\ UNCHANGED <<queueVars, out, queueErr, bypass, inbox, serverVars, aborted, done, runs,
                   ghosts, runner, connects>>

\* With nothing scheduled, the errored decoder queue makes _next throw.
NextThrows ==
    /\ Alive /\ loop = "next" /\ tasks = <<>>
    /\ aborted /\ (backlog = <<>> \/ backlogErr)
    /\ Exit
    /\ UNCHANGED <<inner, tasks, slot, out, backlog, held, bypass, inbox, serverVars, aborted,
                   done, runs, ghosts, runner, connects>>

\* Something outside the queues that the task awaited.
StepOff ==
    /\ Alive /\ AtStep({"off"})
    /\ pc' = pc + 1
    /\ UNCHANGED <<loop, cur, wrote, queueVars, sessionVars, serverVars, aborted, done, runs,
                   ghosts, runner, connects>>

\* put waits until the previous value was consumed.
NoWait(queue) == TRUE
Free(queue) == queue = <<>>

\* _write: the request is put into the encoder queue.
Write ==
    /\ Alive /\ AtStep({"io", "ack"}) /\ ~wrote /\ ~queueErr /\ Free(out)
    /\ out' = Append(out, Request)
    /\ IF Step = "ack" THEN pc' = pc + 1 /\ UNCHANGED wrote
                       ELSE wrote' = TRUE /\ UNCHANGED pc
    /\ UNCHANGED <<loop, cur, queueVars, slot, queueErr, backlog, backlogErr, held, bypass,
                   inbox, serverVars, aborted, done, runs, ghosts, runner, connects>>

\* The step's preprocess function accepts the answer it waits for.
AcceptsAny(frame) == TRUE
Accepts(frame) == frame = Answer

\* TaskCodec.read on one frame: the answer is accepted, a reflected message is
\* processed beside the task, another message is put on the manager's new
\* backlog, any other frame is rejected, that is, logged.
Backlogged(frame) ==
    /\ backlog' = Append(backlog, frame)
    /\ UNCHANGED <<pc, wrote, bypass>>

Accepted == pc' = pc + 1 /\ wrote' = FALSE /\ UNCHANGED <<backlog, bypass>>

Receive(frame) ==
    \/ Accepts(frame) /\ Accepted
    \/ /\ ~Accepts(frame) /\ frame.kind = "reflected"
       /\ bypass' = bypass \cup {frame.id}
       /\ UNCHANGED <<pc, wrote, backlog>>
    \/ ~Accepts(frame) /\ frame.kind = "msg" /\ Backlogged(frame)
    \/ /\ ~Accepts(frame) /\ frame.kind \notin {"msg", "reflected"}
       /\ UNCHANGED <<pc, wrote, backlog, bypass>>

\* The backlog the task took over is read before the decoder queue.
Read ==
    /\ Alive /\ AtStep({"io"}) /\ wrote /\ ~queueErr
    /\ \/ /\ held # <<>>
          /\ Receive(Head(held))
          /\ held' = Tail(held)
          /\ UNCHANGED slot
       \/ /\ held = <<>> /\ slot # <<>>
          /\ Receive(Head(slot))
          /\ slot' = <<>>
          /\ UNCHANGED held
    /\ UNCHANGED <<loop, cur, queueVars, out, queueErr, backlogErr, inbox, serverVars, aborted,
                   done, runs, ghosts, runner, connects>>

\* _bypass: the acknowledgement of a reflected message that was processed
\* while a task was reading.
BypassAck(r) ==
    /\ Alive /\ r \in bypass
    /\ bypass' = bypass \ {r}
    /\ \/ ~queueErr /\ Free(out) /\ out' = Append(out, Frame("reflectedAck", r))
       \/ queueErr /\ UNCHANGED out
    /\ UNCHANGED <<runVars, queueVars, slot, queueErr, backlog, backlogErr, held, inbox,
                   serverVars, aborted, done, runs, ghosts, runner, connects>>

\* What the task left of the backlog it took over goes before its own.
RemainingDiscarded == backlog
Remaining == held \o backlog

\* The task returned. What it left of the backlog it took over goes in front of
\* what it backlogged itself; prepend throws on an errored backlog, and spins
\* (see GhostFinish) when the one taken over was in the error state. Then the
\* item is consumed and its promise resolved.
Finish ==
    /\ Alive /\ loop = "task" /\ pc > Len(Steps(cur))
    /\ IF backlogErr \/ cur.kind = "drop"
       THEN /\ Exit
            /\ UNCHANGED <<inner, tasks, backlog, held, processed, done, runner>>
       ELSE /\ backlog' = Remaining
            /\ held' = <<>>
            /\ loop' = "next" /\ cur' = NoTask /\ pc' = 1 /\ wrote' = FALSE
            /\ IF cur.kind = "active"
               THEN /\ tasks' = Tail(tasks)
                    /\ done' = [done EXCEPT ![cur.id] = IF @ = "pending" THEN "resolved" ELSE @]
               ELSE UNCHANGED <<tasks, done>>
            /\ processed' = IF cur.kind = "msg" THEN Append(processed, cur.id) ELSE processed
            /\ runner' = IF aborted /\ backlog' = <<>> /\ tasks' # <<>> THEN "hung" ELSE runner
            /\ UNCHANGED <<inner, tasksErr, queueErr, backlogErr>>
    /\ UNCHANGED <<slot, out, bypass, inbox, pushed, acked, ackedR, served, dropped, aborted,
                   runs, ghosts, connects>>

\* A queue the task reads or writes is in the error state: its run throws. For
\* the DropDeviceTask that leaves the error path of run half way.
Throw ==
    /\ Alive /\ AtStep({"io", "ack"}) /\ queueErr
    /\ IF cur.kind = "drop"
       THEN /\ loop' = "exited" /\ cur' = NoTask /\ pc' = 1 /\ wrote' = FALSE
            /\ UNCHANGED <<tasksErr, queueErr, backlogErr>>
       ELSE Exit
    /\ UNCHANGED <<inner, tasks, slot, out, backlog, held, bypass, inbox, serverVars, aborted,
                   done, runs, ghosts, runner, connects>>

\* The task itself fails, on a protocol error for example. If the error is
\* marked unrecoverable, the device is dropped before the loop exits.
Fail ==
    /\ Alive /\ loop = "task" /\ cur.kind # "drop" /\ ~aborted /\ MayFail
    /\ \/ /\ Exit
          /\ UNCHANGED <<backlog, held>>
       \/ /\ Start(DropDevice, backlog)
          /\ UNCHANGED <<tasksErr, queueErr>>
    /\ UNCHANGED <<inner, tasks, slot, out, bypass, inbox, serverVars, aborted, done, runs,
                   ghosts, runner, connects>>

\* The abort signal: the queues of the connection are moved into the error
\* state, _tasks is not. A loop that waits with nothing scheduled exits.
AbortEffect ==
    /\ ~aborted
    /\ aborted' = TRUE
    /\ IF loop = "next" /\ tasks = <<>>
       THEN Exit
       ELSE /\ queueErr' = TRUE /\ backlogErr' = TRUE
            /\ UNCHANGED <<runVars, tasksErr>>
    /\ UNCHANGED <<inner, tasks, slot, out, backlog, held, bypass, inbox, serverVars, done,
                   runs, ghosts, runner, connects>>

\* The connection is lost or closed.
Abort ==
    /\ Alive /\ loop \in {"next", "task"}
    /\ MayFail \/ dropped
    /\ AbortEffect

\* The run loop has exited: the errored encoder queue detaches the writable
\* side of the transport, which closes the connection.
CloseAfterExit ==
    /\ Alive /\ inner = "connected" /\ loop = "exited" /\ queueErr
    /\ AbortEffect

-----------------------------------------------------------------------------
\* The pipeline and the servers

\* The pipeline puts the next inbound frame into the decoder queue, waiting
\* until the previous one was consumed.
Deliver ==
    /\ Alive /\ inner = "connected" /\ inbox # <<>> /\ Free(slot) /\ ~queueErr
    /\ slot' = Append(slot, Head(inbox))
    /\ inbox' = Tail(inbox)
    /\ UNCHANGED <<runVars, queueVars, out, queueErr, backlog, backlogErr, held, bypass,
                   serverVars, aborted, done, runs, ghosts, runner, connects>>

\* The pipeline takes a frame from the encoder queue; the server receives it
\* and answers a request. A connection that dies before or after this step
\* loses the frame or the answer.
Transmit ==
    /\ Alive /\ out # <<>> /\ ~queueErr
    /\ out' = <<>>
    /\ LET frame == Head(out) IN
       /\ inbox' = IF frame.kind \in {"req", "msgReq"} THEN Append(inbox, Frame("ack", 0))
                   ELSE IF frame.kind = "drop" THEN Append(inbox, Frame("dropAck", 0))
                   ELSE inbox
       /\ served' = IF frame.kind = "req" THEN served \cup {frame.id} ELSE served
       /\ acked' = IF frame.kind = "msgAck" THEN acked \cup {frame.id} ELSE acked
       /\ ackedR' = IF frame.kind = "reflectedAck" THEN ackedR \cup {frame.id} ELSE ackedR
       /\ dropped' = (dropped \/ frame.kind = "drop")
    /\ UNCHANGED <<runVars, queueVars, slot, queueErr, backlog, backlogErr, held, bypass,
                   pushed, processed, aborted, done, runs, ghosts, runner, connects>>

Pushed == {pushed[i] : i \in DOMAIN pushed}

\* The chat server sends what was not acknowledged, in order, once per connection.
PushMsg ==
    /\ Alive /\ inner = "connected" /\ ~dropped
    /\ \E m \in Msgs \ (acked \cup Pushed) :
          /\ \A k \in 1..(m - 1) : k \in acked \cup Pushed
          /\ pushed' = Append(pushed, m)
          /\ inbox' = Append(inbox, Frame("msg", m))
    /\ UNCHANGED <<runVars, queueVars, slot, out, queueErr, backlog, backlogErr, held, bypass,
                   processed, acked, ackedR, served, dropped, aborted, done, runs, ghosts,
                   runner, connects>>

ReflectedInFlight ==
    {f.id : f \in {g \in {inbox[i] : i \in DOMAIN inbox} \cup {slot[i] : i \in DOMAIN slot}
                        \cup {out[i] : i \in DOMAIN out} \cup {cur} :
                   g.kind \in {"reflected", "reflectedAck"}}} \cup bypass

\* The mediator likewise with its reflection queue.
PushReflected ==
    /\ Alive /\ inner = "connected" /\ ~dropped /\ ~queueErr
    /\ \E r \in Reflecteds \ (ackedR \cup ReflectedInFlight) :
          inbox' = Append(inbox, Frame("reflected", r))
    /\ UNCHANGED <<runVars, queueVars, slot, out, queueErr, backlog, backlogErr, held, bypass,
                   serverVars, aborted, done, runs, ghosts, runner, connects>>

-----------------------------------------------------------------------------
RunLoop ==
    StartRun \/ PickTask \/ PickInbound \/ NextThrows \/ StepOff \/ Write \/ Read \/ Finish
        \/ Throw
OldLoops == \E g \in ghosts : GhostFinish(g)
Bypasses == \E r \in Reflecteds : BypassAck(r)
Pipeline == Deliver \/ Transmit
Reconnect == Connect \/ ConnectAsserts \/ CloseAfterExit \/ Disconnect

Next ==
    \/ \E t \in Tasks : Schedule(t)
    \/ RunLoop \/ OldLoops \/ Bypasses \/ Pipeline \/ Reconnect
    \/ PushMsg \/ PushReflected
    \/ ConnectFails \/ Fail \/ Abort

\* The event loop, unless it hangs, runs every ready continuation, timers and
\* sockets fire, and the connection manager reconnects. Nothing is assumed
\* about callers scheduling tasks and connections breaking.
Fairness ==
    /\ WF_vars(RunLoop) /\ WF_vars(OldLoops) /\ WF_vars(Bypasses)
    /\ WF_vars(Pipeline) /\ WF_vars(Reconnect) /\ WF_vars(PushMsg)

Spec == Init /\ [][Next]_vars
FairSpec == Spec /\ Fairness

-----------------------------------------------------------------------------
\* Properties

FlagTypes ==
    /\ tasksErr \in BOOLEAN /\ queueErr \in BOOLEAN /\ backlogErr \in BOOLEAN
    /\ wrote \in BOOLEAN /\ aborted \in BOOLEAN /\ dropped \in BOOLEAN
Settlements == [Tasks -> {"none", "pending", "resolved", "rejected", "thrown"}]
ManagerTypes ==
    /\ inner \in {"connected", "disconnected"}
    /\ tasks \in Seq(Tasks)
    /\ done \in Settlements
    /\ runs \in [Tasks -> Nat] /\ ghosts \subseteq Ghosts
    /\ runner \in {"up", "dead", "dropped", "hung"} /\ connects \in Nat
RunTypes ==
    /\ loop \in {"off", "next", "task", "exited"}
    /\ cur \in Running /\ pc \in Nat \ {0}
    /\ loop = "task" <=> cur # NoTask
HeadRuns == cur.kind = "active" => tasks # <<>> /\ Head(tasks) = cur.id
SessionTypes ==
    /\ slot \in Seq(InFrames) /\ Len(slot) <= 1
    /\ out \in Seq(OutFrames) /\ Len(out) <= 1
    /\ backlog \in Seq(InFrames) /\ held \in Seq(InFrames)
    /\ bypass \subseteq Reflecteds /\ inbox \in Seq(InFrames)
ServerTypes ==
    /\ pushed \in Seq(Msgs) /\ processed \in Seq(Msgs)
    /\ acked \subseteq Msgs /\ ackedR \subseteq Reflecteds
    /\ served \subseteq Tasks \X Nat

\* The state is well formed, the running task is the head of the queue, and a put
\* never overwrites what is still in the decoder or encoder queue.
TypeOK == FlagTypes /\ ManagerTypes /\ RunTypes /\ HeadRuns /\ SessionTypes /\ ServerTypes

\* "Ensures that all relevant tasks are not lost between reconnections": a
\* persistent task that was accepted and is not complete is in the queue of the
\* current manager, whichever runs threw, connections broke, and managers were
\* replaced meanwhile.
PersistentKept ==
    \A t \in Persistent : done[t] = "pending" => t \in Items

\* A connection's inbound messages are processed in the order the server sent
\* them, none lost and none twice: read in processing order, the processed
\* messages, the one at hand, the backlogs, the decoder queue and the pipeline
\* always hold exactly what the server sent. Tasks that read while others wait,
\* and the backlog that moves between manager and task, must not disturb that.
MsgIds(frames) ==
    LET msgs == FilterSeq(frames, [kind : {"msg"}, id : Msgs])
    IN  [i \in DOMAIN msgs |-> msgs[i].id]

InboundInOrder ==
    inner = "connected" /\ ~queueErr =>
        LET atHand == IF cur.kind = "msg" THEN <<cur.id>> ELSE <<>>
        IN  \/ cur.kind = "drop"
            \/ pushed = processed \o atHand
                            \o MsgIds(backlog \o held \o slot \o inbox)

\* A non-persistent task is never run again after a reconnect.
VolatileRunsOnce == \A t \in Tasks \ Persistent : runs[t] <= 1

\* "Once the task queue is drained, all outgoing messages that were pending
\* have been transmitted and acknowledged by the server": no promise of a task
\* resolves, on whichever connection, before the server received all its
\* requests.
ResolvedWasServed ==
    \A t \in Tasks : done[t] = "resolved" =>
        \A i \in DOMAIN Program[t] : Program[t][i] = "io" => <<t, i>> \in served

\* The promise of the durable queue, whatever happens to the connections.
Durable == INSTANCE DurableTasks WITH
    queue   <- FilterSeq(tasks, {t \in Persistent : done[t] = "pending"}),
    settled <- {t \in Persistent : done[t] = "resolved"}
DurableQueue == Durable!Spec

\* Every accepted persistent task completes, and every message on the chat
\* server is processed and acknowledged, once the connection stops breaking,
\* unless the device was dropped, the connection manager died or the event loop
\* hung.
PersistentCompletes ==
    \A t \in Persistent : done[t] = "pending" ~> done[t] # "pending" \/ runner # "up"
InboundAcknowledged == <>(runner # "up" \/ acked = Msgs)

\* The constructor's own assertion: "Expected task to not be marked as 'done'".
CarriedNotDone == runner # "dead"

\* "Await a value, bubble any error": a queue's get never spins.
GetAwaits == runner # "hung"

\* What persist stands for: a persistent task is rerun when the connection was
\* lost, it is not refused because the connection is being lost.
PersistentAccepted == \A t \in Persistent : done[t] # "thrown"
===============================================================================
