-------------------------- MODULE TaskManager_proofs --------------------------
(***************************************************************************)
(* Theorems about TaskManager, for every set of tasks, every program and   *)
(* any number of messages and connections.                                 *)
(***************************************************************************)
EXTENDS TaskManager, OrderedFilter_proofs, TLAPS

-----------------------------------------------------------------------------
\* Type correctness

\* The frames that the model sends are frames.
LEMMA FramesTyped ==
    /\ \A m \in Msgs : Frame("msg", m) \in (InFrames \cap Running) \ {NoTask}
    /\ \A r \in Reflecteds : Frame("reflected", r) \in (InFrames \cap Running) \ {NoTask}
    /\ \A r \in Reflecteds : Frame("reflectedAck", r) \in OutFrames
    /\ Frame("ack", 0) \in InFrames /\ Frame("dropAck", 0) \in InFrames
    /\ \A t \in Tasks : Frame("active", t) \in Running \ {NoTask}
    /\ NoTask \in Running /\ DropDevice \in Running \ {NoTask}
BY DEF Frame, InFrames, OutFrames, Running, NoTask, DropDevice, Msgs, Reflecteds

\* So is the request of a task.
LEMMA RequestTyped ==
    ASSUME cur \in Running, cur # NoTask, pc \in Nat
    PROVE  Request \in OutFrames
BY DEF Request, RequestKind, Running, OutFrames, Frame, NoTask, DropDevice, Msgs, Reflecteds

\* An inbound frame is one of these.
LEMMA InFrameKinds ==
    ASSUME NEW f \in InFrames
    PROVE  /\ f.kind = "msg" => f.id \in Msgs /\ f \in Running \ {NoTask}
           /\ f.kind = "reflected" => f.id \in Reflecteds /\ f \in Running \ {NoTask}
BY DEF InFrames, Running, NoTask, Frame

\* An outbound frame is one of these.
LEMMA OutFrameKinds ==
    ASSUME NEW f \in OutFrames
    PROVE  /\ f.kind = "req" => f.id \in Tasks \X Nat
           /\ f.kind = "msgAck" => f.id \in Msgs
           /\ f.kind = "reflectedAck" => f.id \in Reflecteds
BY DEF OutFrames

\* What runs is a task or nothing.
LEMMA RunningKinds ==
    ASSUME NEW c \in Running
    PROVE  /\ c.kind = "active" => c.id \in Tasks
           /\ c.kind = "msg" => c.id \in Msgs
BY DEF Running, NoTask, DropDevice, Frame

\* The types hold initially.
LEMMA TypeInit == Init => TypeOK
<1> SUFFICES ASSUME Init PROVE TypeOK
  OBVIOUS
<1> USE DEF Init, EmptySession
<1>1. FlagTypes
  BY Zenon DEF FlagTypes
<1>2. ManagerTypes
  BY DEF ManagerTypes, Settlements
<1>3. RunTypes
  BY FramesTyped DEF RunTypes
<1>4. SessionTypes
  BY DEF SessionTypes
<1>5. ServerTypes
  BY DEF ServerTypes
<1>6. HeadRuns
  BY DEF HeadRuns, NoTask, Frame
<1> QED
  BY <1>1, <1>2, <1>3, <1>4, <1>5, <1>6, Zenon DEF TypeOK

\* What one step does to each part of the type invariant.
LEMMA FlagsTyped == ASSUME TypeOK, Next PROVE FlagTypes'
<1>1. CASE Connect
  BY <1>1, Zenon DEF TypeOK, FlagTypes, Connect, Rescheduled
<1>2. CASE Disconnect
  BY <1>2, Zenon DEF TypeOK, FlagTypes, Disconnect
<1>3. CASE PickTask
  BY <1>3, Zenon DEF TypeOK, FlagTypes, PickTask, Start, queueVars, serverVars
<1>4. CASE PickInbound
  BY <1>4, Zenon DEF TypeOK, FlagTypes, PickInbound, Handle, Start, runVars, queueVars,
     serverVars
<1>5. CASE NextThrows
  BY <1>5, Zenon DEF TypeOK, FlagTypes, NextThrows, Exit, serverVars
<1>6. CASE Write
  BY <1>6, Zenon DEF TypeOK, FlagTypes, Write, Free, queueVars, serverVars
<1>7. CASE Read
  BY <1>7, Zenon DEF TypeOK, FlagTypes, Read, Receive, Accepted, Backlogged, queueVars,
     serverVars
<1>8. CASE Finish
  BY <1>8, Zenon DEF TypeOK, FlagTypes, Finish, Exit, Remaining
<1>9. CASE Throw
  BY <1>9, Zenon DEF TypeOK, FlagTypes, Throw, Exit, serverVars
<1>10. CASE Fail
  BY <1>10, Zenon DEF TypeOK, FlagTypes, Fail, Exit, Start, serverVars
<1>11. CASE Abort
  BY <1>11, Zenon DEF TypeOK, FlagTypes, Abort, AbortEffect, Exit, runVars, serverVars
<1>12. CASE CloseAfterExit
  BY <1>12, Zenon DEF TypeOK, FlagTypes, CloseAfterExit, AbortEffect, Exit, runVars,
     serverVars
<1>13. CASE Transmit
  <2>1. dropped' = TRUE \/ dropped' = FALSE
    BY <1>13 DEF Transmit
  <2> QED
    BY <1>13, <2>1, Zenon DEF TypeOK, FlagTypes, Transmit, runVars, queueVars
<1>14. CASE \/ \E t \in Tasks : Schedule(t)
            \/ \E g \in ghosts : GhostFinish(g)
            \/ \E r \in Reflecteds : BypassAck(r)
            \/ ConnectAsserts
            \/ ConnectFails
            \/ StartRun
            \/ StepOff
            \/ Deliver
            \/ PushMsg
            \/ PushReflected
  <2>1. UNCHANGED <<tasksErr, queueErr, backlogErr, wrote, aborted, dropped>>
    BY <1>14 DEF Schedule, ScheduleOffline, ScheduleOnline, Enqueue, Refuse, GhostFinish,
       BypassAck, ConnectAsserts, ConnectFails, StartRun,
       StepOff, Deliver, PushMsg, PushReflected, sessionVars, runVars, queueVars, serverVars
  <2> QED
    BY <2>1, Zenon DEF TypeOK, FlagTypes
<1> QED
  BY <1>1, <1>2, <1>3, <1>4, <1>5, <1>6, <1>7, <1>8, <1>9, <1>10, <1>11, <1>12,
     <1>13, <1>14 DEF Next, RunLoop, OldLoops, Bypasses, Pipeline, Reconnect

\* Neither no task nor the one that drops the device is a task of the model.
LEMMA NoTaskKind == NoTask.kind # "active" /\ DropDevice.kind # "active"
BY DEF NoTask, DropDevice, Frame

\* The running task stays the head of the queue.
LEMMA HeadKept == ASSUME TypeOK, Next PROVE HeadRuns'
<1> DEFINE NotActive == cur'.kind # "active"
           Same == UNCHANGED <<cur, tasks>>
<1>1. ASSUME NEW t \in Tasks, Schedule(t) PROVE HeadRuns'
  <2>1. cur' = cur /\ (tasks' = tasks \/ tasks' = Append(tasks, t))
    BY <1>1 DEF Schedule, ScheduleOffline, ScheduleOnline, Enqueue, Refuse, runVars
  <2>2. tasks \in Seq(Tasks)
    BY DEF TypeOK, ManagerTypes
  <2>3. tasks # <<>> => Append(tasks, t) # <<>> /\ Head(Append(tasks, t)) = Head(tasks)
    BY <2>2
  <2> QED
    BY <2>1, <2>3 DEF TypeOK, HeadRuns
<1>2. Connect => NotActive
  BY NoTaskKind DEF Connect, Rescheduled
<1>3. Disconnect => NotActive
  BY NoTaskKind DEF Disconnect
<1>4. PickTask => HeadRuns'
  <2> SUFFICES ASSUME PickTask PROVE HeadRuns'
    OBVIOUS
  <2>1. tasks' = tasks /\ tasks # <<>>
    BY DEF PickTask, queueVars
  <2>2. cur'.id = Head(tasks)
    BY DEF PickTask, Start, Frame
  <2> QED
    BY <2>1, <2>2 DEF HeadRuns
<1>5. PickInbound => NotActive \/ Same
  BY DEF PickInbound, Handle, Start, Frame, runVars, queueVars
<1>6. NextThrows => NotActive
  BY NoTaskKind DEF NextThrows, Exit
<1>7. Finish => NotActive
  BY NoTaskKind DEF Finish, Exit, Remaining
<1>8. Throw => NotActive
  BY NoTaskKind DEF Throw, Exit
<1>9. Fail => NotActive
  BY NoTaskKind DEF Fail, Exit, Start
<1>10. Abort => NotActive \/ Same
  BY NoTaskKind DEF Abort, AbortEffect, Exit, runVars
<1>11. CloseAfterExit => NotActive \/ Same
  BY NoTaskKind DEF CloseAfterExit, AbortEffect, Exit, runVars
<1>12. ASSUME \/ \E g \in ghosts : GhostFinish(g)
              \/ \E r \in Reflecteds : BypassAck(r)
              \/ ConnectAsserts
              \/ ConnectFails
              \/ StartRun
              \/ StepOff
              \/ Write
              \/ Read
              \/ Deliver
              \/ Transmit
              \/ PushMsg
              \/ PushReflected
     PROVE  UNCHANGED <<cur, tasks>>
  <2>1. ASSUME NEW g \in ghosts, GhostFinish(g) PROVE UNCHANGED <<cur, tasks>>
    BY <2>1 DEF GhostFinish, runVars, queueVars
  <2>2. ASSUME NEW r \in Reflecteds, BypassAck(r) PROVE UNCHANGED <<cur, tasks>>
    BY <2>2 DEF BypassAck, Free, runVars, queueVars
  <2>3. ConnectAsserts => UNCHANGED <<cur, tasks>>
    BY DEF ConnectAsserts, runVars, queueVars
  <2>4. ConnectFails => UNCHANGED <<cur, tasks>>
    BY DEF ConnectFails, runVars
  <2>5. StartRun => UNCHANGED <<cur, tasks>>
    BY DEF StartRun, queueVars
  <2>6. StepOff => UNCHANGED <<cur, tasks>>
    BY DEF StepOff, queueVars
  <2>7. Write => UNCHANGED <<cur, tasks>>
    BY DEF Write, Free, queueVars
  <2>8. Read => UNCHANGED <<cur, tasks>>
    BY DEF Read, Receive, Accepted, Backlogged, queueVars
  <2>9. Deliver => UNCHANGED <<cur, tasks>>
    BY DEF Deliver, Free, runVars, queueVars
  <2>10. Transmit => UNCHANGED <<cur, tasks>>
    BY DEF Transmit, runVars, queueVars
  <2>11. PushMsg => UNCHANGED <<cur, tasks>>
    BY DEF PushMsg, runVars, queueVars
  <2>12. PushReflected => UNCHANGED <<cur, tasks>>
    BY DEF PushReflected, runVars, queueVars
  <2> QED
    BY <1>12, <2>1, <2>2, <2>3, <2>4, <2>5, <2>6, <2>7, <2>8, <2>9, <2>10,
       <2>11, <2>12
<1>13. HeadRuns' \/ NotActive \/ Same
  BY <1>1, <1>2, <1>3, <1>4, <1>5, <1>6, <1>7, <1>8, <1>9, <1>10, <1>11, <1>12 DEF Next,
     RunLoop, OldLoops, Bypasses, Pipeline, Reconnect
<1> QED
  BY <1>13 DEF TypeOK, HeadRuns

\* The queue and the tasks keep their types.
LEMMA ManagerTyped == ASSUME TypeOK, Next PROVE ManagerTypes'
<1>1. ASSUME NEW t \in Tasks, Schedule(t) PROVE ManagerTypes'
  <2>1. tasks' \in Seq(Tasks)
    <3>1. tasks' = tasks \/ tasks' = Append(tasks, t)
      BY <1>1 DEF Schedule, ScheduleOffline, ScheduleOnline, Enqueue, Refuse
    <3>2. tasks \in Seq(Tasks)
      BY DEF TypeOK, ManagerTypes
    <3> QED
      BY <3>1, <3>2
  <2>2. done' \in Settlements
    BY <1>1 DEF TypeOK, ManagerTypes, Schedule, ScheduleOffline, ScheduleOnline, Enqueue,
       Refuse, Settlements
  <2>3. UNCHANGED <<inner, runs, ghosts, runner, connects>>
    BY <1>1 DEF Schedule, ScheduleOffline, ScheduleOnline, Enqueue, Refuse
  <2> QED
    BY <2>1, <2>2, <2>3 DEF TypeOK, ManagerTypes
<1>2. ASSUME NEW g \in ghosts, GhostFinish(g) PROVE ManagerTypes'
  <2>1. done' \in Settlements
    BY <1>2 DEF TypeOK, ManagerTypes, GhostFinish, Settlements
  <2>2. runs' \in [Tasks -> Nat]
    BY <1>2 DEF TypeOK, ManagerTypes, GhostFinish
  <2>3. ghosts' \subseteq Ghosts
    <3>1. g \in Ghosts
      BY DEF TypeOK, ManagerTypes
    <3>2. Tail(g.queue) # <<>> => [g EXCEPT !.queue = Tail(g.queue)] \in Ghosts
      BY <3>1 DEF Ghosts
    <3>3. \A h \in ghosts' : h \in ghosts
             \/ (Tail(g.queue) # <<>> /\ h = [g EXCEPT !.queue = Tail(g.queue)])
      BY <1>2 DEF GhostFinish
    <3> QED
      BY <3>2, <3>3 DEF TypeOK, ManagerTypes
  <2>4. runner' \in {"up", "dead", "dropped", "hung"}
    BY <1>2 DEF TypeOK, ManagerTypes, GhostFinish
  <2>5. UNCHANGED <<inner, tasks, connects>>
    BY <1>2 DEF GhostFinish, queueVars
  <2> QED
    BY <2>1, <2>2, <2>3, <2>4, <2>5 DEF TypeOK, ManagerTypes
<1>3. CASE Connect
  <2>1. inner' \in {"connected", "disconnected"}
    BY <1>3 DEF TypeOK, ManagerTypes, Connect, Rescheduled
  <2>2. tasks' \in Seq(Tasks)
    <3>1. tasks \in Seq(Tasks) /\ tasks' \in Filtered(tasks, Persistent)
      BY <1>3 DEF TypeOK, ManagerTypes, Connect, Rescheduled
    <3> QED
      BY <3>1, FilteredElements
  <2>3. done' \in Settlements
    BY <1>3 DEF TypeOK, ManagerTypes, Connect, Rescheduled, Settlements
  <2>4. connects' \in Nat
    BY <1>3 DEF TypeOK, ManagerTypes, Connect, Rescheduled
  <2>5. UNCHANGED <<runs, ghosts, runner>>
    BY <1>3 DEF Connect, Rescheduled
  <2> QED
    BY <2>1, <2>2, <2>3, <2>4, <2>5 DEF TypeOK, ManagerTypes
<1>4. CASE ConnectAsserts
  <2>1. runner' \in {"up", "dead", "dropped", "hung"}
    BY <1>4 DEF TypeOK, ManagerTypes, ConnectAsserts
  <2>2. UNCHANGED <<inner, tasks, done, runs, ghosts, connects>>
    BY <1>4 DEF ConnectAsserts, queueVars
  <2> QED
    BY <2>1, <2>2 DEF TypeOK, ManagerTypes
<1>5. CASE ConnectFails
  <2>1. inner' \in {"connected", "disconnected"}
    BY <1>5 DEF TypeOK, ManagerTypes, ConnectFails
  <2>2. UNCHANGED <<tasks, done, runs, ghosts, runner, connects>>
    BY <1>5 DEF ConnectFails
  <2> QED
    BY <2>1, <2>2 DEF TypeOK, ManagerTypes
<1>6. CASE Disconnect
  <2>1. inner' \in {"connected", "disconnected"}
    BY <1>6 DEF TypeOK, ManagerTypes, Disconnect
  <2>2. ghosts' \subseteq Ghosts
    <3>1. Survives => Ghost \in Ghosts
      BY DEF TypeOK, ManagerTypes, HeadRuns, Survives, Ghost, Ghosts
    <3> QED
      BY <1>6, <3>1 DEF TypeOK, ManagerTypes, Disconnect
  <2>3. runner' \in {"up", "dead", "dropped", "hung"}
    BY <1>6 DEF TypeOK, ManagerTypes, Disconnect
  <2>4. UNCHANGED <<tasks, done, runs, connects>>
    BY <1>6 DEF Disconnect
  <2> QED
    BY <2>1, <2>2, <2>3, <2>4 DEF TypeOK, ManagerTypes
<1>7. CASE PickTask
  <2>1. runs' \in [Tasks -> Nat]
    BY <1>7 DEF TypeOK, ManagerTypes, PickTask, Start
  <2>2. UNCHANGED <<inner, tasks, done, ghosts, runner, connects>>
    BY <1>7 DEF PickTask, Start, queueVars
  <2> QED
    BY <2>1, <2>2 DEF TypeOK, ManagerTypes
<1>8. CASE Finish
  <2>1. tasks' \in Seq(Tasks)
    <3>1. tasks' = tasks \/ (tasks' = Tail(tasks) /\ tasks # <<>>)
      BY <1>8 DEF TypeOK, HeadRuns, Finish, Exit
    <3>2. tasks \in Seq(Tasks)
      BY DEF TypeOK, ManagerTypes
    <3> QED
      BY <3>1, <3>2
  <2>2. done' \in Settlements
    BY <1>8 DEF TypeOK, ManagerTypes, Finish, Exit, Remaining, Settlements
  <2>3. runner' \in {"up", "dead", "dropped", "hung"}
    BY <1>8 DEF TypeOK, ManagerTypes, Finish, Exit, Remaining
  <2>4. UNCHANGED <<inner, runs, ghosts, connects>>
    BY <1>8 DEF Finish, Exit, Remaining
  <2> QED
    BY <2>1, <2>2, <2>3, <2>4 DEF TypeOK, ManagerTypes
<1>9. CASE \/ \E r \in Reflecteds : BypassAck(r)
           \/ StartRun
           \/ PickInbound
           \/ NextThrows
           \/ StepOff
           \/ Write
           \/ Read
           \/ Throw
           \/ Fail
           \/ Abort
           \/ CloseAfterExit
           \/ Deliver
           \/ Transmit
           \/ PushMsg
           \/ PushReflected
  <2> DEFINE Kept == UNCHANGED <<inner, tasks, done, runs, ghosts, runner, connects>>
  <2>1. ASSUME NEW r \in Reflecteds, BypassAck(r) PROVE Kept
    BY <2>1 DEF BypassAck, Free, queueVars
  <2>2. StartRun => Kept
    BY DEF StartRun, queueVars
  <2>3. PickInbound => Kept
    BY DEF PickInbound, Handle, Start, queueVars
  <2>4. NextThrows => Kept
    BY DEF NextThrows, Exit
  <2>5. StepOff => Kept
    BY DEF StepOff, queueVars
  <2>6. Write => Kept
    BY DEF Write, Free, queueVars
  <2>7. Read => Kept
    BY DEF Read, Receive, Accepted, Backlogged, queueVars
  <2>8. Throw => Kept
    BY DEF Throw, Exit
  <2>9. Fail => Kept
    BY DEF Fail, Exit, Start
  <2>10. Abort => Kept
    BY DEF Abort, AbortEffect, Exit
  <2>11. CloseAfterExit => Kept
    BY DEF CloseAfterExit, AbortEffect, Exit
  <2>12. Deliver => Kept
    BY DEF Deliver, Free, queueVars
  <2>13. Transmit => Kept
    BY DEF Transmit, queueVars
  <2>14. PushMsg => Kept
    BY DEF PushMsg, queueVars
  <2>15. PushReflected => Kept
    BY DEF PushReflected, queueVars
  <2>16. Kept
    BY <1>9, <2>1, <2>2, <2>3, <2>4, <2>5, <2>6, <2>7, <2>8, <2>9, <2>10, <2>11, <2>12,
       <2>13, <2>14, <2>15
  <2> QED
    BY <2>16 DEF TypeOK, ManagerTypes
<1> QED
  BY <1>1, <1>2, <1>3, <1>4, <1>5, <1>6, <1>7, <1>8, <1>9 DEF Next, RunLoop,
     OldLoops, Bypasses, Pipeline, Reconnect

\* The sequences that one step makes of the session's sequences.
LEMMA SessionSeqs ==
    ASSUME TypeOK
    PROVE  /\ slot \in Seq(InFrames) /\ Len(slot) <= 1
           /\ backlog \in Seq(InFrames) /\ held \in Seq(InFrames)
           /\ <<>> \in Seq(InFrames)
           /\ held \o backlog \in Seq(InFrames)
           /\ backlog # <<>> => Tail(backlog) \in Seq(InFrames)
           /\ held # <<>> => Tail(held) \in Seq(InFrames)
           /\ \A f \in InFrames : Append(backlog, f) \in Seq(InFrames)
           /\ bypass \subseteq Reflecteds
BY DEF TypeOK, SessionTypes

\* So does the connection.
LEMMA SessionTyped == ASSUME TypeOK, Next PROVE SessionTypes'
<1>1. ASSUME NEW r \in Reflecteds, BypassAck(r) PROVE SessionTypes'
  <2>1. out' \in Seq(OutFrames) /\ Len(out') <= 1
    BY <1>1, FramesTyped DEF TypeOK, SessionTypes, BypassAck, Free
  <2>2. bypass' \subseteq Reflecteds
    BY <1>1 DEF TypeOK, SessionTypes, BypassAck, Free
  <2>3. UNCHANGED <<slot, backlog, held, inbox>>
    BY <1>1 DEF BypassAck, Free
  <2> QED
    BY <2>1, <2>2, <2>3 DEF TypeOK, SessionTypes
<1>2. CASE Connect
  <2>1. slot' \in Seq(InFrames) /\ Len(slot') <= 1
    BY <1>2 DEF TypeOK, SessionTypes, Connect, Rescheduled
  <2>2. out' \in Seq(OutFrames) /\ Len(out') <= 1
    BY <1>2 DEF TypeOK, SessionTypes, Connect, Rescheduled
  <2>3. backlog' \in Seq(InFrames)
    BY <1>2 DEF TypeOK, SessionTypes, Connect, Rescheduled
  <2>4. held' \in Seq(InFrames)
    BY <1>2 DEF TypeOK, SessionTypes, Connect, Rescheduled
  <2>5. bypass' \subseteq Reflecteds
    BY <1>2 DEF TypeOK, SessionTypes, Connect, Rescheduled
  <2>6. inbox' \in Seq(InFrames)
    BY <1>2 DEF TypeOK, SessionTypes, Connect, Rescheduled
  <2> QED
    BY <2>1, <2>2, <2>3, <2>4, <2>5, <2>6 DEF TypeOK, SessionTypes
<1>3. CASE Disconnect
  <2>1. slot' \in Seq(InFrames) /\ Len(slot') <= 1
    BY <1>3 DEF TypeOK, SessionTypes, Disconnect
  <2>2. out' \in Seq(OutFrames) /\ Len(out') <= 1
    BY <1>3 DEF TypeOK, SessionTypes, Disconnect
  <2>3. backlog' \in Seq(InFrames)
    BY <1>3 DEF TypeOK, SessionTypes, Disconnect
  <2>4. held' \in Seq(InFrames)
    BY <1>3 DEF TypeOK, SessionTypes, Disconnect
  <2>5. bypass' \subseteq Reflecteds
    BY <1>3 DEF TypeOK, SessionTypes, Disconnect
  <2>6. inbox' \in Seq(InFrames)
    BY <1>3 DEF TypeOK, SessionTypes, Disconnect
  <2> QED
    BY <2>1, <2>2, <2>3, <2>4, <2>5, <2>6 DEF TypeOK, SessionTypes
<1>4. CASE PickTask
  <2>1. backlog' \in Seq(InFrames)
    BY <1>4 DEF TypeOK, SessionTypes, PickTask, Start
  <2>2. held' \in Seq(InFrames)
    BY <1>4 DEF TypeOK, SessionTypes, PickTask, Start
  <2>3. UNCHANGED <<slot, out, bypass, inbox>>
    BY <1>4 DEF PickTask, Start
  <2> QED
    BY <2>1, <2>2, <2>3 DEF TypeOK, SessionTypes
<1>5. CASE PickInbound
  <2>1. slot' \in Seq(InFrames) /\ Len(slot') <= 1
    <3>1. slot' = slot \/ slot' = <<>>
      BY <1>5 DEF PickInbound
    <3>2. slot' \in Seq(InFrames)
      BY <3>1, SessionSeqs, Zenon
    <3>3. Len(slot') <= 1
      BY <3>1, SessionSeqs
    <3> QED
      BY <3>2, <3>3
  <2>2. backlog' \in Seq(InFrames)
    <3>1. backlog' = <<>> \/ (backlog # <<>> /\ backlog' = Tail(backlog))
      BY <1>5 DEF PickInbound, Handle, Start
    <3> QED
      BY <3>1, SessionSeqs, Zenon
  <2>3. held' \in Seq(InFrames)
    <3>1. held' = held \/ held' = <<>> \/ (backlog # <<>> /\ held' = Tail(backlog))
      BY <1>5 DEF PickInbound, Handle, Start
    <3> QED
      BY <3>1, SessionSeqs, Zenon
  <2>4. UNCHANGED <<out, bypass, inbox>>
    BY <1>5 DEF PickInbound, Handle, Start
  <2> QED
    BY <2>1, <2>2, <2>3, <2>4 DEF TypeOK, SessionTypes
<1>6. CASE Write
  <2>1. out' \in Seq(OutFrames) /\ Len(out') <= 1
    BY <1>6, RequestTyped DEF TypeOK, SessionTypes, Write, Free, RunTypes, AtStep
  <2>2. UNCHANGED <<slot, backlog, held, bypass, inbox>>
    BY <1>6 DEF Write, Free
  <2> QED
    BY <2>1, <2>2 DEF TypeOK, SessionTypes
<1>7. CASE Read
  <2>1. slot' \in Seq(InFrames) /\ Len(slot') <= 1
    <3>1. slot' = slot \/ slot' = <<>>
      BY <1>7 DEF Read
    <3>2. slot' \in Seq(InFrames)
      BY <3>1, SessionSeqs, Zenon
    <3>3. Len(slot') <= 1
      BY <3>1, SessionSeqs
    <3> QED
      BY <3>2, <3>3
  <2>2. backlog' \in Seq(InFrames)
    <3>1. PICK f \in InFrames : Receive(f)
      BY <1>7 DEF TypeOK, SessionTypes, Read
    <3>2. backlog' = backlog \/ backlog' = Append(backlog, f)
      BY <3>1, InFrameKinds DEF Receive, Accepted, Backlogged
    <3> QED
      BY <3>2, SessionSeqs
  <2>3. held' \in Seq(InFrames)
    <3>1. held' = held \/ (held # <<>> /\ held' = Tail(held))
      BY <1>7 DEF Read
    <3> QED
      BY <3>1, SessionSeqs, Zenon
  <2>4. bypass' \subseteq Reflecteds
    <3>1. PICK f \in InFrames : Receive(f)
      BY <1>7 DEF TypeOK, SessionTypes, Read
    <3>2. bypass' = bypass \/ (f.id \in Reflecteds /\ bypass' = bypass \cup {f.id})
      BY <3>1, InFrameKinds DEF Receive, Accepted, Backlogged
    <3> QED
      BY <3>2, SessionSeqs
  <2>5. UNCHANGED <<out, inbox>>
    BY <1>7 DEF Read, Receive, Accepted, Backlogged
  <2> QED
    BY <2>1, <2>2, <2>3, <2>4, <2>5 DEF TypeOK, SessionTypes
<1>8. CASE Finish
  <2>1. backlog' \in Seq(InFrames)
    <3>1. backlog' = backlog \/ backlog' = held \o backlog
      BY <1>8 DEF Finish, Exit, Remaining
    <3> QED
      BY <3>1, SessionSeqs, Zenon
  <2>2. held' \in Seq(InFrames)
    <3>1. held' = held \/ held' = <<>>
      BY <1>8 DEF Finish
    <3> QED
      BY <3>1, SessionSeqs, Zenon
  <2>3. UNCHANGED <<slot, out, bypass, inbox>>
    BY <1>8 DEF Finish, Exit, Remaining
  <2> QED
    BY <2>1, <2>2, <2>3 DEF TypeOK, SessionTypes
<1>9. CASE Fail
  <2>1. backlog' \in Seq(InFrames)
    <3>1. backlog' = backlog \/ backlog' = <<>>
      BY <1>9 DEF Fail, Exit, Start
    <3> QED
      BY <3>1, SessionSeqs, Zenon
  <2>2. held' \in Seq(InFrames)
    <3>1. held' = held \/ held' = backlog
      BY <1>9 DEF Fail, Start
    <3> QED
      BY <3>1, SessionSeqs, Zenon
  <2>3. UNCHANGED <<slot, out, bypass, inbox>>
    BY <1>9 DEF Fail, Exit, Start
  <2> QED
    BY <2>1, <2>2, <2>3 DEF TypeOK, SessionTypes
<1>10. CASE Deliver
  <2>1. slot' \in Seq(InFrames) /\ Len(slot') <= 1
    BY <1>10 DEF TypeOK, SessionTypes, Deliver, Free
  <2>2. inbox' \in Seq(InFrames)
    BY <1>10 DEF TypeOK, SessionTypes, Deliver, Free
  <2>3. UNCHANGED <<out, backlog, held, bypass>>
    BY <1>10 DEF Deliver, Free
  <2> QED
    BY <2>1, <2>2, <2>3 DEF TypeOK, SessionTypes
<1>11. CASE Transmit
  <2>1. out' \in Seq(OutFrames) /\ Len(out') <= 1
    BY <1>11 DEF TypeOK, SessionTypes, Transmit
  <2>2. inbox' \in Seq(InFrames)
    BY <1>11, FramesTyped DEF TypeOK, SessionTypes, Transmit
  <2>3. UNCHANGED <<slot, backlog, held, bypass>>
    BY <1>11 DEF Transmit
  <2> QED
    BY <2>1, <2>2, <2>3 DEF TypeOK, SessionTypes
<1>12. CASE PushMsg
  <2>1. inbox' \in Seq(InFrames)
    BY <1>12, FramesTyped DEF TypeOK, SessionTypes, PushMsg
  <2>2. UNCHANGED <<slot, out, backlog, held, bypass>>
    BY <1>12 DEF PushMsg
  <2> QED
    BY <2>1, <2>2 DEF TypeOK, SessionTypes
<1>13. CASE PushReflected
  <2>1. inbox' \in Seq(InFrames)
    BY <1>13, FramesTyped DEF TypeOK, SessionTypes, PushReflected
  <2>2. UNCHANGED <<slot, out, backlog, held, bypass>>
    BY <1>13 DEF PushReflected
  <2> QED
    BY <2>1, <2>2 DEF TypeOK, SessionTypes
<1>14. CASE \/ \E t \in Tasks : Schedule(t)
            \/ \E g \in ghosts : GhostFinish(g)
            \/ ConnectAsserts
            \/ ConnectFails
            \/ StartRun
            \/ NextThrows
            \/ StepOff
            \/ Throw
            \/ Abort
            \/ CloseAfterExit
  <2> DEFINE Kept == UNCHANGED <<slot, out, backlog, held, bypass, inbox>>
  <2>1. ASSUME NEW t \in Tasks, Schedule(t) PROVE Kept
    BY <2>1 DEF Schedule, ScheduleOffline, ScheduleOnline, Enqueue, Refuse, sessionVars
  <2>2. ASSUME NEW g \in ghosts, GhostFinish(g) PROVE Kept
    BY <2>2 DEF GhostFinish, sessionVars
  <2>3. ConnectAsserts => Kept
    BY DEF ConnectAsserts, sessionVars
  <2>4. ConnectFails => Kept
    BY DEF ConnectFails, sessionVars
  <2>5. StartRun => Kept
    BY DEF StartRun, sessionVars
  <2>6. NextThrows => Kept
    BY DEF NextThrows, Exit
  <2>7. StepOff => Kept
    BY DEF StepOff, sessionVars
  <2>8. Throw => Kept
    BY DEF Throw, Exit
  <2>9. Abort => Kept
    BY DEF Abort, AbortEffect, Exit
  <2>10. CloseAfterExit => Kept
    BY DEF CloseAfterExit, AbortEffect, Exit
  <2>11. Kept
    BY <1>14, <2>1, <2>2, <2>3, <2>4, <2>5, <2>6, <2>7, <2>8, <2>9, <2>10
  <2> QED
    BY <2>11 DEF TypeOK, SessionTypes
<1> QED
  BY <1>1, <1>2, <1>3, <1>4, <1>5, <1>6, <1>7, <1>8, <1>9, <1>10, <1>11, <1>12,
     <1>13, <1>14 DEF Next, RunLoop, OldLoops, Bypasses, Pipeline, Reconnect

\* So does the running task.
LEMMA RunTyped == ASSUME TypeOK, Next PROVE RunTypes'
<1> DEFINE Idles == loop' \in {"off", "next", "exited"} /\ cur' = NoTask /\ pc' \in {1, pc}
           Begins == loop' = "task" /\ cur' \in Running \ {NoTask} /\ pc' = 1
           GoesOn == loop' = loop /\ cur' = cur /\ pc' \in {pc, pc + 1}
<1>1. Connect => Idles
  BY DEF Connect, Rescheduled
<1>2. StartRun => Idles
  BY DEF StartRun, TypeOK, RunTypes
<1>3. Disconnect => Idles
  BY DEF Disconnect
<1>4. PickTask => Begins
  BY FramesTyped DEF PickTask, Start, TypeOK, ManagerTypes
<1>5. PickInbound => Begins \/ GoesOn
  BY InFrameKinds, SessionSeqs DEF PickInbound, Handle, Start, TypeOK, SessionTypes, runVars
<1>6. NextThrows => Idles
  BY DEF NextThrows, Exit
<1>7. StepOff => GoesOn
  BY DEF StepOff
<1>8. Write => GoesOn
  BY DEF Write, Free
<1>9. Read => GoesOn
  BY DEF Read, Receive, Accepted, Backlogged
<1>10. Finish => Idles
  BY DEF Finish, Exit, Remaining
<1>11. Throw => Idles
  BY DEF Throw, Exit
<1>12. Fail => Idles \/ Begins
  BY FramesTyped DEF Fail, Exit, Start
<1>13. Abort => Idles \/ GoesOn
  BY DEF Abort, AbortEffect, Exit, runVars
<1>14. CloseAfterExit => Idles \/ GoesOn
  BY DEF CloseAfterExit, AbortEffect, Exit, runVars
<1>15. ASSUME \/ \E t \in Tasks : Schedule(t)
              \/ \E g \in ghosts : GhostFinish(g)
              \/ \E r \in Reflecteds : BypassAck(r)
              \/ ConnectAsserts
              \/ ConnectFails
              \/ Deliver
              \/ Transmit
              \/ PushMsg
              \/ PushReflected
     PROVE  UNCHANGED <<loop, cur, pc>>
  <2>1. ASSUME NEW t \in Tasks, Schedule(t) PROVE UNCHANGED <<loop, cur, pc>>
    BY <2>1 DEF Schedule, ScheduleOffline, ScheduleOnline, Enqueue, Refuse, runVars
  <2>2. ASSUME NEW g \in ghosts, GhostFinish(g) PROVE UNCHANGED <<loop, cur, pc>>
    BY <2>2 DEF GhostFinish, runVars
  <2>3. ASSUME NEW r \in Reflecteds, BypassAck(r) PROVE UNCHANGED <<loop, cur, pc>>
    BY <2>3 DEF BypassAck, Free, runVars
  <2>4. ConnectAsserts => UNCHANGED <<loop, cur, pc>>
    BY DEF ConnectAsserts, runVars
  <2>5. ConnectFails => UNCHANGED <<loop, cur, pc>>
    BY DEF ConnectFails, runVars
  <2>6. Deliver => UNCHANGED <<loop, cur, pc>>
    BY DEF Deliver, Free, runVars
  <2>7. Transmit => UNCHANGED <<loop, cur, pc>>
    BY DEF Transmit, runVars
  <2>8. PushMsg => UNCHANGED <<loop, cur, pc>>
    BY DEF PushMsg, runVars
  <2>9. PushReflected => UNCHANGED <<loop, cur, pc>>
    BY DEF PushReflected, runVars
  <2> QED
    BY <1>15, <2>1, <2>2, <2>3, <2>4, <2>5, <2>6, <2>7, <2>8, <2>9
<1>16. Idles \/ Begins \/ GoesOn
  BY <1>1, <1>2, <1>3, <1>4, <1>5, <1>6, <1>7, <1>8, <1>9, <1>10, <1>11, <1>12, <1>13, <1>14,
     <1>15 DEF Next, RunLoop, OldLoops, Bypasses, Pipeline, Reconnect
<1> QED
  BY <1>16, FramesTyped DEF TypeOK, RunTypes

\* So does the server.
LEMMA ServerTyped == ASSUME TypeOK, Next PROVE ServerTypes'
<1>1. CASE Connect
  <2>1. pushed' \in Seq(Msgs)
    BY <1>1 DEF TypeOK, ServerTypes, Connect, Rescheduled
  <2>2. processed' \in Seq(Msgs)
    BY <1>1 DEF TypeOK, ServerTypes, Connect, Rescheduled
  <2>3. UNCHANGED <<acked, ackedR, served>>
    BY <1>1 DEF Connect, Rescheduled
  <2> QED
    BY <2>1, <2>2, <2>3 DEF TypeOK, ServerTypes
<1>2. CASE Finish
  <2>1. processed' \in Seq(Msgs)
    <3>1. processed' = processed \/ \E m \in Msgs : processed' = Append(processed, m)
      BY <1>2, RunningKinds DEF TypeOK, RunTypes, Finish, Exit
    <3>2. processed \in Seq(Msgs)
      BY DEF TypeOK, ServerTypes
    <3> QED
      BY <3>1, <3>2
  <2>2. UNCHANGED <<pushed, acked, ackedR, served>>
    BY <1>2 DEF Finish, Exit, Remaining
  <2> QED
    BY <2>1, <2>2 DEF TypeOK, ServerTypes
<1>3. CASE Transmit
  <2>1. acked' \subseteq Msgs
    BY <1>3, OutFrameKinds DEF TypeOK, ServerTypes, Transmit, SessionTypes
  <2>2. ackedR' \subseteq Reflecteds
    BY <1>3, OutFrameKinds DEF TypeOK, ServerTypes, Transmit, SessionTypes
  <2>3. served' \subseteq Tasks \X Nat
    BY <1>3, OutFrameKinds DEF TypeOK, ServerTypes, Transmit, SessionTypes
  <2>4. UNCHANGED <<pushed, processed>>
    BY <1>3 DEF Transmit
  <2> QED
    BY <2>1, <2>2, <2>3, <2>4 DEF TypeOK, ServerTypes
<1>4. CASE PushMsg
  <2>1. pushed' \in Seq(Msgs)
    BY <1>4 DEF TypeOK, ServerTypes, PushMsg
  <2>2. UNCHANGED <<processed, acked, ackedR, served>>
    BY <1>4 DEF PushMsg
  <2> QED
    BY <2>1, <2>2 DEF TypeOK, ServerTypes
<1>5. CASE \/ \E t \in Tasks : Schedule(t)
           \/ \E g \in ghosts : GhostFinish(g)
           \/ \E r \in Reflecteds : BypassAck(r)
           \/ ConnectAsserts
           \/ ConnectFails
           \/ StartRun
           \/ Disconnect
           \/ PickTask
           \/ PickInbound
           \/ NextThrows
           \/ StepOff
           \/ Write
           \/ Read
           \/ Throw
           \/ Fail
           \/ Abort
           \/ CloseAfterExit
           \/ Deliver
           \/ PushReflected
  <2> DEFINE Kept == UNCHANGED <<pushed, processed, acked, ackedR, served>>
  <2>1. ASSUME NEW t \in Tasks, Schedule(t) PROVE Kept
    BY <2>1 DEF Schedule, ScheduleOffline, ScheduleOnline, Enqueue, Refuse, serverVars
  <2>2. ASSUME NEW g \in ghosts, GhostFinish(g) PROVE Kept
    BY <2>2 DEF GhostFinish, serverVars
  <2>3. ASSUME NEW r \in Reflecteds, BypassAck(r) PROVE Kept
    BY <2>3 DEF BypassAck, Free, serverVars
  <2>4. ConnectAsserts => Kept
    BY DEF ConnectAsserts, serverVars
  <2>5. ConnectFails => Kept
    BY DEF ConnectFails, serverVars
  <2>6. StartRun => Kept
    BY DEF StartRun, serverVars
  <2>7. Disconnect => Kept
    BY DEF Disconnect
  <2>8. PickTask => Kept
    BY DEF PickTask, Start, serverVars
  <2>9. PickInbound => Kept
    BY DEF PickInbound, Handle, Start, serverVars
  <2>10. NextThrows => Kept
    BY DEF NextThrows, Exit, serverVars
  <2>11. StepOff => Kept
    BY DEF StepOff, serverVars
  <2>12. Write => Kept
    BY DEF Write, Free, serverVars
  <2>13. Read => Kept
    BY DEF Read, Receive, Accepted, Backlogged, serverVars
  <2>14. Throw => Kept
    BY DEF Throw, Exit, serverVars
  <2>15. Fail => Kept
    BY DEF Fail, Exit, Start, serverVars
  <2>16. Abort => Kept
    BY DEF Abort, AbortEffect, Exit, serverVars
  <2>17. CloseAfterExit => Kept
    BY DEF CloseAfterExit, AbortEffect, Exit, serverVars
  <2>18. Deliver => Kept
    BY DEF Deliver, Free, serverVars
  <2>19. PushReflected => Kept
    BY DEF PushReflected, serverVars
  <2>20. Kept
    BY <1>5, <2>1, <2>2, <2>3, <2>4, <2>5, <2>6, <2>7, <2>8, <2>9, <2>10, <2>11, <2>12,
       <2>13, <2>14, <2>15, <2>16, <2>17, <2>18, <2>19
  <2> QED
    BY <2>20 DEF TypeOK, ServerTypes
<1> QED
  BY <1>1, <1>2, <1>3, <1>4, <1>5 DEF Next, RunLoop, OldLoops, Bypasses, Pipeline,
     Reconnect

\* TypeOK is an inductive invariant: the frames, the running task and the
\* queues stay well formed, and the decoder and encoder queues never hold more
\* than one frame, for any number of tasks, messages and connections.
THEOREM TypeCorrect == Spec => []TypeOK
<1>1. TypeOK /\ [Next]_vars => TypeOK'
  <2> SUFFICES ASSUME TypeOK, [Next]_vars PROVE TypeOK'
    OBVIOUS
  <2>1. CASE Next
    BY <2>1, FlagsTyped, ManagerTyped, RunTyped, HeadKept, SessionTyped, ServerTyped, Zenon
       DEF TypeOK
  <2>2. CASE UNCHANGED vars
    <3> USE <2>2 DEF TypeOK, vars, sessionVars, runVars, queueVars, serverVars
    <3>1. FlagTypes'
      BY Zenon DEF FlagTypes
    <3>2. ManagerTypes'
      BY DEF ManagerTypes
    <3>3. RunTypes' /\ HeadRuns'
      BY DEF RunTypes, HeadRuns
    <3>4. SessionTypes'
      BY DEF SessionTypes
    <3>5. ServerTypes'
      BY DEF ServerTypes
    <3> QED
      BY <3>1, <3>2, <3>3, <3>4, <3>5, Zenon
  <2> QED
    BY <2>1, <2>2
<1> QED
  BY TypeInit, <1>1, PTL DEF Spec

-----------------------------------------------------------------------------
\* No persistent task is lost

\* The items of a sequence with one more
LEMMA ItemsOfAppend ==
    ASSUME tasks \in Seq(Tasks), NEW t \in Tasks, tasks' = Append(tasks, t)
    PROVE  Items' = Items \cup {t}
<1>1. /\ DOMAIN tasks' = 1..(Len(tasks) + 1)
      /\ DOMAIN tasks = 1..Len(tasks) /\ Len(tasks) \in Nat
  OBVIOUS
<1>2. \A i \in DOMAIN tasks : tasks'[i] = tasks[i]
  OBVIOUS
<1>3. tasks'[Len(tasks) + 1] = t
  OBVIOUS
<1> QED
  BY <1>1, <1>2, <1>3 DEF Items

\* The items of a sequence with one less
LEMMA ItemsOfTail ==
    ASSUME tasks \in Seq(Tasks), tasks # <<>>, tasks' = Tail(tasks)
    PROVE  Items \subseteq Items' \cup {Head(tasks)}
<1> SUFFICES ASSUME NEW i \in DOMAIN tasks, tasks[i] # Head(tasks)
             PROVE  \E j \in DOMAIN tasks' : tasks'[j] = tasks[i]
  BY DEF Items
<1>1. i \in 2..Len(tasks)
  OBVIOUS
<1>2. i - 1 \in DOMAIN tasks' /\ tasks'[i - 1] = tasks[i]
  BY <1>1
<1> QED
  BY <1>2

\* Only four actions touch the queue or a promise.
LEMMA KeptStep == ASSUME TypeOK, PersistentKept, Next PROVE PersistentKept'
<1> tasks \in Seq(Tasks) /\ done \in Settlements
  BY DEF TypeOK, ManagerTypes
<1> USE TasksAssumption
<1>1. ASSUME NEW t \in Tasks, Schedule(t) PROVE PersistentKept'
  <2>1. CASE tasks' = tasks /\ done' \in {[done EXCEPT ![t] = "rejected"],
                                          [done EXCEPT ![t] = "thrown"]}
    BY <2>1 DEF PersistentKept, Items, Settlements
  <2>2. CASE tasks' = Append(tasks, t) /\ done' = [done EXCEPT ![t] = "pending"]
    BY <2>2, ItemsOfAppend DEF PersistentKept, Settlements
  <2> QED
    BY <1>1, <2>1, <2>2 DEF Schedule, ScheduleOffline, ScheduleOnline, Enqueue, Refuse
<1>2. ASSUME NEW g \in ghosts, GhostFinish(g) PROVE PersistentKept'
  <2>1. tasks' = tasks
    BY <1>2 DEF GhostFinish, queueVars
  <2>2. \A t \in Tasks : done'[t] = "pending" => done[t] = "pending"
    BY <1>2 DEF GhostFinish, Settlements
  <2> QED
    BY <2>1, <2>2 DEF PersistentKept, Items
<1>3. CASE Connect
  <2>1. tasks' \in Filtered(tasks, Persistent)
    BY <1>3 DEF Connect, Rescheduled
  <2>2. \A t \in Persistent : t \in Items => t \in Items'
    BY <2>1, FilteredElements DEF Items
  <2>3. \A t \in Persistent : done'[t] = done[t]
    BY <1>3 DEF Connect
  <2> QED
    BY <2>2, <2>3 DEF PersistentKept
<1>4. CASE Finish
  <2>1. CASE UNCHANGED <<tasks, done>>
    BY <2>1 DEF PersistentKept, Items
  <2>2. CASE /\ cur.kind = "active" /\ tasks' = Tail(tasks)
             /\ done' = [done EXCEPT ![cur.id] = IF @ = "pending" THEN "resolved" ELSE @]
    <3>1. tasks # <<>> /\ Head(tasks) = cur.id
      BY <2>2 DEF TypeOK, HeadRuns
    <3>2. Items \subseteq Items' \cup {cur.id}
      BY <2>2, <3>1, ItemsOfTail
    <3>3. \A t \in Tasks : done'[t] = "pending" => done[t] = "pending" /\ t # cur.id
      BY <2>2 DEF Settlements
    <3> QED
      BY <3>2, <3>3 DEF PersistentKept
  <2> QED
    BY <1>4, <2>1, <2>2 DEF Finish, Exit
<1>5. ASSUME \/ \E r \in Reflecteds : BypassAck(r)
             \/ ConnectAsserts
             \/ ConnectFails
             \/ StartRun
             \/ Disconnect
             \/ PickTask
             \/ PickInbound
             \/ NextThrows
             \/ StepOff
             \/ Write
             \/ Read
             \/ Throw
             \/ Fail
             \/ Abort
             \/ CloseAfterExit
             \/ Deliver
             \/ Transmit
             \/ PushMsg
             \/ PushReflected
     PROVE  UNCHANGED <<tasks, done>>
  <2>1. ASSUME NEW r \in Reflecteds, BypassAck(r) PROVE UNCHANGED <<tasks, done>>
    BY <2>1 DEF BypassAck, Free, queueVars
  <2>2. ConnectAsserts => UNCHANGED <<tasks, done>>
    BY DEF ConnectAsserts, queueVars
  <2>3. ConnectFails => UNCHANGED <<tasks, done>>
    BY DEF ConnectFails
  <2>4. StartRun => UNCHANGED <<tasks, done>>
    BY DEF StartRun, queueVars
  <2>5. Disconnect => UNCHANGED <<tasks, done>>
    BY DEF Disconnect
  <2>6. PickTask => UNCHANGED <<tasks, done>>
    BY DEF PickTask, Start, queueVars
  <2>7. PickInbound => UNCHANGED <<tasks, done>>
    BY DEF PickInbound, Handle, Start, queueVars
  <2>8. NextThrows => UNCHANGED <<tasks, done>>
    BY DEF NextThrows, Exit
  <2>9. StepOff => UNCHANGED <<tasks, done>>
    BY DEF StepOff, queueVars
  <2>10. Write => UNCHANGED <<tasks, done>>
    BY DEF Write, Free, queueVars
  <2>11. Read => UNCHANGED <<tasks, done>>
    BY DEF Read, Receive, Accepted, Backlogged, queueVars
  <2>12. Throw => UNCHANGED <<tasks, done>>
    BY DEF Throw, Exit
  <2>13. Fail => UNCHANGED <<tasks, done>>
    BY DEF Fail, Exit, Start
  <2>14. Abort => UNCHANGED <<tasks, done>>
    BY DEF Abort, AbortEffect, Exit
  <2>15. CloseAfterExit => UNCHANGED <<tasks, done>>
    BY DEF CloseAfterExit, AbortEffect, Exit
  <2>16. Deliver => UNCHANGED <<tasks, done>>
    BY DEF Deliver, Free, queueVars
  <2>17. Transmit => UNCHANGED <<tasks, done>>
    BY DEF Transmit, queueVars
  <2>18. PushMsg => UNCHANGED <<tasks, done>>
    BY DEF PushMsg, queueVars
  <2>19. PushReflected => UNCHANGED <<tasks, done>>
    BY DEF PushReflected, queueVars
  <2> QED
    BY <1>5, <2>1, <2>2, <2>3, <2>4, <2>5, <2>6, <2>7, <2>8, <2>9, <2>10, <2>11,
       <2>12, <2>13, <2>14, <2>15, <2>16, <2>17, <2>18, <2>19
<1> QED
  <2>1. CASE UNCHANGED <<tasks, done>>
    BY <2>1 DEF PersistentKept, Items
  <2> QED
    BY <1>1, <1>2, <1>3, <1>4, <1>5, <2>1 DEF Next, RunLoop, OldLoops, Bypasses, Pipeline, Reconnect

\* Whatever connections and tasks do, an accepted persistent task that is not
\* complete is in the current queue: reconnections do not lose tasks.
THEOREM NoPersistentTaskLost == Spec => []PersistentKept
<1>1. Init => PersistentKept
  BY TasksAssumption DEF Init, PersistentKept
<1>2. TypeOK /\ PersistentKept /\ [Next]_vars => PersistentKept'
  <2> SUFFICES ASSUME TypeOK, PersistentKept, [Next]_vars PROVE PersistentKept'
    OBVIOUS
  <2>1. CASE UNCHANGED vars
    BY <2>1 DEF PersistentKept, Items, vars, queueVars
  <2> QED
    BY <2>1, KeptStep
<1> QED
  BY <1>1, <1>2, TypeCorrect, PTL DEF Spec

-----------------------------------------------------------------------------
\* Reflected messages are never put behind a task

\* What is backlogged are messages.
OnlyMessages(q) == \A i \in DOMAIN q : q[i].kind = "msg"
BacklogInv == OnlyMessages(backlog) /\ OnlyMessages(held)

\* The steps that leave both backlogs alone
LEMMA BacklogsKept ==
    ASSUME \/ \E t \in Tasks : Schedule(t)
           \/ \E g \in ghosts : GhostFinish(g)
           \/ \E r \in Reflecteds : BypassAck(r)
           \/ ConnectAsserts
           \/ ConnectFails
           \/ StartRun
           \/ NextThrows
           \/ StepOff
           \/ Write
           \/ Throw
           \/ Abort
           \/ CloseAfterExit
           \/ Deliver
           \/ Transmit
           \/ PushMsg
           \/ PushReflected
    PROVE  UNCHANGED <<backlog, held>>
<1>1. ASSUME NEW t \in Tasks, Schedule(t) PROVE UNCHANGED <<backlog, held>>
  BY <1>1 DEF Schedule, ScheduleOffline, ScheduleOnline, Enqueue, Refuse, sessionVars
<1>2. ASSUME NEW g \in ghosts, GhostFinish(g) PROVE UNCHANGED <<backlog, held>>
  BY <1>2 DEF GhostFinish, sessionVars
<1>3. ASSUME NEW r \in Reflecteds, BypassAck(r) PROVE UNCHANGED <<backlog, held>>
  BY <1>3 DEF BypassAck, Free
<1>4. ConnectAsserts => UNCHANGED <<backlog, held>>
  BY DEF ConnectAsserts, sessionVars
<1>5. ConnectFails => UNCHANGED <<backlog, held>>
  BY DEF ConnectFails, sessionVars
<1>6. StartRun => UNCHANGED <<backlog, held>>
  BY DEF StartRun, sessionVars
<1>7. NextThrows => UNCHANGED <<backlog, held>>
  BY DEF NextThrows, Exit
<1>8. StepOff => UNCHANGED <<backlog, held>>
  BY DEF StepOff, sessionVars
<1>9. Write => UNCHANGED <<backlog, held>>
  BY DEF Write, Free
<1>10. Throw => UNCHANGED <<backlog, held>>
  BY DEF Throw, Exit
<1>11. Abort => UNCHANGED <<backlog, held>>
  BY DEF Abort, AbortEffect, Exit
<1>12. CloseAfterExit => UNCHANGED <<backlog, held>>
  BY DEF CloseAfterExit, AbortEffect, Exit
<1>13. Deliver => UNCHANGED <<backlog, held>>
  BY DEF Deliver, Free
<1>14. Transmit => UNCHANGED <<backlog, held>>
  BY DEF Transmit
<1>15. PushMsg => UNCHANGED <<backlog, held>>
  BY DEF PushMsg
<1>16. PushReflected => UNCHANGED <<backlog, held>>
  BY DEF PushReflected
<1> QED
  BY <1>1, <1>2, <1>3, <1>4, <1>5, <1>6, <1>7, <1>8, <1>9, <1>10, <1>11,
     <1>12, <1>13, <1>14, <1>15, <1>16

\* Only messages are put on a backlog.
LEMMA MessagesStep == ASSUME TypeOK, Next, BacklogInv PROVE BacklogInv'
<1>0. /\ OnlyMessages(<<>>)
      /\ backlog # <<>> => OnlyMessages(Tail(backlog))
      /\ held # <<>> => OnlyMessages(Tail(held))
      /\ OnlyMessages(held \o backlog)
      /\ \A f \in InFrames : f.kind = "msg" => OnlyMessages(Append(backlog, f))
  <2>1. backlog \in Seq(InFrames) /\ held \in Seq(InFrames)
    BY SessionSeqs
  <2> QED
    BY <2>1 DEF BacklogInv, OnlyMessages
<1> USE DEF BacklogInv
<1>1. Connect => BacklogInv'
  BY <1>0, Zenon DEF Connect
<1>2. Disconnect => BacklogInv'
  BY <1>0, Zenon DEF Disconnect
<1>3. PickTask => BacklogInv'
  BY <1>0, Zenon DEF PickTask, Start
<1>4. PickInbound => BacklogInv'
  BY <1>0, Zenon DEF PickInbound, Handle, Start
<1>5. Finish => BacklogInv'
  BY <1>0, Zenon DEF Finish, Remaining
<1>6. Fail => BacklogInv'
  BY <1>0, Zenon DEF Fail, Start
<1>7. Read => BacklogInv'
  <2> SUFFICES ASSUME Read PROVE BacklogInv'
    OBVIOUS
  <2>1. PICK f \in InFrames : Receive(f)
    BY DEF TypeOK, SessionTypes, Read
  <2>2. OnlyMessages(backlog')
    BY <1>0, <2>1, Zenon DEF Receive, Accepted, Backlogged
  <2>3. OnlyMessages(held')
    BY <1>0, Zenon DEF Read
  <2> QED
    BY <2>2, <2>3
<1> QED
  BY <1>1, <1>2, <1>3, <1>4, <1>5, <1>6, <1>7, BacklogsKept, Zenon
     DEF Next, RunLoop, OldLoops, Bypasses, Pipeline, Reconnect

\* BacklogInv is an inductive invariant.
LEMMA BacklogAlways == Spec => []BacklogInv
<1>1. Init => BacklogInv
  BY DEF Init, EmptySession, BacklogInv, OnlyMessages
<1>2. TypeOK /\ BacklogInv /\ [Next]_vars => BacklogInv'
  <2> SUFFICES ASSUME TypeOK, BacklogInv, [Next]_vars PROVE BacklogInv'
    OBVIOUS
  <2>1. CASE UNCHANGED vars
    BY <2>1 DEF vars, sessionVars, BacklogInv
  <2> QED
    BY <2>1, MessagesStep
<1> QED
  BY <1>1, <1>2, TypeCorrect, PTL DEF Spec

-----------------------------------------------------------------------------
\* A volatile task is run once

Volatile == Tasks \ Persistent

\* The run loop belongs to a connected manager.
LoopConnected == inner = "disconnected" => loop = "off"

\* The run loop may still pick tasks.
Live == inner = "connected" /\ loop # "exited" /\ cur.kind # "drop"

\* A task that was not scheduled is nowhere.
FreshNowhere ==
    \A t \in Tasks : done[t] = "none" =>
        /\ runs[t] = 0
        /\ \A i \in DOMAIN tasks : tasks[i] # t
        /\ \A g \in ghosts : \A i \in DOMAIN g.queue : g.queue[i] # t

\* In a manager's queue, a volatile task is once, and not started unless it
\* is the running one.
QueuedOnce ==
    \A i, j \in DOMAIN tasks : tasks[i] \in Volatile /\ tasks[i] = tasks[j] => i = j
QueuedUnstarted ==
    Live => \A i \in DOMAIN tasks :
                tasks[i] \in Volatile => runs[tasks[i]] = 0 \/ (i = 1 /\ cur.kind = "active")

\* Likewise in the queue of an old run, whose first task is the running one.
GhostsOnce ==
    \A g \in ghosts : \A i, j \in DOMAIN g.queue :
        g.queue[i] \in Volatile /\ g.queue[i] = g.queue[j] => i = j
GhostsUnstarted ==
    \A g \in ghosts : \A i \in DOMAIN g.queue :
        g.queue[i] \in Volatile => i = 1 \/ runs[g.queue[i]] = 0

\* No two queues share a volatile task, as a new manager does not take it over.
GhostsApart ==
    \A g, h \in ghosts : \A i \in DOMAIN g.queue, j \in DOMAIN h.queue :
        g.queue[i] \in Volatile /\ g.queue[i] = h.queue[j] => g = h
GhostsNotQueued ==
    inner = "connected" =>
        \A g \in ghosts : \A i \in DOMAIN g.queue : \A j \in DOMAIN tasks :
            g.queue[i] \in Volatile => g.queue[i] # tasks[j]

OnceInv ==
    /\ LoopConnected /\ VolatileRunsOnce /\ FreshNowhere
    /\ QueuedOnce /\ QueuedUnstarted
    /\ GhostsOnce /\ GhostsUnstarted /\ GhostsApart /\ GhostsNotQueued

\* A step that leaves queues, promises and counts alone, and starts nothing.
Calm ==
    /\ UNCHANGED <<tasks, done, runs, ghosts>>
    /\ inner' \in {inner, "disconnected"}
    /\ Live' => Live /\ (cur.kind = "active" => cur'.kind = "active")

\* Such a step keeps the invariant OnceInv.
LEMMA CalmStep == ASSUME OnceInv, Calm, LoopConnected' PROVE OnceInv'
<1>1. VolatileRunsOnce' /\ FreshNowhere' /\ QueuedOnce'
  BY DEF OnceInv, Calm, VolatileRunsOnce, FreshNowhere, QueuedOnce
<1>2. QueuedUnstarted'
  BY Zenon DEF OnceInv, Calm, QueuedUnstarted
<1>3. GhostsOnce' /\ GhostsUnstarted' /\ GhostsApart'
  BY DEF OnceInv, Calm, GhostsOnce, GhostsUnstarted, GhostsApart
<1>4. GhostsNotQueued'
  BY DEF OnceInv, Calm, GhostsNotQueued
<1> QED
  BY <1>1, <1>2, <1>3, <1>4 DEF OnceInv

\* The steps that are calm
LEMMA CalmSteps ==
    ASSUME TypeOK, LoopConnected,
           \/ \E r \in Reflecteds : BypassAck(r)
           \/ ConnectAsserts
           \/ ConnectFails
           \/ StartRun
           \/ PickInbound
           \/ NextThrows
           \/ StepOff
           \/ Write
           \/ Read
           \/ Throw
           \/ Fail
           \/ Abort
           \/ CloseAfterExit
           \/ Deliver
           \/ Transmit
           \/ PushMsg
           \/ PushReflected
    PROVE  Calm
<1> USE DEF Calm, Live
<1> DEFINE Same == UNCHANGED <<tasks, done, runs, ghosts, inner, loop, cur>>
<1>0. Same => Calm
  OBVIOUS
<1>1. ASSUME NEW r \in Reflecteds, BypassAck(r) PROVE Same
  BY <1>1 DEF BypassAck, Free, queueVars, runVars
<1>2. ConnectAsserts => Same
  BY DEF ConnectAsserts, queueVars, runVars
<1>3. ConnectFails => Calm
  BY DEF ConnectFails, runVars
<1>4. StartRun => Calm
  BY DEF StartRun, queueVars
<1>5. PickInbound => Calm
  <2> SUFFICES ASSUME PickInbound PROVE Calm
    OBVIOUS
  <2>1. loop = "next" /\ cur = NoTask
    BY DEF PickInbound, TypeOK, RunTypes
  <2>2. UNCHANGED <<tasks, done, runs, ghosts, inner>>
    BY DEF PickInbound, queueVars
  <2>3. inner = "connected" \/ inner' # "connected"
    BY <2>2
  <2> QED
    BY <2>1, <2>2, NoTaskKind DEF NoTask, Frame
<1>6. NextThrows => Calm
  BY DEF NextThrows, Exit
<1>7. StepOff => Same
  BY DEF StepOff, queueVars
<1>8. Write => Same
  BY DEF Write, Free, queueVars
<1>9. Read => Same
  BY DEF Read, queueVars
<1>10. Throw => Calm
  BY DEF Throw, Exit
<1>11. Fail => Calm
  BY DEF Fail, Exit, Start, DropDevice, Frame
<1>12. Abort => Calm
  BY DEF Abort, AbortEffect, Exit, runVars
<1>13. CloseAfterExit => Calm
  BY DEF CloseAfterExit, AbortEffect, Exit, runVars
<1>14. Deliver => Same
  BY DEF Deliver, Free, queueVars, runVars
<1>15. Transmit => Same
  BY DEF Transmit, queueVars, runVars
<1>16. PushMsg => Same
  BY DEF PushMsg, queueVars, runVars
<1>17. PushReflected => Same
  BY DEF PushReflected, queueVars, runVars
<1> QED
  BY <1>0, <1>1, <1>2, <1>3, <1>4, <1>5, <1>6, <1>7, <1>8, <1>9, <1>10, <1>11, <1>12,
     <1>13, <1>14, <1>15, <1>16, <1>17, Zenon

\* The steps that leave the old runs and the promises alone
LEMMA GhostsKept ==
    ASSUME TypeOK,
           \/ \E r \in Reflecteds : BypassAck(r)
           \/ ConnectAsserts \/ ConnectFails \/ StartRun \/ PickInbound \/ NextThrows
           \/ StepOff \/ Write \/ Read \/ Throw \/ Fail \/ Abort \/ CloseAfterExit
           \/ Deliver \/ Transmit \/ PushMsg \/ PushReflected
    PROVE  UNCHANGED <<ghosts, done>>
<1> DEFINE Kept == UNCHANGED <<ghosts, done>>
<1>1. ASSUME NEW r \in Reflecteds, BypassAck(r) PROVE Kept
  BY <1>1 DEF BypassAck
<1>2. ConnectAsserts \/ ConnectFails \/ StartRun \/ PickInbound \/ NextThrows => Kept
  BY DEF ConnectAsserts, ConnectFails, StartRun, PickInbound, NextThrows
<1>3. StepOff \/ Write \/ Read \/ Throw \/ Fail => Kept
  BY DEF StepOff, Write, Read, Throw, Fail
<1>4. Abort \/ CloseAfterExit => Kept
  BY DEF Abort, CloseAfterExit, AbortEffect
<1>5. Deliver \/ Transmit \/ PushMsg \/ PushReflected => Kept
  BY DEF Deliver, Transmit, PushMsg, PushReflected
<1> QED
  BY <1>1, <1>2, <1>3, <1>4, <1>5

\* Only a connected manager has a run loop.
LEMMA LoopKept == ASSUME TypeOK, LoopConnected, Next PROVE LoopConnected'
<1> USE DEF LoopConnected
<1> DEFINE Same == inner' = inner /\ loop' = loop
<1> DEFINE Runs == inner' = inner /\ loop # "off"
<1>1. ASSUME NEW t \in Tasks, Schedule(t) PROVE Same
  BY <1>1 DEF Schedule, runVars
<1>2. ASSUME NEW g \in ghosts, GhostFinish(g) PROVE Same
  BY <1>2 DEF GhostFinish, runVars, queueVars
<1>3. ASSUME NEW r \in Reflecteds, BypassAck(r) PROVE Same
  BY <1>3 DEF BypassAck, Free, queueVars, runVars
<1>4. ConnectAsserts \/ Deliver \/ Transmit \/ PushMsg \/ PushReflected => Same
  BY DEF ConnectAsserts, Deliver, Transmit, PushMsg, PushReflected, queueVars, runVars
<1>5. Connect \/ StartRun \/ Disconnect \/ ConnectFails => LoopConnected'
  BY DEF Connect, StartRun, Disconnect, ConnectFails, queueVars, runVars
<1>6. PickTask \/ PickInbound \/ NextThrows \/ StepOff \/ Write \/ Read \/ Throw \/ Fail \/ Finish
        => Runs
  <2>1. PickTask \/ PickInbound \/ NextThrows => Runs
    BY DEF PickTask, PickInbound, NextThrows, queueVars
  <2>2. StepOff \/ Write \/ Read \/ Throw => Runs
    BY DEF StepOff, Write, Read, Throw, AtStep, queueVars
  <2>3. Fail \/ Finish => Runs
    BY DEF Fail, Finish
  <2> QED
    BY <2>1, <2>2, <2>3
<1>7. Abort => Runs
  BY DEF Abort, AbortEffect
<1>8. CloseAfterExit => Runs
  BY DEF CloseAfterExit, AbortEffect
<1> QED
  BY <1>1, <1>2, <1>3, <1>4, <1>5, <1>6, <1>7, <1>8, Zenon
     DEF Next, RunLoop, OldLoops, Bypasses, Pipeline, Reconnect

\* Schedule: a task that was nowhere joins the queue, or is refused.
LEMMA OnceSchedule ==
    ASSUME TypeOK, OnceInv, NEW t \in Tasks, Schedule(t) PROVE OnceInv'
<1>0. /\ tasks \in Seq(Tasks) /\ done \in Settlements /\ done[t] = "none"
      /\ UNCHANGED <<inner, loop, cur, runs, ghosts>>
  BY DEF TypeOK, ManagerTypes, Schedule, runVars
<1>1. CASE tasks' = tasks /\ done' \in {[done EXCEPT ![t] = "rejected"],
                                        [done EXCEPT ![t] = "thrown"]}
  <2>1. FreshNowhere'
    BY <1>0, <1>1 DEF OnceInv, FreshNowhere, Settlements
  <2>2. LoopConnected' /\ VolatileRunsOnce' /\ QueuedOnce'
    BY <1>0, <1>1 DEF OnceInv, LoopConnected, VolatileRunsOnce, QueuedOnce
  <2>3. QueuedUnstarted'
    BY <1>0, <1>1 DEF OnceInv, QueuedUnstarted, Live
  <2>4. GhostsOnce' /\ GhostsUnstarted' /\ GhostsApart' /\ GhostsNotQueued'
    BY <1>0, <1>1 DEF OnceInv, GhostsOnce, GhostsUnstarted, GhostsApart, GhostsNotQueued
  <2> QED
    BY <2>1, <2>2, <2>3, <2>4 DEF OnceInv
<1>2. CASE /\ tasks' = Append(tasks, t) /\ done' = [done EXCEPT ![t] = "pending"]
  <2>0. /\ DOMAIN tasks = 1..Len(tasks) /\ Len(tasks) \in Nat
        /\ DOMAIN tasks' = 1..(Len(tasks) + 1)
        /\ \A i \in DOMAIN tasks : tasks'[i] = tasks[i]
        /\ tasks'[Len(tasks) + 1] = t
    BY <1>0, <1>2
  <2>a. /\ runs[t] = 0 /\ \A i \in DOMAIN tasks : tasks[i] # t
        /\ \A g \in ghosts : \A i \in DOMAIN g.queue : g.queue[i] # t
    BY <1>0 DEF OnceInv, FreshNowhere
  <2>1. FreshNowhere'
    BY <1>0, <1>2, <2>0 DEF OnceInv, FreshNowhere, Settlements
  <2>2. LoopConnected' /\ VolatileRunsOnce'
    BY <1>0, <1>2 DEF OnceInv, LoopConnected, VolatileRunsOnce
  <2>3. QueuedOnce'
    BY <2>0, <2>a DEF OnceInv, QueuedOnce
  <2>4. QueuedUnstarted'
    BY <1>0, <2>0, <2>a DEF OnceInv, QueuedUnstarted, Live
  <2>5. GhostsOnce' /\ GhostsUnstarted' /\ GhostsApart'
    BY <1>0, <1>2 DEF OnceInv, GhostsOnce, GhostsUnstarted, GhostsApart
  <2>6. GhostsNotQueued'
    BY <1>0, <2>0, <2>a DEF OnceInv, GhostsNotQueued
  <2> QED
    BY <2>1, <2>2, <2>3, <2>4, <2>5, <2>6 DEF OnceInv
<1> QED
  BY <1>1, <1>2 DEF Schedule, ScheduleOffline, ScheduleOnline, Enqueue, Refuse

\* Connect: only persistent tasks are taken over.
LEMMA OnceConnect == ASSUME TypeOK, OnceInv, Connect PROVE OnceInv'
<1>1. /\ \A i \in DOMAIN tasks' : tasks'[i] \in Persistent
      /\ \A i \in DOMAIN tasks' : \E j \in DOMAIN tasks : tasks[j] = tasks'[i]
  <2>1. tasks \in Seq(Tasks) /\ tasks' \in Filtered(tasks, Persistent)
    BY DEF TypeOK, ManagerTypes, Connect, Rescheduled
  <2> QED
    BY <2>1, FilteredElements
<1>2. UNCHANGED <<runs, ghosts>> /\ inner' = "connected"
  BY DEF Connect
<1>3. \A t \in Tasks : done'[t] = "none" => done[t] = "none"
  BY DEF Connect
<1>4. FreshNowhere'
  BY <1>1, <1>2, <1>3 DEF OnceInv, FreshNowhere
<1>5. LoopConnected' /\ VolatileRunsOnce'
  BY <1>2 DEF OnceInv, LoopConnected, VolatileRunsOnce
<1>6. QueuedOnce' /\ QueuedUnstarted'
  BY <1>1 DEF QueuedOnce, QueuedUnstarted, Volatile
<1>7. GhostsOnce' /\ GhostsUnstarted' /\ GhostsApart'
  BY <1>2 DEF OnceInv, GhostsOnce, GhostsUnstarted, GhostsApart
<1>8. GhostsNotQueued'
  BY <1>1 DEF GhostsNotQueued, Volatile
<1> QED
  BY <1>4, <1>5, <1>6, <1>7, <1>8 DEF OnceInv

\* Disconnect: an old run keeps a copy of the queue.
LEMMA OnceDisconnect == ASSUME TypeOK, OnceInv, Disconnect PROVE OnceInv'
<1>1. UNCHANGED <<tasks, done, runs>> /\ inner' = "disconnected" /\ loop' = "off"
  BY DEF Disconnect
<1>2. \/ ghosts' = ghosts
      \/ ghosts' = ghosts \cup {Ghost} /\ Survives
  BY DEF Disconnect
<1>3. Ghost.queue = tasks
  BY DEF Ghost
<1>4. inner = "connected"
  BY DEF Disconnect
<1>5. FreshNowhere'
  BY <1>1, <1>2, <1>3 DEF OnceInv, FreshNowhere
<1>6. VolatileRunsOnce' /\ QueuedOnce'
  BY <1>1 DEF OnceInv, VolatileRunsOnce, QueuedOnce
<1>7. LoopConnected' /\ QueuedUnstarted' /\ GhostsNotQueued'
  BY <1>1 DEF LoopConnected, QueuedUnstarted, GhostsNotQueued, Live
<1>8. GhostsOnce'
  BY <1>1, <1>2, <1>3 DEF OnceInv, GhostsOnce, QueuedOnce
<1>9. GhostsUnstarted'
  <2>1. Survives => Live
    BY <1>4 DEF Survives, Live
  <2> QED
    BY <1>1, <1>2, <1>3, <2>1 DEF OnceInv, GhostsUnstarted, QueuedUnstarted
<1>10. GhostsApart'
  <2>1. \A g \in ghosts : \A i \in DOMAIN g.queue : \A j \in DOMAIN tasks :
            g.queue[i] \in Volatile => g.queue[i] # tasks[j]
    BY <1>4 DEF OnceInv, GhostsNotQueued
  <2> QED
    BY <1>2, <1>3, <2>1, Zenon DEF OnceInv, GhostsApart
<1> QED
  BY <1>5, <1>6, <1>7, <1>8, <1>9, <1>10 DEF OnceInv

\* PickTask: the head of the queue is started for the first time.
LEMMA OncePick == ASSUME TypeOK, OnceInv, PickTask PROVE OnceInv'
<1>1. /\ UNCHANGED <<tasks, done, ghosts, inner>> /\ tasks # <<>> /\ loop = "next"
      /\ cur' = Frame("active", Head(tasks)) /\ loop' = "task"
      /\ runs' = [runs EXCEPT ![Head(tasks)] = @ + 1]
  BY DEF PickTask, Start, queueVars
<1>2. /\ tasks \in Seq(Tasks) /\ 1 \in DOMAIN tasks /\ Head(tasks) = tasks[1]
      /\ Head(tasks) \in Tasks /\ runs \in [Tasks -> Nat]
  BY <1>1 DEF TypeOK, ManagerTypes
<1>3. \A t \in Tasks : t # Head(tasks) => runs'[t] = runs[t]
  BY <1>1, <1>2
<1>4. Live /\ cur.kind # "active" /\ inner = "connected"
  BY <1>1 DEF TypeOK, RunTypes, OnceInv, LoopConnected, Live, NoTask, Frame, ManagerTypes
<1>5. Head(tasks) \in Volatile => runs[Head(tasks)] = 0
  BY <1>2, <1>4 DEF OnceInv, QueuedUnstarted
<1>6. VolatileRunsOnce'
  BY <1>1, <1>2, <1>3, <1>5 DEF OnceInv, VolatileRunsOnce, Volatile
<1>7. FreshNowhere'
  BY <1>1, <1>2, <1>3 DEF OnceInv, FreshNowhere
<1>8. LoopConnected' /\ QueuedOnce' /\ GhostsNotQueued'
  BY <1>1, <1>4 DEF OnceInv, LoopConnected, QueuedOnce, GhostsNotQueued
<1>9. QueuedUnstarted'
  <2>1. cur'.kind = "active"
    BY <1>1 DEF Frame
  <2>2. \A i \in DOMAIN tasks : tasks[i] \in Volatile => runs[tasks[i]] = 0
    BY <1>4 DEF OnceInv, QueuedUnstarted
  <2>3. \A i \in DOMAIN tasks : tasks[i] \in Volatile /\ i # 1 => tasks[i] # tasks[1]
    BY <1>2 DEF OnceInv, QueuedOnce
  <2>4. \A i \in DOMAIN tasks : tasks[i] \in Volatile => tasks[i] \in Tasks
    BY DEF Volatile
  <2> QED
    BY <1>1, <1>2, <1>3, <2>1, <2>2, <2>3, <2>4, Zenon DEF QueuedUnstarted
<1>10. GhostsOnce' /\ GhostsApart'
  BY <1>1 DEF OnceInv, GhostsOnce, GhostsApart
<1>11. GhostsUnstarted'
  <2>1. \A g \in ghosts : \A i \in DOMAIN g.queue :
            g.queue[i] \in Volatile => g.queue[i] # Head(tasks)
    BY <1>2, <1>4 DEF OnceInv, GhostsNotQueued
  <2> QED
    BY <1>1, <1>3, <2>1 DEF OnceInv, GhostsUnstarted, Volatile
<1> QED
  BY <1>6, <1>7, <1>8, <1>9, <1>10, <1>11 DEF OnceInv

\* Finish: the head of the queue, which ran, is removed.
LEMMA OnceFinish == ASSUME TypeOK, OnceInv, Finish PROVE OnceInv'
<1>0. LoopConnected'
  <2>1. inner' = inner /\ loop = "task"
    BY DEF Finish
  <2> QED
    BY <2>1 DEF OnceInv, LoopConnected
<1>1. CASE cur.kind # "active" \/ loop' = "exited"
  <2>1. UNCHANGED <<tasks, done, runs, ghosts, inner>>
    BY <1>1 DEF Finish, Exit
  <2>2. Live' => Live /\ cur.kind # "active"
    BY <1>1, <2>1 DEF Finish, Exit, Live
  <2> QED
    BY <1>0, <2>1, <2>2, CalmStep DEF Calm
<1>2. CASE cur.kind = "active" /\ loop' # "exited"
  <2>1. /\ tasks' = Tail(tasks) /\ UNCHANGED <<runs, ghosts, inner>>
        /\ done' = [done EXCEPT ![cur.id] = IF @ = "pending" THEN "resolved" ELSE @]
        /\ loop = "task" /\ cur' = NoTask
    BY <1>2 DEF Finish, Exit
  <2>2. /\ tasks \in Seq(Tasks) /\ tasks # <<>> /\ done \in Settlements
    BY <1>2 DEF TypeOK, ManagerTypes, HeadRuns
  <2>3. /\ DOMAIN tasks' = 1..(Len(tasks) - 1) /\ DOMAIN tasks = 1..Len(tasks)
        /\ Len(tasks) \in Nat \ {0}
        /\ \A i \in DOMAIN tasks' : tasks'[i] = tasks[i + 1]
    BY <2>1, <2>2
  <2>4. \A i \in DOMAIN tasks' : i + 1 \in DOMAIN tasks /\ i + 1 # 1 /\ tasks'[i] = tasks[i + 1]
    BY <2>3
  <2>5. Live
    BY <1>2, <2>1 DEF OnceInv, LoopConnected, Live, TypeOK, ManagerTypes
  <2>6. \A t \in Tasks : done'[t] = "none" => done[t] = "none"
    BY <2>1, <2>2 DEF Settlements
  <2>7. FreshNowhere'
    BY <2>1, <2>4, <2>6 DEF OnceInv, FreshNowhere
  <2>8. VolatileRunsOnce'
    BY <2>1 DEF OnceInv, VolatileRunsOnce
  <2>9. QueuedOnce'
    BY <2>3, <2>4 DEF OnceInv, QueuedOnce
  <2>10. QueuedUnstarted'
    BY <2>1, <2>4, <2>5 DEF OnceInv, QueuedUnstarted
  <2>11. GhostsOnce' /\ GhostsUnstarted' /\ GhostsApart'
    BY <2>1 DEF OnceInv, GhostsOnce, GhostsUnstarted, GhostsApart
  <2>12. GhostsNotQueued'
    BY <2>1, <2>4 DEF OnceInv, GhostsNotQueued
  <2> QED
    BY <1>0, <2>7, <2>8, <2>9, <2>10, <2>11, <2>12 DEF OnceInv
<1> QED
  BY <1>1, <1>2

\* GhostFinish: an old run starts the next task of its own copy of the queue.
LEMMA OnceGhost ==
    ASSUME TypeOK, OnceInv, NEW g \in ghosts, GhostFinish(g) PROVE OnceInv'
<1> DEFINE rest == Tail(g.queue)
           goesOn == rest # <<>> /\ g.stocked
           next == [g EXCEPT !.queue = rest]
<1>1. /\ g \in Ghosts /\ g.queue \in Seq(Tasks) /\ g.queue # <<>>
      /\ done \in Settlements /\ runs \in [Tasks -> Nat]
  BY DEF TypeOK, ManagerTypes, Ghosts
<1>2. /\ UNCHANGED <<tasks, inner, loop, cur>>
      /\ done' = [done EXCEPT ![Head(g.queue)] = IF @ = "pending" THEN "resolved" ELSE @]
  BY DEF GhostFinish, queueVars, runVars
<1>3. \A t \in Tasks : done'[t] = "none" => done[t] = "none"
  BY <1>1, <1>2 DEF Settlements
<1>4. LoopConnected' /\ QueuedOnce'
  BY <1>2 DEF OnceInv, LoopConnected, QueuedOnce
<1>5. CASE ~goesOn
  <2>1. runs' = runs /\ ghosts' = ghosts \ {g}
    BY <1>5 DEF GhostFinish
  <2>2. VolatileRunsOnce' /\ QueuedUnstarted' /\ FreshNowhere'
    BY <1>2, <1>3, <2>1
       DEF OnceInv, VolatileRunsOnce, FreshNowhere, QueuedUnstarted, Live
  <2>3. GhostsOnce' /\ GhostsUnstarted' /\ GhostsApart' /\ GhostsNotQueued'
    BY <1>2, <2>1 DEF OnceInv, GhostsOnce, GhostsUnstarted, GhostsApart, GhostsNotQueued
  <2> QED
    BY <1>4, <2>2, <2>3 DEF OnceInv
<1>6. CASE goesOn
  <2>1. /\ runs' = [runs EXCEPT ![Head(rest)] = @ + 1]
        /\ ghosts' \subseteq (ghosts \ {g}) \cup {next}
    BY <1>6 DEF GhostFinish
  <2>2. /\ next.queue = rest
        /\ DOMAIN rest = 1..(Len(g.queue) - 1) /\ DOMAIN g.queue = 1..Len(g.queue)
        /\ Len(g.queue) \in Nat /\ Len(g.queue) >= 2
        /\ \A i \in DOMAIN rest : rest[i] = g.queue[i + 1]
        /\ Head(rest) = g.queue[2] /\ Head(rest) \in Tasks
    BY <1>1, <1>6 DEF Ghosts
  <2>3. \A i \in DOMAIN next.queue : i + 1 \in DOMAIN g.queue /\ next.queue[i] = g.queue[i + 1]
    BY <2>2
  <2>4. 2 \in DOMAIN g.queue
    BY <2>2
  <2> HIDE DEF next, rest, goesOn
  <2>5. \A t \in Tasks : t # Head(rest) => runs'[t] = runs[t]
    BY <1>1, <2>1, <2>2
  <2>6. Head(rest) \in Volatile => runs[Head(rest)] = 0 /\ runs'[Head(rest)] = 1
    BY <1>1, <2>1, <2>2, <2>4 DEF OnceInv, GhostsUnstarted
  <2>7. VolatileRunsOnce'
    BY <2>2, <2>5, <2>6 DEF OnceInv, VolatileRunsOnce, Volatile
  <2>8. FreshNowhere'
    <3> SUFFICES ASSUME NEW t \in Tasks, done'[t] = "none"
                 PROVE  /\ runs'[t] = 0 /\ \A i \in DOMAIN tasks : tasks[i] # t
                        /\ \A h \in ghosts' : \A i \in DOMAIN h.queue : h.queue[i] # t
      BY <1>2 DEF FreshNowhere
    <3>1. /\ runs[t] = 0 /\ \A i \in DOMAIN tasks : tasks[i] # t
          /\ \A h \in ghosts : \A i \in DOMAIN h.queue : h.queue[i] # t
      BY <1>3 DEF OnceInv, FreshNowhere
    <3>2. t # Head(rest)
      BY <3>1, <2>2, <2>4
    <3>3. \A i \in DOMAIN next.queue : next.queue[i] # t
      BY <3>1, <2>3
    <3> QED
      BY <2>1, <2>5, <3>1, <3>2, <3>3
  <2>9. QueuedUnstarted'
    <3>1. Live => \A j \in DOMAIN tasks : tasks[j] \in Volatile => tasks[j] # Head(rest)
      BY <2>2, <2>4 DEF OnceInv, GhostsNotQueued, Live
    <3> QED
      BY <1>2, <2>5, <3>1 DEF OnceInv, QueuedUnstarted, Live, Volatile
  <2>10. GhostsOnce'
    <3>1. \A i, j \in DOMAIN next.queue :
              next.queue[i] \in Volatile /\ next.queue[i] = next.queue[j] => i = j
      <4> SUFFICES ASSUME NEW i \in DOMAIN next.queue, NEW j \in DOMAIN next.queue,
                          next.queue[i] \in Volatile, next.queue[i] = next.queue[j]
                   PROVE  i = j
        OBVIOUS
      <4>1. i + 1 = j + 1
        BY <2>3 DEF OnceInv, GhostsOnce
      <4> QED
        BY <4>1, <2>2
    <3> QED
      BY <2>1, <3>1 DEF OnceInv, GhostsOnce
  <2>11. GhostsUnstarted'
    <3>1. ASSUME NEW h \in ghosts \ {g}, NEW i \in DOMAIN h.queue, h.queue[i] \in Volatile, i # 1
          PROVE  runs'[h.queue[i]] = 0
      <4>1. h.queue[i] # Head(rest)
        BY <3>1, <2>2, <2>4 DEF OnceInv, GhostsApart
      <4> QED
        BY <3>1, <4>1, <2>5 DEF OnceInv, GhostsUnstarted, Volatile
    <3>2. ASSUME NEW i \in DOMAIN next.queue, next.queue[i] \in Volatile, i # 1
          PROVE  runs'[next.queue[i]] = 0
      <4>1. i + 1 # 2 /\ i + 1 # 1
        BY <3>2, <2>2
      <4>2. next.queue[i] # Head(rest)
        BY <3>2, <4>1, <2>2, <2>3, <2>4 DEF OnceInv, GhostsOnce
      <4>3. runs[next.queue[i]] = 0
        BY <3>2, <4>1, <2>3 DEF OnceInv, GhostsUnstarted
      <4> QED
        BY <3>2, <4>2, <4>3, <2>5 DEF Volatile
    <3> QED
      BY <2>1, <3>1, <3>2 DEF GhostsUnstarted
  <2>12. GhostsApart'
    <3>1. ASSUME NEW h \in ghosts \ {g}, NEW i \in DOMAIN next.queue, NEW j \in DOMAIN h.queue
          PROVE  next.queue[i] \in Volatile => next.queue[i] # h.queue[j]
      BY <3>1, <2>3 DEF OnceInv, GhostsApart
    <3>2. ASSUME NEW h \in ghosts', NEW k \in ghosts', NEW i \in DOMAIN h.queue,
                 NEW j \in DOMAIN k.queue, h.queue[i] \in Volatile, h.queue[i] = k.queue[j]
          PROVE  h = k
      <4>1. CASE h \in ghosts \ {g} /\ k \in ghosts \ {g}
        BY <3>2, <4>1 DEF OnceInv, GhostsApart
      <4>2. CASE h = next /\ k \in ghosts \ {g}
        BY <3>1, <3>2, <4>2
      <4>3. CASE h \in ghosts \ {g} /\ k = next
        BY <3>1, <3>2, <4>3
      <4> QED
        BY <2>1, <4>1, <4>2, <4>3
    <3> QED
      BY <3>2 DEF GhostsApart
  <2>13. GhostsNotQueued'
    <3>1. inner = "connected" =>
            \A i \in DOMAIN next.queue : \A j \in DOMAIN tasks :
                next.queue[i] \in Volatile => next.queue[i] # tasks[j]
      BY <2>3 DEF OnceInv, GhostsNotQueued
    <3> QED
      BY <1>2, <2>1, <3>1 DEF OnceInv, GhostsNotQueued
  <2> QED
    BY <1>4, <2>7, <2>8, <2>9, <2>10, <2>11, <2>12, <2>13 DEF OnceInv
<1> QED
  BY <1>5, <1>6

\* Every step keeps the invariant.
LEMMA OnceStep == ASSUME TypeOK, OnceInv, [Next]_vars PROVE OnceInv'
<1>1. CASE UNCHANGED vars
  <2>1. Calm /\ LoopConnected'
    BY <1>1 DEF Calm, Live, vars, queueVars, runVars, OnceInv, LoopConnected
  <2> QED
    BY <2>1, CalmStep
<1>2. CASE Next
  <2>1. LoopConnected /\ LoopConnected'
    BY <1>2, LoopKept DEF OnceInv
  <2>2. Calm => OnceInv'
    BY <2>1, CalmStep
  <2> QED
    BY <1>2, <2>1, <2>2, CalmSteps, OnceSchedule, OnceConnect, OnceDisconnect, OncePick,
       OnceFinish, OnceGhost, Zenon
       DEF Next, RunLoop, OldLoops, Bypasses, Pipeline, Reconnect
<1> QED
  BY <1>1, <1>2

\* OnceInv is an inductive invariant.
LEMMA OnceAlways == Spec => []OnceInv
<1>1. Init => OnceInv
  <2> SUFFICES ASSUME Init PROVE OnceInv
    OBVIOUS
  <2> USE DEF Init
  <2>1. LoopConnected /\ VolatileRunsOnce /\ FreshNowhere
    BY DEF LoopConnected, VolatileRunsOnce, FreshNowhere
  <2>2. QueuedOnce /\ QueuedUnstarted /\ GhostsOnce /\ GhostsUnstarted
    BY DEF QueuedOnce, QueuedUnstarted, GhostsOnce, GhostsUnstarted
  <2>3. GhostsApart /\ GhostsNotQueued
    BY DEF GhostsApart, GhostsNotQueued
  <2> QED
    BY <2>1, <2>2, <2>3 DEF OnceInv
<1>2. TypeOK /\ OnceInv /\ [Next]_vars => OnceInv'
  BY OnceStep
<1> QED
  BY <1>1, <1>2, TypeCorrect, PTL DEF Spec

\* A non-persistent task is started at most once, whatever connections do and
\* however many old runs go on with copies of the queue.
THEOREM NeverRunAgain == Spec => []VolatileRunsOnce
<1>1. OnceInv => VolatileRunsOnce
  BY DEF OnceInv
<1> QED
  BY <1>1, OnceAlways, PTL

-----------------------------------------------------------------------------
\* A task that resolved was served

HasKind(q, kinds) == \E i \in DOMAIN q : q[i].kind \in kinds
OneOfKind(q, kind) == \A i, j \in DOMAIN q : q[i].kind = kind /\ q[j].kind = kind => i = j

\* A request on its way to the server, or an answer on its way back
Asked == HasKind(out, {"req", "msgReq"})
InSlot == HasKind(slot, {"ack"})
InPipe == HasKind(inbox, {"ack"})

\* A task waits for an answer in a step that needs one.
WroteInStep == wrote => loop = "task" /\ pc \in DOMAIN Steps(cur) /\ Step = "io"

\* One request or its answer is on its way at a time, and it is the current
\* step's: an answer that is accepted never belongs to an earlier step.
OneExchange ==
    Live => /\ OneOfKind(inbox, "ack")
            /\ ~(Asked /\ InSlot) /\ ~(Asked /\ InPipe) /\ ~(InSlot /\ InPipe)
            /\ Asked \/ InSlot \/ InPipe => wrote
OwnExchange ==
    Live /\ cur.kind = "active" =>
        /\ \A i \in DOMAIN out : out[i].kind = "req" => out[i].id = <<cur.id, pc>>
        /\ \A i \in DOMAIN out : out[i].kind # "msgReq"
        /\ InSlot \/ InPipe => <<cur.id, pc>> \in served

ServedBefore(t, n) ==
    \A i \in DOMAIN Program[t] : i < n /\ Program[t][i] = "io" => <<t, i>> \in served
ServedAll(t) == \A i \in DOMAIN Program[t] : Program[t][i] = "io" => <<t, i>> \in served

\* The steps behind the running task, or those of an old run's, were served.
RunServed == cur.kind = "active" => ServedBefore(cur.id, pc)
GhostsServed == \A g \in ghosts : ServedAll(Head(g.queue))

ServedInv ==
    /\ WroteInStep /\ OneExchange /\ OwnExchange
    /\ RunServed /\ GhostsServed /\ ResolvedWasServed

\* A sequence with one more
LEMMA KindOfAppend ==
    ASSUME NEW T, NEW q \in Seq(T), NEW f, NEW kinds, NEW kind
    PROVE  /\ HasKind(Append(q, f), kinds) <=> HasKind(q, kinds) \/ f.kind \in kinds
           /\ OneOfKind(q, kind) /\ (f.kind # kind \/ ~HasKind(q, {kind}))
                => OneOfKind(Append(q, f), kind)
<1> DEFINE r == Append(q, f)
<1>1. /\ DOMAIN q = 1..Len(q) /\ Len(q) \in Nat /\ DOMAIN r = 1..(Len(q) + 1)
      /\ \A i \in DOMAIN q : r[i] = q[i]
      /\ r[Len(q) + 1] = f
  OBVIOUS
<1> HIDE DEF r
<1>2. \A i \in DOMAIN r : i \in DOMAIN q \/ i = Len(q) + 1
  BY <1>1
<1>3. DOMAIN q \subseteq DOMAIN r /\ Len(q) + 1 \in DOMAIN r
  BY <1>1
<1>4. HasKind(r, kinds) <=> HasKind(q, kinds) \/ f.kind \in kinds
  BY <1>1, <1>2, <1>3, Zenon DEF HasKind
<1>5. ASSUME OneOfKind(q, kind), f.kind # kind \/ ~HasKind(q, {kind})
      PROVE  OneOfKind(r, kind)
  <2> SUFFICES ASSUME NEW i \in DOMAIN r, NEW j \in DOMAIN r, r[i].kind = kind, r[j].kind = kind
               PROVE  i = j
    BY DEF OneOfKind
  <2>1. \A k \in DOMAIN q : q[k].kind = kind => f.kind # kind
    BY <1>5 DEF HasKind
  <2> QED
    BY <1>1, <1>2, <1>5, <2>1, Zenon DEF OneOfKind
<1> QED
  BY <1>4, <1>5 DEF r

\* A sequence with one less
LEMMA KindOfTail ==
    ASSUME NEW T, NEW q \in Seq(T), q # <<>>, NEW kinds, NEW kind
    PROVE  /\ HasKind(Tail(q), kinds) => HasKind(q, kinds)
           /\ Head(q).kind \in kinds => HasKind(q, kinds)
           /\ OneOfKind(q, kind) => OneOfKind(Tail(q), kind)
           /\ OneOfKind(q, kind) /\ Head(q).kind = kind => ~HasKind(Tail(q), {kind})
<1> DEFINE r == Tail(q)
<1>1. /\ DOMAIN q = 1..Len(q) /\ Len(q) \in Nat \ {0} /\ DOMAIN r = 1..(Len(q) - 1)
      /\ \A i \in DOMAIN r : r[i] = q[i + 1]
      /\ Head(q) = q[1]
  OBVIOUS
<1> HIDE DEF r
<1>2. 1 \in DOMAIN q /\ \A i \in DOMAIN r : i + 1 \in DOMAIN q /\ i + 1 # 1
  BY <1>1
<1>3. \A i, j \in DOMAIN r : i + 1 = j + 1 => i = j
  BY <1>1
<1>4. HasKind(r, kinds) => HasKind(q, kinds)
  BY <1>1, <1>2 DEF HasKind
<1>5. Head(q).kind \in kinds => HasKind(q, kinds)
  BY <1>1, <1>2 DEF HasKind
<1>6. OneOfKind(q, kind) => OneOfKind(r, kind)
  BY <1>1, <1>2, <1>3 DEF OneOfKind
<1>7. OneOfKind(q, kind) /\ Head(q).kind = kind => ~HasKind(r, {kind})
  BY <1>1, <1>2 DEF OneOfKind, HasKind
<1> QED
  BY <1>4, <1>5, <1>6, <1>7 DEF r

\* A written request is the current step's until its answer was accepted.
LEMMA WroteStep == ASSUME TypeOK, WroteInStep, Next PROVE WroteInStep'
<1> DEFINE Same == UNCHANGED <<loop, cur, pc, wrote>>
           Off == wrote' = FALSE
<1> USE DEF WroteInStep
<1>0. Same => WroteInStep'
  BY DEF Step
<1>1. ASSUME NEW t \in Tasks, Schedule(t) PROVE Same
  BY <1>1 DEF Schedule, runVars
<1>2. ASSUME NEW g \in ghosts, GhostFinish(g) PROVE Same
  BY <1>2 DEF GhostFinish, runVars
<1>3. ASSUME NEW r \in Reflecteds, BypassAck(r) PROVE Same
  BY <1>3 DEF BypassAck, Free, runVars
<1>4. ConnectAsserts \/ ConnectFails \/ Deliver \/ Transmit \/ PushMsg \/ PushReflected => Same
  BY DEF ConnectAsserts, ConnectFails, Deliver, Transmit, PushMsg, PushReflected, runVars
<1>5. Connect \/ Disconnect \/ PickTask \/ NextThrows \/ Throw \/ Finish \/ Fail => Off
  <2>1. Connect \/ Disconnect \/ PickTask \/ NextThrows => Off
    BY DEF Connect, Disconnect, PickTask, NextThrows, Exit, Start
  <2>2. Throw => Off
    BY DEF Throw, Exit
  <2>3. Finish => Off
    BY DEF Finish, Exit
  <2>4. Fail => Off
    BY DEF Fail, Exit, Start
  <2> QED
    BY <2>1, <2>2, <2>3, <2>4
<1>6. StartRun => wrote' = wrote /\ ~wrote
  BY DEF StartRun
<1>7. PickInbound => Off \/ Same
  BY DEF PickInbound, Handle, Start, runVars
<1>8. StepOff => wrote' = wrote /\ ~wrote
  BY DEF StepOff, AtStep
<1>9. Abort => Off \/ Same
  BY DEF Abort, AbortEffect, Exit, runVars
<1>10. CloseAfterExit => Off \/ Same
  BY DEF CloseAfterExit, AbortEffect, Exit, runVars
<1>11. Write => WroteInStep'
  <2> SUFFICES ASSUME Write, wrote'
               PROVE  loop' = "task" /\ pc' \in DOMAIN Steps(cur') /\ Steps(cur')[pc'] = "io"
    BY DEF Step
  <2>1. Step = "io" /\ UNCHANGED <<loop, cur, pc>> /\ loop = "task" /\ pc \in DOMAIN Steps(cur)
    BY DEF Write, AtStep
  <2> QED
    BY <2>1 DEF Step
<1>12. Read => Off \/ Same
  BY DEF Read, Receive, Accepted, Backlogged
<1>13. Off \/ Same \/ WroteInStep' \/ (wrote' = wrote /\ ~wrote)
  BY <1>1, <1>2, <1>3, <1>4, <1>5, <1>6, <1>7, <1>8, <1>9, <1>10, <1>11, <1>12, Zenon
     DEF Next, RunLoop, OldLoops, Bypasses, Pipeline, Reconnect
<1> QED
  BY <1>0, <1>13

\* The steps of what runs are a sequence.
LEMMA StepsTyped ==
    ASSUME NEW c \in Running
    PROVE  /\ Steps(c) \in Seq(MsgSteps)
           /\ c.kind = "active" => c.id \in Tasks /\ Steps(c) = Program[c.id]
<1> USE ProgramAssumption DEF MsgSteps, TaskSteps
<1>1. c.kind = "active" => c.id \in Tasks
  BY RunningKinds
<1>2. c.kind = "active" => Steps(c) = Program[c.id] /\ Steps(c) \in Seq(MsgSteps)
  BY <1>1 DEF Steps
<1>3. c.kind # "active" => Steps(c) \in Seq(MsgSteps)
  <2>1. /\ <<"ack">> \in Seq(MsgSteps) /\ <<"io">> \in Seq(MsgSteps)
        /\ <<>> \in Seq(MsgSteps) /\ MsgProgram \in Seq(MsgSteps)
    OBVIOUS
  <2> HIDE DEF MsgSteps
  <2> QED
    BY <2>1, Zenon DEF Steps
<1> QED
  BY <1>1, <1>2, <1>3

ExchangeInv == OneExchange /\ OwnExchange
Frames == <<slot, out, inbox, served>>

\* Without a request written, nothing is on its way, and a frame that is
\* taken from the decoder queue changes nothing.
LEMMA ExchangeIdle ==
    ASSUME ExchangeInv, Live, ~wrote, slot' = slot \/ slot' = <<>>, UNCHANGED <<out, inbox>>
    PROVE  ExchangeInv'
<1>1. ~Asked /\ ~InSlot /\ ~InPipe
  BY DEF ExchangeInv, OneExchange
<1>2. ~Asked' /\ ~InSlot' /\ ~InPipe'
  BY <1>1 DEF Asked, InSlot, InPipe, HasKind
<1>3. OneOfKind(inbox', "ack")
  BY <1>2 DEF InPipe, HasKind, OneOfKind
<1>4. OneExchange'
  BY <1>2, <1>3, Zenon DEF OneExchange
<1>5. \A i \in DOMAIN out' : out'[i].kind # "req" /\ out'[i].kind # "msgReq"
  BY <1>2 DEF Asked, HasKind
<1> QED
  BY <1>2, <1>4, <1>5 DEF ExchangeInv, OwnExchange

\* A step that leaves the frames and the task alone
LEMMA ExchangeSame ==
    ASSUME ExchangeInv, Live' => Live /\ UNCHANGED <<cur, pc, wrote>> /\ UNCHANGED Frames
    PROVE  ExchangeInv'
<1> USE DEF Frames
<1>1. OneExchange'
  BY DEF ExchangeInv, OneExchange, Asked, InSlot, InPipe, HasKind, OneOfKind
<1>2. OwnExchange'
  BY DEF ExchangeInv, OwnExchange, Asked, InSlot, InPipe, HasKind, Live
<1> QED
  BY <1>1, <1>2 DEF ExchangeInv

\* The steps that neither write nor read nor move a frame
LEMMA ExchangeQuiet ==
    ASSUME TypeOK, LoopConnected, WroteInStep, ExchangeInv,
           \/ \E t \in Tasks : Schedule(t)
           \/ \E g \in ghosts : GhostFinish(g)
           \/ Connect
           \/ ConnectAsserts
           \/ ConnectFails
           \/ StartRun
           \/ Disconnect
           \/ PickTask
           \/ PickInbound
           \/ NextThrows
           \/ StepOff
           \/ Finish
           \/ Throw
           \/ Fail
           \/ Abort
           \/ CloseAfterExit
    PROVE  ExchangeInv'
<1> DEFINE Same == Live' => Live /\ UNCHANGED <<cur, pc, wrote>> /\ UNCHANGED Frames
           Idle == /\ Live /\ ~wrote /\ (slot' = slot \/ slot' = <<>>)
                   /\ UNCHANGED <<out, inbox>>
<1> USE DEF Frames
<1>1. ASSUME NEW t \in Tasks, Schedule(t) PROVE Same
  BY <1>1 DEF Schedule, sessionVars, serverVars, runVars, Live
<1>2. ASSUME NEW g \in ghosts, GhostFinish(g) PROVE Same
  BY <1>2 DEF GhostFinish, sessionVars, serverVars, runVars, queueVars, Live
<1>3. Connect => ExchangeInv'
  <2> SUFFICES ASSUME Connect PROVE ExchangeInv'
    OBVIOUS
  <2>1. slot' = <<>> /\ out' = <<>> /\ inbox' = <<>>
    BY DEF Connect
  <2>2. ~Asked' /\ ~InSlot' /\ ~InPipe' /\ OneOfKind(inbox', "ack")
    BY <2>1 DEF Asked, InSlot, InPipe, HasKind, OneOfKind
  <2>3. \A i \in DOMAIN out' : FALSE
    BY <2>1
  <2> QED
    BY <2>2, <2>3 DEF ExchangeInv, OneExchange, OwnExchange
<1>4. ConnectAsserts => Same
  BY DEF ConnectAsserts, sessionVars, serverVars, runVars, queueVars, Live
<1>5. ConnectFails => Same
  BY DEF ConnectFails, Live
<1>6. StartRun => Same
  BY DEF StartRun, sessionVars, serverVars, queueVars, Live
<1>7. Disconnect => Same
  BY DEF Disconnect, Live
<1>8. PickTask => Idle
  <2> SUFFICES ASSUME PickTask PROVE Idle
    OBVIOUS
  <2>1. loop = "next"
    BY DEF PickTask
  <2>2. cur = NoTask /\ inner = "connected" /\ ~wrote
    BY <2>1 DEF TypeOK, RunTypes, ManagerTypes, LoopConnected, WroteInStep
  <2>3. UNCHANGED <<slot, out, inbox>>
    BY DEF PickTask
  <2> QED
    BY <2>1, <2>2, <2>3 DEF Live, NoTask, Frame
<1>9. PickInbound => Idle
  <2> SUFFICES ASSUME PickInbound PROVE Idle
    OBVIOUS
  <2>1. loop = "next"
    BY DEF PickInbound
  <2>2. cur = NoTask /\ inner = "connected" /\ ~wrote
    BY <2>1 DEF TypeOK, RunTypes, ManagerTypes, LoopConnected, WroteInStep
  <2>3. (slot' = slot \/ slot' = <<>>) /\ UNCHANGED <<out, inbox>>
    BY DEF PickInbound
  <2> QED
    BY <2>1, <2>2, <2>3 DEF Live, NoTask, Frame
<1>10. NextThrows => ~Live'
  BY DEF NextThrows, Exit, Live
<1>11. StepOff => Idle \/ ~Live'
  <2> SUFFICES ASSUME StepOff, Live' PROVE Idle
    OBVIOUS
  <2>1. Step = "off" /\ UNCHANGED <<slot, out, inbox, inner, loop, cur>>
    BY DEF StepOff, AtStep, sessionVars, queueVars
  <2>2. ~wrote
    BY <2>1 DEF WroteInStep
  <2> QED
    BY <2>1, <2>2 DEF Live
<1>12. Finish => Idle \/ ~Live'
  <2> SUFFICES ASSUME Finish, Live' PROVE Idle
    OBVIOUS
  <2>1. pc > Len(Steps(cur)) /\ UNCHANGED <<slot, out, inbox, inner>> /\ loop = "task"
    BY DEF Finish, Exit
  <2>2. ~wrote
    <3>1. \A i \in DOMAIN Steps(cur) : i <= Len(Steps(cur))
      BY StepsTyped DEF TypeOK, RunTypes
    <3> QED
      BY <2>1, <3>1, StepsTyped DEF WroteInStep, TypeOK, RunTypes
  <2>3. Live
    BY <2>1 DEF Live, Finish, Exit
  <2> QED
    BY <2>1, <2>2, <2>3
<1>13. Throw => ~Live'
  BY DEF Throw, Exit, Live
<1>14. Fail => ~Live'
  BY DEF Fail, Exit, Start, DropDevice, Frame, Live
<1>15. Abort => Same
  BY DEF Abort, AbortEffect, Exit, runVars, serverVars, Live
<1>16. CloseAfterExit => Same
  BY DEF CloseAfterExit, AbortEffect, Exit, runVars, serverVars, Live
<1>17. Same \/ Idle \/ ~Live' \/ ExchangeInv'
  BY <1>1, <1>2, <1>3, <1>4, <1>5, <1>6, <1>7, <1>8, <1>9, <1>10, <1>11, <1>12,
     <1>13, <1>14, <1>15, <1>16, Zenon
<1>18. ~Live' => ExchangeInv'
  BY DEF ExchangeInv, OneExchange, OwnExchange
<1> QED
  BY <1>17, <1>18, ExchangeSame, ExchangeIdle

\* Write: the request of the current step is put on its way.
LEMMA ExchangeWrite ==
    ASSUME TypeOK, WroteInStep, ExchangeInv, Write PROVE ExchangeInv'
<1>1. CASE ~Live'
  BY <1>1 DEF ExchangeInv, OneExchange, OwnExchange
<1>2. CASE Live'
  <2>1. /\ UNCHANGED <<slot, inbox, served, inner, loop, cur>> /\ ~wrote /\ out = <<>>
        /\ out' = Append(out, Request) /\ loop = "task" /\ pc \in DOMAIN Steps(cur)
        /\ Step \in {"io", "ack"}
        /\ Step = "ack" => wrote' = wrote
        /\ Step = "io" => wrote' = TRUE /\ pc' = pc
    BY DEF Write, Free, AtStep, queueVars, serverVars
  <2>2. Live
    BY <1>2, <2>1 DEF Live
  <2>3. ~Asked /\ ~InSlot /\ ~InPipe
    BY <2>1, <2>2 DEF ExchangeInv, OneExchange
  <2>4. ~InSlot' /\ ~InPipe' /\ OneOfKind(inbox', "ack")
    BY <2>1, <2>3 DEF InSlot, InPipe, HasKind, OneOfKind
  <2>5. out' = <<Request>>
    BY <2>1
  <2>6. cur \in Running /\ cur.kind # "drop" /\ cur # NoTask
    BY <2>1, <2>2 DEF TypeOK, RunTypes, Live
  <2>7. cur.kind = "active" => Request.kind = "req" /\ Request.id = <<cur.id, pc>> /\ Step = "io"
    <3>1. cur.kind = "active" => cur.id \in Tasks /\ Steps(cur) = Program[cur.id]
      BY <2>6, StepsTyped
    <3>2. cur.kind = "active" => Step \in TaskSteps
      BY <2>1, <3>1, ProgramAssumption DEF Step
    <3> QED
      BY <2>1, <3>2 DEF Request, RequestKind, Frame, TaskSteps
  <2>8. cur.kind # "active" /\ Step = "ack" => Request.kind \in {"msgAck", "reflectedAck"}
    BY <2>6 DEF Request, RequestKind, Frame
  <2>9. Asked' => wrote'
    <3>1. Asked' => Request.kind \in {"req", "msgReq"}
      BY <2>5 DEF Asked, HasKind
    <3> QED
      BY <2>1, <2>7, <2>8, <3>1
  <2>10. OneExchange'
    BY <2>4, <2>9 DEF OneExchange
  <2>11. OwnExchange'
    <3> SUFFICES ASSUME cur'.kind = "active" PROVE OwnExchange'
      BY DEF OwnExchange
    <3>1. pc' = pc /\ cur' = cur /\ cur.kind = "active"
      BY <2>1, <2>7
    <3>2. \A i \in DOMAIN out' : out'[i] = Request
      BY <2>5
    <3> QED
      BY <2>4, <2>7, <3>1, <3>2, Zenon DEF OwnExchange
  <2> QED
    BY <2>10, <2>11 DEF ExchangeInv
<1> QED
  BY <1>1, <1>2

\* Read: an accepted answer ends the exchange.
LEMMA ExchangeRead ==
    ASSUME TypeOK, BacklogInv, ExchangeInv, Read PROVE ExchangeInv'
<1>1. CASE ~Live'
  BY <1>1 DEF ExchangeInv, OneExchange, OwnExchange
<1>2. CASE Live'
  <2>1. UNCHANGED <<out, inbox, served, inner, loop, cur>>
    BY DEF Read, queueVars, serverVars
  <2>2. Live
    BY <1>2, <2>1 DEF Live
  <2>3. Answer.kind = "ack"
    BY <2>2 DEF Live, Answer, Frame
  <2>4. CASE held # <<>>
    <3>1. Receive(Head(held)) /\ UNCHANGED slot
      BY <2>4 DEF Read
    <3>2. Head(held).kind = "msg"
      BY <2>4 DEF BacklogInv, OnlyMessages, TypeOK, SessionTypes
    <3>3. UNCHANGED <<pc, wrote>>
      BY <2>3, <3>1, <3>2 DEF Receive, Accepts, Backlogged
    <3> QED
      BY <2>1, <2>2, <3>1, <3>3, ExchangeSame DEF Frames
  <2>5. CASE held = <<>>
    <3>1. slot # <<>> /\ Receive(Head(slot)) /\ slot' = <<>> /\ wrote
      BY <2>5 DEF Read
    <3>2. ~InSlot'
      BY <3>1 DEF InSlot, HasKind
    <3>3. CASE Head(slot).kind = "ack"
      <4>1. InSlot
        BY <3>1, <3>3 DEF InSlot, HasKind, TypeOK, SessionTypes
      <4>2. ~Asked /\ ~InPipe
        BY <2>2, <4>1 DEF ExchangeInv, OneExchange
      <4>3. ~Asked' /\ ~InPipe'
        BY <2>1, <4>2 DEF Asked, InPipe, HasKind
      <4>4. OneOfKind(inbox', "ack")
        BY <4>3 DEF InPipe, HasKind, OneOfKind
      <4>5. \A i \in DOMAIN out' : out'[i].kind # "req" /\ out'[i].kind # "msgReq"
        BY <4>3 DEF Asked, HasKind
      <4> QED
        BY <3>2, <4>3, <4>4, <4>5 DEF ExchangeInv, OneExchange, OwnExchange
    <3>4. CASE Head(slot).kind # "ack"
      <4>1. UNCHANGED <<pc, wrote>>
        BY <2>3, <3>1, <3>4 DEF Receive, Accepts, Backlogged
      <4>2. OneExchange'
        BY <2>1, <2>2, <3>2, <4>1
           DEF ExchangeInv, OneExchange, Asked, InPipe, HasKind, OneOfKind
      <4>3. OwnExchange'
        BY <2>1, <2>2, <3>2, <4>1 DEF ExchangeInv, OwnExchange, InPipe, HasKind
      <4> QED
        BY <4>2, <4>3 DEF ExchangeInv
    <3> QED
      BY <3>3, <3>4
  <2> QED
    BY <2>4, <2>5
<1> QED
  BY <1>1, <1>2

\* Deliver: an answer goes from the pipeline into the decoder queue.
LEMMA ExchangeDeliver == ASSUME TypeOK, ExchangeInv, Deliver PROVE ExchangeInv'
<1>1. CASE ~Live'
  BY <1>1 DEF ExchangeInv, OneExchange, OwnExchange
<1>2. CASE Live'
  <2>1. /\ UNCHANGED <<out, served, inner, loop, cur, pc, wrote>>
        /\ slot = <<>> /\ inbox # <<>> /\ slot' = Append(slot, Head(inbox))
        /\ inbox' = Tail(inbox)
    BY DEF Deliver, Free, queueVars, serverVars, runVars
  <2>2. Live
    BY <1>2, <2>1 DEF Live
  <2>3. inbox \in Seq(InFrames)
    BY DEF TypeOK, SessionTypes
  <2>4. slot' = <<Head(inbox)>>
    BY <2>1
  <2>5. InSlot' <=> Head(inbox).kind = "ack"
    BY <2>4 DEF InSlot, HasKind
  <2>6. /\ InPipe' => InPipe
        /\ Head(inbox).kind = "ack" => InPipe
        /\ OneOfKind(inbox, "ack") => OneOfKind(inbox', "ack")
        /\ OneOfKind(inbox, "ack") /\ Head(inbox).kind = "ack" => ~InPipe'
    BY <2>1, <2>3, KindOfTail DEF InPipe
  <2>7. Asked' <=> Asked
    BY <2>1 DEF Asked, HasKind
  <2>8. OneExchange'
    BY <2>1, <2>2, <2>5, <2>6, <2>7 DEF ExchangeInv, OneExchange
  <2>9. OwnExchange'
    BY <2>1, <2>2, <2>5, <2>6 DEF ExchangeInv, OwnExchange
  <2> QED
    BY <2>8, <2>9 DEF ExchangeInv
<1> QED
  BY <1>1, <1>2

\* BypassAck: an acknowledgement is neither a request nor an answer.
LEMMA ExchangeBypass ==
    ASSUME TypeOK, ExchangeInv, NEW r \in Reflecteds, BypassAck(r) PROVE ExchangeInv'
<1>1. CASE ~Live'
  BY <1>1 DEF ExchangeInv, OneExchange, OwnExchange
<1>2. CASE Live'
  <2>1. UNCHANGED <<slot, inbox, served, inner, loop, cur, pc, wrote>>
    BY DEF BypassAck, Free, queueVars, serverVars, runVars
  <2>2. Live
    BY <1>2, <2>1 DEF Live
  <2>3. out' = out \/ out' = <<Frame("reflectedAck", r)>>
    <3>1. out' = out \/ (out = <<>> /\ out' = Append(out, Frame("reflectedAck", r)))
      BY DEF BypassAck, Free
    <3>2. \A f : Append(<<>>, f) = <<f>>
      OBVIOUS
    <3> QED
      BY <3>1, <3>2, Zenon
  <2>4. \A i \in DOMAIN out' : \/ i \in DOMAIN out /\ out'[i] = out[i]
                               \/ out'[i].kind = "reflectedAck"
    BY <2>3 DEF Frame
  <2>5. Asked' => Asked
    BY <2>4 DEF Asked, HasKind
  <2>6. /\ InSlot' = InSlot /\ InPipe' = InPipe
        /\ OneOfKind(inbox, "ack") => OneOfKind(inbox', "ack")
    BY <2>1 DEF InSlot, InPipe
  <2>7. OneExchange'
    BY <2>1, <2>2, <2>5, <2>6 DEF ExchangeInv, OneExchange
  <2>8. OwnExchange'
    BY <2>1, <2>2, <2>4, <2>6 DEF ExchangeInv, OwnExchange
  <2> QED
    BY <2>7, <2>8 DEF ExchangeInv
<1> QED
  BY <1>1, <1>2

\* The servers push a message.
LEMMA ExchangePush ==
    ASSUME TypeOK, ExchangeInv, PushMsg \/ PushReflected PROVE ExchangeInv'
<1>1. CASE ~Live'
  BY <1>1 DEF ExchangeInv, OneExchange, OwnExchange
<1>2. CASE Live'
  <2>1. UNCHANGED <<slot, out, served, inner, loop, cur, pc, wrote>>
    BY DEF PushMsg, PushReflected, queueVars, serverVars, runVars
  <2>2. Live
    BY <1>2, <2>1 DEF Live
  <2>3. PICK f : inbox' = Append(inbox, f) /\ f.kind # "ack"
    <3>1. CASE PushMsg
      <4>1. PICK m \in Msgs : inbox' = Append(inbox, Frame("msg", m))
        BY <3>1 DEF PushMsg
      <4> QED
        BY <4>1 DEF Frame
    <3>2. CASE PushReflected
      <4>1. PICK r \in Reflecteds : inbox' = Append(inbox, Frame("reflected", r))
        BY <3>2 DEF PushReflected
      <4> QED
        BY <4>1 DEF Frame
    <3> QED
      BY <3>1, <3>2
  <2>4. inbox \in Seq(InFrames)
    BY DEF TypeOK, SessionTypes
  <2>5. InPipe' => InPipe
    BY <2>3, <2>4, KindOfAppend DEF InPipe
  <2>6. OneOfKind(inbox, "ack") => OneOfKind(inbox', "ack")
    BY <2>3, <2>4, KindOfAppend
  <2>7. InSlot' = InSlot /\ Asked' = Asked
    BY <2>1 DEF InSlot, Asked
  <2>8. OneExchange'
    BY <2>1, <2>2, <2>5, <2>6, <2>7 DEF ExchangeInv, OneExchange
  <2>9. OwnExchange'
    BY <2>1, <2>2, <2>5, <2>7 DEF ExchangeInv, OwnExchange
  <2> QED
    BY <2>8, <2>9 DEF ExchangeInv
<1> QED
  BY <1>1, <1>2

\* Transmit: the server serves the request and answers it.
LEMMA ExchangeTransmit == ASSUME TypeOK, ExchangeInv, Transmit PROVE ExchangeInv'
<1>1. CASE ~Live'
  BY <1>1 DEF ExchangeInv, OneExchange, OwnExchange
<1>2. CASE Live'
  <2> DEFINE frame == Head(out)
  <2>1. /\ UNCHANGED <<slot, inner, loop, cur, pc, wrote>> /\ out # <<>> /\ out' = <<>>
        /\ frame.kind \in {"req", "msgReq"} => inbox' = Append(inbox, Frame("ack", 0))
        /\ frame.kind \notin {"req", "msgReq"} =>
                inbox' = inbox \/ inbox' = Append(inbox, Frame("dropAck", 0))
        /\ frame.kind = "req" => frame.id \in served'
        /\ served \subseteq served'
    BY DEF Transmit, queueVars, runVars
  <2>2. Live
    BY <1>2, <2>1 DEF Live
  <2>3. ~Asked' /\ (InSlot' = InSlot) /\ \A i \in DOMAIN out' : FALSE
    BY <2>1 DEF Asked, InSlot, HasKind
  <2>4. frame.kind \in {"req", "msgReq"} => Asked
    BY <2>1 DEF Asked, HasKind, TypeOK, SessionTypes
  <2>5. inbox \in Seq(InFrames)
    BY DEF TypeOK, SessionTypes
  <2>6. CASE frame.kind \in {"req", "msgReq"}
    <3>1. ~InSlot /\ ~InPipe /\ wrote
      BY <2>2, <2>4, <2>6 DEF ExchangeInv, OneExchange
    <3>2. OneOfKind(inbox', "ack")
      BY <2>1, <2>2, <2>5, <2>6, <3>1, KindOfAppend DEF InPipe, ExchangeInv, OneExchange
    <3>3. OneExchange'
      BY <2>1, <2>3, <3>1, <3>2 DEF OneExchange
    <3>4. cur.kind = "active" => <<cur.id, pc>> \in served'
      <4> SUFFICES ASSUME cur.kind = "active" PROVE <<cur.id, pc>> \in served'
        OBVIOUS
      <4>1. 1 \in DOMAIN out /\ out[1] = frame
        BY <2>1 DEF TypeOK, SessionTypes
      <4>2. frame.kind = "req" /\ frame.id = <<cur.id, pc>>
        BY <2>2, <2>6, <4>1 DEF ExchangeInv, OwnExchange
      <4> QED
        BY <2>1, <4>2
    <3>5. OwnExchange'
      BY <2>1, <2>3, <3>4 DEF OwnExchange
    <3> QED
      BY <3>3, <3>5 DEF ExchangeInv
  <2>7. CASE frame.kind \notin {"req", "msgReq"}
    <3> DEFINE f == Frame("dropAck", 0)
    <3>0. f.kind # "ack" /\ (inbox' = inbox \/ inbox' = Append(inbox, f))
      BY <2>1, <2>7 DEF Frame
    <3> HIDE DEF f
    <3>1. InPipe' => InPipe
      BY <3>0, <2>5, KindOfAppend DEF InPipe
    <3>2. OneOfKind(inbox, "ack") => OneOfKind(inbox', "ack")
      BY <3>0, <2>5, KindOfAppend
    <3>3. OneExchange'
      BY <2>1, <2>2, <2>3, <3>1, <3>2 DEF ExchangeInv, OneExchange
    <3>4. OwnExchange'
      BY <2>1, <2>2, <2>3, <3>1 DEF ExchangeInv, OwnExchange
    <3> QED
      BY <3>3, <3>4 DEF ExchangeInv
  <2> QED
    BY <2>6, <2>7
<1> QED
  BY <1>1, <1>2

\* Every step keeps the exchange.
LEMMA ExchangeStep ==
    ASSUME TypeOK, LoopConnected, BacklogInv, WroteInStep, ExchangeInv, Next
    PROVE  ExchangeInv'
BY ExchangeQuiet, ExchangeWrite, ExchangeRead, ExchangeDeliver, ExchangeBypass, ExchangePush,
   ExchangeTransmit, Zenon DEF Next, RunLoop, OldLoops, Bypasses, Pipeline, Reconnect

\* What the server received stays received, and a step that neither starts a
\* task nor moves on in one leaves the task or ends it.
LEMMA RunCases ==
    ASSUME TypeOK, Next
    PROVE  /\ served \subseteq served'
           /\ \/ cur'.kind # "active"
              \/ UNCHANGED <<cur, pc>>
              \/ PickTask \/ StepOff \/ Write \/ Read
<1> DEFINE Kept == served' = served
           Ends == cur'.kind # "active"
           Same == UNCHANGED <<cur, pc>>
<1>1. ASSUME NEW t \in Tasks, Schedule(t) PROVE Kept /\ Same
  BY <1>1 DEF Schedule, runVars, serverVars
<1>2. ASSUME NEW g \in ghosts, GhostFinish(g) PROVE Kept /\ Same
  BY <1>2 DEF GhostFinish, runVars, serverVars
<1>3. ASSUME NEW r \in Reflecteds, BypassAck(r) PROVE Kept /\ Same
  BY <1>3 DEF BypassAck, Free, runVars, serverVars
<1>4. ConnectAsserts \/ ConnectFails \/ StartRun \/ Deliver => Kept /\ Same
  BY DEF ConnectAsserts, ConnectFails, StartRun, Deliver, runVars, serverVars
<1>5. PushMsg \/ PushReflected => Kept /\ Same
  BY DEF PushMsg, PushReflected, runVars, serverVars
<1>6. Transmit => served \subseteq served' /\ Same
  BY DEF Transmit, runVars
<1>7. Connect \/ Disconnect => Kept /\ Ends
  BY NoTaskKind DEF Connect, Disconnect
<1>8. PickTask \/ StepOff => Kept
  BY DEF PickTask, StepOff, serverVars
<1>9. Write => Kept
  BY DEF Write, serverVars
<1>10. Read => Kept
  BY DEF Read, serverVars
<1>11. NextThrows => Kept /\ Ends
  BY NoTaskKind DEF NextThrows, Exit, serverVars
<1>12. PickInbound => Kept /\ (Ends \/ Same)
  BY DEF PickInbound, Handle, Start, runVars, serverVars
<1>13. Finish => Kept /\ Ends
  BY NoTaskKind DEF Finish, Exit
<1>14. Throw => Kept /\ Ends
  BY NoTaskKind DEF Throw, Exit, serverVars
<1>15. Fail => Kept /\ Ends
  BY NoTaskKind DEF Fail, Exit, Start, serverVars
<1>16. Abort => Kept /\ (Ends \/ Same)
  BY NoTaskKind DEF Abort, AbortEffect, Exit, runVars, serverVars
<1>17. CloseAfterExit => Kept /\ (Ends \/ Same)
  BY NoTaskKind DEF CloseAfterExit, AbortEffect, Exit, runVars, serverVars
<1> QED
  BY <1>1, <1>2, <1>3, <1>4, <1>5, <1>6, <1>7, <1>8, <1>9, <1>10, <1>11, <1>12, <1>13,
     <1>14, <1>15, <1>16, <1>17, Zenon
     DEF Next, RunLoop, OldLoops, Bypasses, Pipeline, Reconnect

\* The running task moves on when its step is over: nothing was to be sent, or
\* the server answered.
LEMMA RunServedStep ==
    ASSUME TypeOK, LoopConnected, BacklogInv, WroteInStep, ExchangeInv, RunServed, Next
    PROVE  RunServed'
<1> SUFFICES ASSUME cur'.kind = "active" PROVE ServedBefore(cur.id, pc)'
  BY DEF RunServed
<1>0. served \subseteq served'
  BY RunCases
<1>1. CASE UNCHANGED <<cur, pc>>
  BY <1>0, <1>1 DEF RunServed, ServedBefore
<1>2. CASE PickTask
  <2>1. pc' = 1 /\ cur'.id \in Tasks
    BY <1>2 DEF PickTask, Start, Frame, TypeOK, ManagerTypes
  <2>2. \A i \in DOMAIN Program[cur'.id] : i \in Nat \ {0}
    BY <2>1, ProgramAssumption
  <2> QED
    BY <2>1, <2>2 DEF ServedBefore
<1>3. ASSUME UNCHANGED cur, pc' = pc + 1, pc \in DOMAIN Steps(cur),
             Step = "io" => <<cur.id, pc>> \in served
      PROVE  ServedBefore(cur.id, pc)'
  <2>1. cur.kind = "active" /\ cur \in Running /\ pc \in Nat
    BY <1>3 DEF TypeOK, RunTypes
  <2>2. Steps(cur) = Program[cur.id] /\ Program[cur.id] \in Seq(TaskSteps)
    BY <2>1, StepsTyped, ProgramAssumption
  <2>3. \A i \in DOMAIN Program[cur.id] : i < pc + 1 => i < pc \/ i = pc
    BY <2>1, <2>2
  <2>4. ServedBefore(cur.id, pc)
    BY <2>1 DEF RunServed
  <2>5. Program[cur.id][pc] = Step
    BY <2>2 DEF Step
  <2> QED
    BY <1>0, <1>3, <2>3, <2>4, <2>5 DEF ServedBefore
<1>4. CASE StepOff
  <2>1. UNCHANGED cur /\ pc' = pc + 1 /\ pc \in DOMAIN Steps(cur) /\ Step = "off"
    BY <1>4 DEF StepOff, AtStep
  <2> QED
    BY <1>3, <2>1
<1>5. CASE Write
  <2>1. UNCHANGED cur /\ pc \in DOMAIN Steps(cur) /\ (Step = "ack" \/ pc' = pc)
    BY <1>5 DEF Write, AtStep
  <2>2. Step # "ack"
    <3>1. cur \in Running /\ cur.kind = "active"
      BY <2>1 DEF TypeOK, RunTypes
    <3>2. cur.id \in Tasks /\ Steps(cur) = Program[cur.id]
      BY <3>1, StepsTyped
    <3>3. Step \in TaskSteps
      BY <2>1, <3>2, ProgramAssumption DEF Step
    <3> QED
      BY <3>3 DEF TaskSteps
  <2> QED
    BY <1>1, <2>1, <2>2
<1>6. CASE Read
  <2>1. UNCHANGED <<cur, loop, inner>> /\ pc \in DOMAIN Steps(cur) /\ Step = "io" /\ loop = "task"
    BY <1>6 DEF Read, AtStep, queueVars
  <2>2. cur.kind = "active"
    BY <2>1
  <2>3. Live
    BY <2>1, <2>2 DEF Live, LoopConnected, TypeOK, ManagerTypes
  <2>4. Answer.kind = "ack"
    BY <2>2 DEF Answer, Frame
  <2>5. PICK f : Receive(f) /\ (f.kind = "msg" \/ (slot # <<>> /\ f = Head(slot)))
    BY <1>6 DEF Read, BacklogInv, OnlyMessages, TypeOK, SessionTypes
  <2>6. pc' = pc \/ (pc' = pc + 1 /\ f = Answer)
    BY <2>5 DEF Receive, Accepts, Accepted, Backlogged
  <2>7. f = Answer => <<cur.id, pc>> \in served
    <3> SUFFICES ASSUME f = Answer PROVE InSlot
      BY <2>2, <2>3 DEF ExchangeInv, OwnExchange
    <3>1. slot # <<>> /\ Head(slot).kind = "ack"
      BY <2>4, <2>5
    <3> QED
      BY <3>1 DEF InSlot, HasKind, TypeOK, SessionTypes
  <2> QED
    BY <1>1, <1>3, <2>1, <2>6, <2>7
<1> QED
  BY <1>1, <1>2, <1>4, <1>5, <1>6, RunCases

\* An old run is kept only if all that it had to send was served.
LEMMA GhostsServedStep ==
    ASSUME TypeOK, RunServed, GhostsServed, Next
    PROVE  GhostsServed'
<1>0. served \subseteq served'
  BY RunCases
<1>a. \A t : ServedAll(t) => ServedAll(t)'
  BY <1>0 DEF ServedAll
<1>1. CASE ghosts' = ghosts
  BY <1>a, <1>1 DEF GhostsServed
<1>2. CASE Disconnect
  <2>1. ghosts' = ghosts \/ (Survives /\ ghosts' = ghosts \cup {Ghost})
    BY <1>2 DEF Disconnect
  <2>2. Survives => ServedAll(Head(Ghost.queue))
    <3> SUFFICES ASSUME Survives PROVE ServedAll(Head(Ghost.queue))
      OBVIOUS
    <3>1. cur.kind = "active" /\ OffQueue(cur.id, pc) /\ cur \in Running /\ pc \in Nat
      BY DEF Survives, TypeOK, RunTypes
    <3>2. Head(Ghost.queue) = cur.id /\ cur.id \in Tasks
      BY <3>1, RunningKinds DEF Ghost, TypeOK, HeadRuns
    <3>3. Program[cur.id] \in Seq(TaskSteps)
      BY <3>2, ProgramAssumption
    <3>4. \A i \in DOMAIN Program[cur.id] : i < pc \/ i \in pc..Len(Program[cur.id])
      BY <3>1, <3>3
    <3>5. \A i \in pc..Len(Program[cur.id]) : Program[cur.id][i] # "io"
      BY <3>1 DEF OffQueue
    <3> QED
      BY <3>1, <3>2, <3>4, <3>5 DEF RunServed, ServedBefore, ServedAll
  <2> QED
    BY <1>a, <2>1, <2>2 DEF GhostsServed
<1>3. ASSUME NEW g \in ghosts, GhostFinish(g) PROVE GhostsServed'
  <2> DEFINE rest == Tail(g.queue)
             next == [g EXCEPT !.queue = rest]
  <2>1. \A h \in ghosts' : h \in ghosts \/ (h = next /\ rest # <<>> /\ OffQueue(Head(rest), 1))
    BY <1>3 DEF GhostFinish
  <2>2. rest # <<>> /\ OffQueue(Head(rest), 1) => ServedAll(Head(next.queue))
    <3> SUFFICES ASSUME rest # <<>>, OffQueue(Head(rest), 1) PROVE ServedAll(Head(next.queue))
      OBVIOUS
    <3>1. g.queue \in Seq(Tasks) /\ g.queue # <<>> /\ g \in Ghosts
      BY DEF TypeOK, ManagerTypes, Ghosts
    <3>2. Head(rest) \in Tasks
      BY <3>1
    <3>3. next.queue = rest
      BY <3>1 DEF Ghosts
    <3>4. Program[Head(rest)] \in Seq(TaskSteps)
      BY <3>2, ProgramAssumption
    <3> HIDE DEF next, rest
    <3>5. \A i \in DOMAIN Program[Head(rest)] : i \in 1..Len(Program[Head(rest)])
      BY <3>4
    <3> QED
      BY <3>3, <3>5 DEF OffQueue, ServedAll
  <2> HIDE DEF next, rest
  <2> QED
    BY <1>a, <2>1, <2>2 DEF GhostsServed
<1>4. CASE Finish
  BY <1>1, <1>4 DEF Finish
<1>5. CASE PickTask \/ (\E t \in Tasks : Schedule(t)) \/ Connect
  BY <1>1, <1>5 DEF PickTask, Schedule, Connect
<1>6. CASE \/ \E r \in Reflecteds : BypassAck(r)
           \/ ConnectAsserts \/ ConnectFails \/ StartRun \/ PickInbound \/ NextThrows
           \/ StepOff \/ Write \/ Read \/ Throw \/ Fail \/ Abort \/ CloseAfterExit
           \/ Deliver \/ Transmit \/ PushMsg \/ PushReflected
  BY <1>1, <1>6, GhostsKept
<1> QED
  BY <1>2, <1>3, <1>4, <1>5, <1>6, Zenon
     DEF Next, RunLoop, OldLoops, Bypasses, Pipeline, Reconnect

\* A promise resolves at the end of a run.
LEMMA ResolvedStep ==
    ASSUME TypeOK, RunServed, GhostsServed, ResolvedWasServed, Next
    PROVE  ResolvedWasServed'
<1>0. served \subseteq served' /\ done \in Settlements
  BY RunCases DEF TypeOK, ManagerTypes
<1>1. ASSUME \A t \in Tasks : done'[t] = "resolved" => done[t] = "resolved" \/ ServedAll(t)
      PROVE  ResolvedWasServed'
  BY <1>0, <1>1 DEF ResolvedWasServed, ServedAll
<1>2. ASSUME NEW t \in Tasks, Schedule(t) PROVE ResolvedWasServed'
  <2>1. \E s \in {"pending", "rejected", "thrown"} : done' = [done EXCEPT ![t] = s]
    BY <1>2 DEF Schedule, ScheduleOffline, ScheduleOnline, Enqueue, Refuse
  <2> QED
    BY <1>0, <1>1, <2>1 DEF Settlements
<1>3. CASE Connect
  <2>1. \A t \in Tasks : done'[t] = done[t] \/ done'[t] = "rejected"
    BY <1>3 DEF Connect
  <2> QED
    BY <1>1, <2>1
<1>4. ASSUME NEW g \in ghosts, GhostFinish(g) PROVE ResolvedWasServed'
  <2>1. done' = [done EXCEPT ![Head(g.queue)] = IF @ = "pending" THEN "resolved" ELSE @]
    BY <1>4 DEF GhostFinish
  <2>2. \A t \in Tasks : t = Head(g.queue) \/ done'[t] = done[t]
    BY <1>0, <2>1 DEF Settlements
  <2> QED
    BY <1>1, <2>2 DEF GhostsServed
<1>5. CASE Finish
  <2>1. CASE done' = done
    BY <1>1, <2>1
  <2>2. CASE /\ cur.kind = "active" /\ pc > Len(Steps(cur))
             /\ done' = [done EXCEPT ![cur.id] = IF @ = "pending" THEN "resolved" ELSE @]
    <3>1. cur \in Running /\ pc \in Nat
      BY DEF TypeOK, RunTypes
    <3>2. cur.id \in Tasks /\ Steps(cur) = Program[cur.id]
      BY <2>2, <3>1, StepsTyped
    <3>3. \A i \in DOMAIN Program[cur.id] : i < pc
      BY <2>2, <3>1, <3>2, ProgramAssumption
    <3>4. ServedAll(cur.id)
      BY <2>2, <3>3 DEF RunServed, ServedBefore, ServedAll
    <3>5. \A t \in Tasks : t = cur.id \/ done'[t] = done[t]
      BY <1>0, <2>2 DEF Settlements
    <3> QED
      BY <1>1, <3>4, <3>5
  <2> QED
    BY <1>5, <2>1, <2>2 DEF Finish, Exit
<1>6. CASE PickTask \/ Disconnect
  <2>1. done' = done
    BY <1>6 DEF PickTask, Disconnect
  <2> QED
    BY <1>1, <2>1
<1>7. CASE \/ \E r \in Reflecteds : BypassAck(r)
           \/ ConnectAsserts \/ ConnectFails \/ StartRun \/ PickInbound \/ NextThrows
           \/ StepOff \/ Write \/ Read \/ Throw \/ Fail \/ Abort \/ CloseAfterExit
           \/ Deliver \/ Transmit \/ PushMsg \/ PushReflected
  BY <1>1, <1>7, GhostsKept
<1> QED
  BY <1>2, <1>3, <1>4, <1>5, <1>6, <1>7, Zenon
     DEF Next, RunLoop, OldLoops, Bypasses, Pipeline, Reconnect

\* ServedInv is an inductive invariant.
LEMMA ServedAlways == Spec => []ServedInv
<1>1. Init => ServedInv
  <2> SUFFICES ASSUME Init PROVE ServedInv
    OBVIOUS
  <2> USE DEF Init, EmptySession
  <2>1. WroteInStep /\ RunServed /\ GhostsServed /\ ResolvedWasServed
    BY NoTaskKind DEF WroteInStep, RunServed, GhostsServed, ResolvedWasServed
  <2>2. OneExchange /\ OwnExchange
    BY DEF Live, OneExchange, OwnExchange
  <2> QED
    BY <2>1, <2>2 DEF ServedInv
<1>2. TypeOK /\ OnceInv /\ BacklogInv /\ ServedInv /\ [Next]_vars => ServedInv'
  <2> SUFFICES ASSUME TypeOK, OnceInv, BacklogInv, ServedInv, [Next]_vars PROVE ServedInv'
    OBVIOUS
  <2>1. CASE Next
    <3>1. LoopConnected
      BY DEF OnceInv
    <3> QED
      BY <2>1, <3>1, WroteStep, ExchangeStep, RunServedStep, GhostsServedStep, ResolvedStep
         DEF ServedInv, ExchangeInv
  <2>2. CASE UNCHANGED vars
    <3> USE <2>2 DEF vars, sessionVars, runVars, queueVars, serverVars
    <3>1. WroteInStep' /\ OneExchange' /\ OwnExchange'
      BY DEF ServedInv, WroteInStep, OneExchange, OwnExchange, Live, Asked, InSlot, InPipe, Step
    <3>2. RunServed' /\ GhostsServed' /\ ResolvedWasServed'
      BY DEF ServedInv, RunServed, GhostsServed, ResolvedWasServed, ServedBefore, ServedAll
    <3> QED
      BY <3>1, <3>2 DEF ServedInv
  <2> QED
    BY <2>1, <2>2
<1> QED
  BY <1>1, <1>2, TypeCorrect, OnceAlways, BacklogAlways, PTL DEF Spec

\* The promise of a task resolves only when the server received every request
\* of the task, on whichever connections it ran: no answer is ever taken for
\* that of another step, or of another task.
THEOREM ResolvedMeansServed == Spec => []ResolvedWasServed
<1>1. ServedInv => ResolvedWasServed
  BY DEF ServedInv
<1> QED
  BY <1>1, ServedAlways, PTL

-----------------------------------------------------------------------------
\* Messages are processed in the order the server sent them

MsgFrames == [kind : {"msg"}, id : Msgs]
Ids(msgs) == [i \in DOMAIN msgs |-> msgs[i].id]

\* The message frames among the inbound frames
LEMMA MsgFrameKinds ==
    ASSUME NEW f \in InFrames
    PROVE  /\ f.kind = "msg" <=> f \in MsgFrames
           /\ f.kind = "msg" => f.id \in Msgs
BY DEF InFrames, MsgFrames

\* The message ids of concatenated message frames
LEMMA IdsConcat ==
    ASSUME NEW p \in Seq(InFrames), NEW q \in Seq(InFrames)
    PROVE  Ids(p \o q) = Ids(p) \o Ids(q)
<1> DEFINE u == p \o q
           a == Ids(p)
           b == Ids(q)
<1>1. /\ Len(p) \in Nat /\ Len(q) \in Nat
      /\ DOMAIN u = 1..(Len(p) + Len(q))
      /\ \A i \in 1..Len(p) : u[i] = p[i]
      /\ \A i \in 1..Len(q) : u[Len(p) + i] = q[i]
  BY ConcatElements
<1>2. DOMAIN p = 1..Len(p) /\ DOMAIN q = 1..Len(q)
  OBVIOUS
<1> DEFINE V == {p[i].id : i \in 1..Len(p)} \cup {q[i].id : i \in 1..Len(q)}
<1>3. a \in Seq(V) /\ b \in Seq(V) /\ Len(a) = Len(p) /\ Len(b) = Len(q)
  BY <1>1, <1>2 DEF Ids
<1>4. /\ \A i \in 1..Len(p) : a[i] = p[i].id
      /\ \A i \in 1..Len(q) : b[i] = q[i].id
  BY <1>2 DEF Ids
<1> HIDE DEF u, a, b, V
<1>5. /\ a \o b \in Seq(V) /\ DOMAIN (a \o b) = 1..(Len(a) + Len(b))
      /\ \A i \in 1..Len(a) : (a \o b)[i] = a[i]
      /\ \A i \in 1..Len(b) : (a \o b)[Len(a) + i] = b[i]
      /\ (a \o b) = [i \in 1..(Len(a) + Len(b)) |-> (a \o b)[i]]
  <2>1. a \in Seq(V) /\ b \in Seq(V)
    BY <1>3
  <2> QED
    BY <2>1, ConcatElements
<1>6. \A i \in 1..(Len(p) + Len(q)) : i \in 1..Len(p) \/ \E k \in 1..Len(q) : i = Len(p) + k
  <2> SUFFICES ASSUME NEW i \in 1..(Len(p) + Len(q)), i \notin 1..Len(p)
               PROVE  \E k \in 1..Len(q) : i = Len(p) + k
    OBVIOUS
  <2>1. i - Len(p) \in 1..Len(q) /\ i = Len(p) + (i - Len(p))
    BY <1>1
  <2> QED
    BY <2>1
<1>7. \A i \in 1..(Len(p) + Len(q)) : u[i].id = (a \o b)[i]
  <2>1. \A i \in 1..Len(p) : u[i].id = (a \o b)[i]
    BY <1>1, <1>3, <1>4, <1>5
  <2>2. \A i \in 1..Len(q) : u[Len(p) + i].id = (a \o b)[Len(p) + i]
    BY <1>1, <1>3, <1>4, <1>5
  <2> QED
    BY <1>6, <2>1, <2>2
<1>8. Ids(u) = [i \in 1..(Len(p) + Len(q)) |-> u[i].id]
  BY <1>1, Zenon DEF Ids
<1>9. Ids(u) = [i \in 1..(Len(p) + Len(q)) |-> (a \o b)[i]]
  BY <1>7, <1>8, Zenon
<1>10. Ids(u) = a \o b
  BY <1>3, <1>5, <1>9, Zenon
<1> QED
  BY <1>10 DEF u, a, b

\* What MsgIds returns, by its frames
LEMMA MsgIdsConcat ==
    ASSUME NEW p \in Seq(InFrames), NEW q \in Seq(InFrames)
    PROVE  MsgIds(p \o q) = MsgIds(p) \o MsgIds(q)
<1>1. \A s : MsgIds(s) = Ids(FilterSeq(s, MsgFrames))
  BY DEF MsgIds, Ids, MsgFrames
<1>2. FilterSeq(p, MsgFrames) \in Seq(InFrames) /\ FilterSeq(q, MsgFrames) \in Seq(InFrames)
  BY FilterIsFiltered
<1>3. FilterSeq(p \o q, MsgFrames) = FilterSeq(p, MsgFrames) \o FilterSeq(q, MsgFrames)
  BY FilterConcat
<1>4. Ids(FilterSeq(p, MsgFrames) \o FilterSeq(q, MsgFrames))
          = Ids(FilterSeq(p, MsgFrames)) \o Ids(FilterSeq(q, MsgFrames))
  <2> DEFINE a == FilterSeq(p, MsgFrames)
             b == FilterSeq(q, MsgFrames)
  <2>1. a \in Seq(InFrames) /\ b \in Seq(InFrames)
    BY <1>2
  <2> HIDE DEF a, b
  <2>2. Ids(a \o b) = Ids(a) \o Ids(b)
    BY <2>1, IdsConcat
  <2> QED
    BY <2>2 DEF a, b
<1> QED
  BY <1>1, <1>3, <1>4, Zenon

\* ... of one frame
LEMMA MsgIdsOne ==
    ASSUME NEW f \in InFrames
    PROVE  MsgIds(<<f>>) = IF f.kind = "msg" THEN <<f.id>> ELSE <<>>
<1> DEFINE y == <<f>>
<1>1. y \in Seq(InFrames) /\ DOMAIN y = 1..1 /\ y[1] = f
  OBVIOUS
<1>2. \A s : MsgIds(s) = Ids(FilterSeq(s, MsgFrames))
  BY DEF MsgIds, Ids, MsgFrames
<1>3. Ids(y) = <<f.id>> /\ Ids(<<>>) = <<>>
  BY DEF Ids
<1> HIDE DEF y
<1>4. CASE f.kind = "msg"
  <2>1. \A i \in DOMAIN y : y[i] \in MsgFrames
    BY <1>1, <1>4, MsgFrameKinds
  <2>2. FilterSeq(y, MsgFrames) = y
    BY <1>1, <2>1, FilterAll
  <2> QED
    BY <1>2, <1>3, <1>4, <2>2 DEF y
<1>5. CASE f.kind # "msg"
  <2>1. \A i \in DOMAIN y : y[i] \notin MsgFrames
    BY <1>1, <1>5, MsgFrameKinds
  <2>2. FilterSeq(y, MsgFrames) = <<>>
    BY <1>1, <2>1, FilterNone
  <2> QED
    BY <1>2, <1>3, <1>5, <2>2 DEF y
<1> QED
  BY <1>4, <1>5

\* ... of any frames
LEMMA MsgIdsType ==
    ASSUME NEW p \in Seq(InFrames)
    PROVE  MsgIds(p) \in Seq(Msgs)
<1> DEFINE m == FilterSeq(p, MsgFrames)
<1>1. m \in Seq(InFrames) /\ m \in Filtered(p, MsgFrames)
  BY FilterIsFiltered
<1>2. \A j \in DOMAIN m : m[j] \in MsgFrames
  BY <1>1, FilteredElements
<1> HIDE DEF m
<1>3. \A j \in 1..Len(m) : m[j].id \in Msgs
  BY <1>1, <1>2 DEF MsgFrames
<1>4. [i \in DOMAIN m |-> m[i].id] \in Seq(Msgs)
  BY <1>1, <1>3
<1> QED
  BY <1>4 DEF MsgIds, m, MsgFrames

\* Moving an element in a concatenation
LEMMA ConcatMoves ==
    ASSUME NEW T, NEW p \in Seq(T), NEW q \in Seq(T), NEW x \in T
    PROVE  /\ p \o Append(q, x) = Append(p \o q, x)
           /\ q # <<>> => Append(p, Head(q)) \o Tail(q) = p \o q
<1>1. p \o Append(q, x) = Append(p \o q, x)
  OBVIOUS
<1>2. q # <<>> => Append(p, Head(q)) \o Tail(q) = p \o q
  <2> SUFFICES ASSUME q # <<>> PROVE Append(p, Head(q)) \o Tail(q) = p \o q
    OBVIOUS
  <2>1. Append(p, Head(q)) = p \o <<Head(q)>> /\ q = <<Head(q)>> \o Tail(q)
    OBVIOUS
  <2>2. (p \o <<Head(q)>>) \o Tail(q) = p \o (<<Head(q)>> \o Tail(q))
    OBVIOUS
  <2> QED
    BY <2>1, <2>2, Zenon
<1> QED
  BY <1>1, <1>2

\* Between tasks, no backlog is taken over. A run that both took one over and
\* backlogged something is waiting for an answer, so it is not over: the order
\* in which Finish joins the two does not matter.
HeldByTask == ~queueErr /\ loop # "task" => held = <<>>
HeldWhileReading == ~queueErr /\ held # <<>> /\ backlog # <<>> => wrote
HeldInv == HeldByTask /\ HeldWhileReading

AtHand == IF cur.kind = "msg" THEN <<cur.id>> ELSE <<>>
Stream == backlog \o held \o slot \o inbox

\* What the invariant says of the state of the session
LEMMA OrderMeans ==
    /\ InboundInOrder <=> (inner = "connected" /\ ~queueErr =>
           cur.kind = "drop" \/ pushed = processed \o AtHand \o MsgIds(Stream))
    /\ InboundInOrder' <=> (inner' = "connected" /\ ~queueErr' =>
           cur'.kind = "drop" \/ pushed' = processed' \o AtHand' \o MsgIds(Stream'))
<1>1. InboundInOrder <=> (inner = "connected" /\ ~queueErr =>
           cur.kind = "drop" \/ pushed = processed \o AtHand \o MsgIds(Stream))
  BY Zenon DEF InboundInOrder, AtHand, Stream
<1>2. InboundInOrder' <=> (inner' = "connected" /\ ~queueErr' =>
           cur'.kind = "drop" \/ pushed' = processed' \o AtHand' \o MsgIds(Stream)')
  BY Zenon DEF InboundInOrder, AtHand, Stream
<1>3. MsgIds(Stream)' = MsgIds(Stream')
  BY DEF MsgIds
<1> QED
  BY <1>1, <1>2, <1>3, Zenon

\* A step that leaves what was and what is to be processed alone
LEMMA OrderCalm ==
    ASSUME InboundInOrder, UNCHANGED <<pushed, processed>>,
           inner' = "connected" /\ ~queueErr' =>
               /\ inner = "connected" /\ ~queueErr
               /\ cur.kind = "drop" => cur'.kind = "drop"
               /\ \/ cur'.kind = "drop"
                  \/ AtHand' = AtHand /\ MsgIds(Stream') = MsgIds(Stream)
    PROVE  InboundInOrder'
BY OrderMeans, Zenon

\* The steps that leave the task and what is yet to be processed alone, and those
\* that leave the queues in the error state
Unheard ==
    /\ UNCHANGED <<cur, backlog, held, wrote, pushed, processed>>
    /\ inner' \in {inner, "disconnected"}
    /\ loop' = loop \/ loop # "task"
    /\ queueErr' = queueErr
    /\ MsgIds(Stream') = MsgIds(Stream)
Errored == queueErr' /\ UNCHANGED <<pushed, processed>>

\* Both keep the invariants.
LEMMA HeldUnheard == ASSUME HeldInv, Unheard PROVE HeldInv'
BY Zenon DEF HeldInv, HeldByTask, HeldWhileReading, Unheard

\* Likewise.
LEMMA OrderUnheard == ASSUME InboundInOrder, Unheard PROVE InboundInOrder'
<1>1. AtHand' = AtHand
  BY Zenon DEF Unheard, AtHand
<1> QED
  BY <1>1, OrderCalm, Zenon DEF Unheard

\* Likewise.
LEMMA ErroredKeeps == ASSUME Errored PROVE HeldInv' /\ InboundInOrder'
BY OrderMeans, Zenon DEF HeldInv, HeldByTask, HeldWhileReading, Errored

\* A frame more or less at the ends of the stream
LEMMA StreamIds ==
    ASSUME TypeOK
    PROVE  /\ slot \in Seq(InFrames) /\ inbox \in Seq(InFrames)
           /\ backlog \in Seq(InFrames) /\ held \in Seq(InFrames)
           /\ Stream \in Seq(InFrames)
           /\ pushed \in Seq(Msgs) /\ processed \in Seq(Msgs)
           /\ AtHand \in Seq(Msgs) /\ MsgIds(Stream) \in Seq(Msgs)
           /\ \A f \in InFrames : MsgIds(Append(Stream, f)) =
                  IF f.kind = "msg" THEN Append(MsgIds(Stream), f.id) ELSE MsgIds(Stream)
<1>1. /\ slot \in Seq(InFrames) /\ inbox \in Seq(InFrames)
      /\ backlog \in Seq(InFrames) /\ held \in Seq(InFrames)
      /\ pushed \in Seq(Msgs) /\ processed \in Seq(Msgs) /\ cur \in Running
  BY DEF TypeOK, SessionTypes, ServerTypes, RunTypes
<1>2. Stream \in Seq(InFrames)
  BY <1>1 DEF Stream
<1>3. cur.kind = "msg" => cur.id \in Msgs
  BY <1>1, RunningKinds
<1>4. AtHand \in Seq(Msgs)
  BY <1>3 DEF AtHand
<1>5. MsgIds(Stream) \in Seq(Msgs)
  BY <1>2, MsgIdsType
<1>6. ASSUME NEW f \in InFrames
      PROVE  MsgIds(Append(Stream, f)) =
                 IF f.kind = "msg" THEN Append(MsgIds(Stream), f.id) ELSE MsgIds(Stream)
  <2> DEFINE y == <<f>>
  <2>1. y \in Seq(InFrames) /\ Append(Stream, f) = Stream \o y
    BY <1>2
  <2>2. MsgIds(y) = IF f.kind = "msg" THEN <<f.id>> ELSE <<>>
    BY MsgIdsOne
  <2> HIDE DEF y
  <2>3. MsgIds(Stream \o y) = MsgIds(Stream) \o MsgIds(y)
    BY <1>2, <2>1, MsgIdsConcat
  <2>4. f.kind = "msg" => MsgIds(Stream) \o <<f.id>> = Append(MsgIds(Stream), f.id)
    BY <1>5, MsgFrameKinds
  <2>5. MsgIds(Stream) \o <<>> = MsgIds(Stream)
    BY <1>5
  <2>6. CASE f.kind = "msg"
    BY <2>1, <2>2, <2>3, <2>4, <2>6, Zenon
  <2>7. CASE f.kind # "msg"
    BY <2>1, <2>2, <2>3, <2>5, <2>7, Zenon
  <2> QED
    BY <2>6, <2>7
<1> QED
  BY <1>1, <1>2, <1>4, <1>5, <1>6

\* The steps outside of the run loop's hold of the messages
LEMMA UnheardSteps ==
    ASSUME TypeOK,
           \/ \E t \in Tasks : Schedule(t)
           \/ \E g \in ghosts : GhostFinish(g)
           \/ \E r \in Reflecteds : BypassAck(r)
           \/ ConnectAsserts
           \/ ConnectFails
           \/ StartRun
           \/ StepOff
           \/ Deliver
           \/ Transmit
           \/ PushReflected
    PROVE  Unheard
<1> USE DEF Unheard
<1>0. UNCHANGED <<backlog, held, slot, inbox>> => MsgIds(Stream') = MsgIds(Stream)
  BY Zenon DEF Stream
<1>1. ASSUME NEW t \in Tasks, Schedule(t) PROVE Unheard
  BY <1>0, <1>1 DEF Schedule, sessionVars, runVars, serverVars
<1>2. ASSUME NEW g \in ghosts, GhostFinish(g) PROVE Unheard
  BY <1>0, <1>2 DEF GhostFinish, sessionVars, runVars, serverVars, queueVars
<1>3. ASSUME NEW r \in Reflecteds, BypassAck(r) PROVE Unheard
  BY <1>0, <1>3 DEF BypassAck, runVars, serverVars, queueVars
<1>4. ConnectAsserts => Unheard
  BY <1>0 DEF ConnectAsserts, sessionVars, runVars, serverVars, queueVars
<1>5. ConnectFails => Unheard
  BY <1>0 DEF ConnectFails, sessionVars, runVars, serverVars
<1>6. StartRun => Unheard
  BY <1>0 DEF StartRun, sessionVars, serverVars, queueVars
<1>7. StepOff => Unheard
  BY <1>0 DEF StepOff, sessionVars, serverVars, queueVars
<1>8. Deliver => Unheard
  <2> SUFFICES ASSUME Deliver PROVE Unheard
    OBVIOUS
  <2>1. slot = <<>> /\ inbox # <<>> /\ slot' = Append(slot, Head(inbox)) /\ inbox' = Tail(inbox)
    BY StreamIds DEF Deliver, Free
  <2>2. slot' \o inbox' = slot \o inbox
    BY <2>1, StreamIds
  <2>3. /\ (backlog \o held \o slot) \o inbox = (backlog \o held) \o (slot \o inbox)
        /\ (backlog \o held \o slot') \o inbox' = (backlog \o held) \o (slot' \o inbox')
    BY <2>1, StreamIds
  <2>4. UNCHANGED <<backlog, held>>
    BY DEF Deliver
  <2>5. Stream' = Stream
    BY <2>2, <2>3, <2>4, Zenon DEF Stream
  <2> QED
    BY <2>4, <2>5 DEF Deliver, runVars, serverVars, queueVars
<1>9. ASSUME UNCHANGED <<backlog, held, slot>>, NEW f \in InFrames, f.kind # "msg",
             inbox' = Append(inbox, f)
      PROVE  MsgIds(Stream') = MsgIds(Stream)
  <2>1. Stream' = Append(Stream, f)
    BY <1>9, StreamIds DEF Stream
  <2> QED
    BY <1>9, <2>1, StreamIds
<1>10. Transmit => Unheard
  <2> SUFFICES ASSUME Transmit PROVE Unheard
    OBVIOUS
  <2>1. /\ Frame("ack", 0) \in InFrames /\ Frame("ack", 0).kind # "msg"
        /\ Frame("dropAck", 0) \in InFrames /\ Frame("dropAck", 0).kind # "msg"
    BY FramesTyped DEF Frame
  <2>2. UNCHANGED <<backlog, held, slot>>
    BY DEF Transmit
  <2>3. \/ inbox' = inbox
        \/ inbox' = Append(inbox, Frame("ack", 0))
        \/ inbox' = Append(inbox, Frame("dropAck", 0))
    BY Zenon DEF Transmit
  <2>4. MsgIds(Stream') = MsgIds(Stream)
    BY <1>0, <1>9, <2>1, <2>2, <2>3, Zenon
  <2> QED
    BY <2>4 DEF Transmit, runVars, serverVars, queueVars
<1>11. PushReflected => Unheard
  <2> SUFFICES ASSUME PushReflected PROVE Unheard
    OBVIOUS
  <2>1. PICK r \in Reflecteds : inbox' = Append(inbox, Frame("reflected", r))
    BY DEF PushReflected
  <2>2. Frame("reflected", r) \in InFrames /\ Frame("reflected", r).kind # "msg"
    BY FramesTyped DEF Frame
  <2>3. MsgIds(Stream') = MsgIds(Stream)
    BY <1>9, <2>1, <2>2 DEF PushReflected
  <2> QED
    BY <2>3 DEF PushReflected, runVars, serverVars, queueVars
<1> QED
  BY <1>1, <1>2, <1>3, <1>4, <1>5, <1>6, <1>7, <1>8, <1>10, <1>11, Zenon

\* The steps that put the queues into the error state
LEMMA ErroredSteps ==
    ASSUME \/ NextThrows
           \/ Throw
           \/ Abort
           \/ CloseAfterExit
    PROVE  Errored
<1>1. NextThrows => Errored
  BY DEF Errored, NextThrows, Exit, serverVars
<1>2. Throw => Errored
  BY DEF Errored, Throw, Exit, serverVars
<1>3. AbortEffect => Errored
  BY DEF Errored, AbortEffect, Exit, serverVars
<1> QED
  BY <1>1, <1>2, <1>3 DEF Abort, CloseAfterExit

\* The backlogs while the run loop runs tasks
LEMMA HeldStep == ASSUME TypeOK, BacklogInv, HeldInv, Next PROVE HeldInv'
<1> USE DEF HeldInv, HeldByTask, HeldWhileReading
<1>1. Connect \/ Disconnect => HeldInv'
  BY DEF Connect, Disconnect
<1>2. PickTask => HeldInv'
  BY DEF PickTask, Start
<1>3. PickInbound => HeldInv'
  BY DEF PickInbound, Handle, Start, runVars
<1>4. Write => HeldInv'
  BY DEF Write
<1>5. PushMsg => HeldInv'
  BY DEF PushMsg, runVars
<1>6. Fail => HeldInv'
  BY DEF Fail, Start, Exit
<1>7. Finish => HeldInv'
  BY DEF Finish, Exit
<1>8. Read => HeldInv'
  <2> SUFFICES ASSUME Read PROVE HeldInv'
    OBVIOUS
  <2>1. loop' = loop /\ queueErr' = queueErr /\ loop = "task"
    BY DEF Read, AtStep
  <2>2. CASE held # <<>> /\ Receive(Head(held)) /\ held' = Tail(held)
    <3>1. Head(held).kind = "msg" /\ Answer.kind # "msg"
      BY <2>2, SessionSeqs DEF BacklogInv, OnlyMessages, Answer, Frame
    <3>2. wrote' = wrote
      BY <2>2, <3>1, Zenon DEF Receive, Accepts, Backlogged
    <3> QED
      BY <2>1, <2>2, <3>2 DEF Read
  <2>3. CASE held = <<>> /\ held' = held
    BY <2>1, <2>3
  <2> QED
    BY <2>2, <2>3, Zenon DEF Read
<1> QED
  BY <1>1, <1>2, <1>3, <1>4, <1>5, <1>6, <1>7, <1>8, UnheardSteps, HeldUnheard, ErroredSteps,
     ErroredKeeps, Zenon DEF Next, RunLoop, OldLoops, Bypasses, Pipeline, Reconnect

\* The messages of a stream, by its first frame
LEMMA StreamHead ==
    ASSUME NEW f \in InFrames, NEW rest \in Seq(InFrames)
    PROVE  MsgIds(<<f>> \o rest) = IF f.kind = "msg" THEN <<f.id>> \o MsgIds(rest)
                                                     ELSE MsgIds(rest)
<1> DEFINE y == <<f>>
<1>1. y \in Seq(InFrames)
  OBVIOUS
<1>2. MsgIds(y) = IF f.kind = "msg" THEN <<f.id>> ELSE <<>>
  BY MsgIdsOne
<1>3. MsgIds(rest) \in Seq(Msgs)
  BY MsgIdsType
<1> HIDE DEF y
<1>4. MsgIds(y \o rest) = MsgIds(y) \o MsgIds(rest)
  BY <1>1, MsgIdsConcat
<1>5. <<>> \o MsgIds(rest) = MsgIds(rest)
  BY <1>3
<1>6. CASE f.kind = "msg"
  BY <1>2, <1>4, <1>6, Zenon DEF y
<1>7. CASE f.kind # "msg"
  BY <1>2, <1>4, <1>5, <1>7, Zenon DEF y
<1> QED
  BY <1>6, <1>7

\* A message is received: from the front of the stream to the hand.
LEMMA OrderPickInbound ==
    ASSUME TypeOK, BacklogInv, HeldInv, InboundInOrder, PickInbound
    PROVE  InboundInOrder'
<1> SUFFICES ASSUME inner' = "connected", ~queueErr', cur'.kind # "drop"
             PROVE  pushed' = processed' \o AtHand' \o MsgIds(Stream')
  BY OrderMeans, Zenon
<1>1. /\ inner = "connected" /\ ~queueErr /\ loop = "next"
      /\ UNCHANGED <<pushed, processed, inbox>>
  BY DEF PickInbound, queueVars, serverVars
<1>2. cur = NoTask /\ AtHand = <<>> /\ cur.kind # "drop"
  BY <1>1 DEF TypeOK, RunTypes, AtHand, NoTask, Frame
<1>3. held = <<>>
  BY <1>1 DEF HeldInv, HeldByTask
<1>4. pushed = processed \o <<>> \o MsgIds(Stream)
  BY <1>1, <1>2, OrderMeans, Zenon
<1>5. pushed = processed \o MsgIds(Stream)
  BY <1>4, StreamIds
<1>6. ASSUME NEW f \in InFrames, NEW rest \in Seq(InFrames), Stream = <<f>> \o rest,
             \/ cur' = f /\ f.kind \in {"msg", "reflected"}
             \/ cur' = cur /\ f.kind \notin {"msg", "reflected"},
             Stream' = rest
      PROVE  pushed' = processed' \o AtHand' \o MsgIds(Stream')
  <2>1. MsgIds(rest) \in Seq(Msgs) /\ processed \in Seq(Msgs)
    BY <1>6, MsgIdsType, StreamIds
  <2>2. CASE f.kind = "msg"
    <3>1. AtHand' = <<f.id>> /\ f.id \in Msgs
      BY <1>6, <2>2, InFrameKinds DEF AtHand
    <3>2. MsgIds(Stream) = <<f.id>> \o MsgIds(rest)
      BY <1>6, <2>2, StreamHead
    <3>3. processed \o (<<f.id>> \o MsgIds(rest)) = (processed \o <<f.id>>) \o MsgIds(rest)
      BY <2>1, <3>1
    <3> QED
      BY <1>1, <1>5, <1>6, <3>1, <3>2, <3>3, Zenon
  <2>3. CASE f.kind # "msg"
    <3>1. AtHand' = <<>>
      BY <1>2, <1>6, <2>3 DEF AtHand
    <3>2. MsgIds(Stream) = MsgIds(rest)
      BY <1>6, <2>3, StreamHead
    <3>3. processed \o <<>> = processed
      BY <2>1
    <3> QED
      BY <1>1, <1>5, <1>6, <3>1, <3>2, <3>3, Zenon
  <2> QED
    BY <2>2, <2>3
<1>7. CASE backlog # <<>> /\ Handle(Head(backlog), Tail(backlog)) /\ UNCHANGED slot
  <2>1. Head(backlog) \in InFrames /\ Head(backlog).kind = "msg" /\ Tail(backlog) \in Seq(InFrames)
    BY <1>7, StreamIds DEF BacklogInv, OnlyMessages
  <2>2. cur' = Head(backlog) /\ held' = Tail(backlog) /\ backlog' = <<>>
    BY <1>7, <2>1, Zenon DEF Handle, Start
  <2>3. Stream' = Tail(backlog) \o slot \o inbox
    BY <1>1, <1>7, <2>1, <2>2, StreamIds DEF Stream
  <2>4. Stream = <<Head(backlog)>> \o (Tail(backlog) \o slot \o inbox)
    BY <1>3, <1>7, StreamIds DEF Stream
  <2>5. Tail(backlog) \o slot \o inbox \in Seq(InFrames)
    BY <2>1, StreamIds
  <2> QED
    BY <1>6, <2>1, <2>2, <2>3, <2>4, <2>5
<1>8. CASE backlog = <<>> /\ slot # <<>> /\ Handle(Head(slot), <<>>) /\ slot' = <<>>
  <2>1. /\ Head(slot) \in InFrames /\ slot = <<Head(slot)>> \o Tail(slot)
        /\ Tail(slot) = <<>>
    <3>1. slot \in Seq(InFrames) /\ Len(slot) <= 1
      BY SessionSeqs
    <3> QED
      BY <1>8, <3>1
  <2>2. /\ \/ cur' = Head(slot) /\ Head(slot).kind \in {"msg", "reflected"}
           \/ cur' = cur /\ Head(slot).kind \notin {"msg", "reflected"}
        /\ backlog' = <<>> /\ held' = <<>>
    BY <1>3, <1>8 DEF Handle, Start, runVars
  <2>3. Stream' = inbox
    BY <1>1, <1>8, <2>2, StreamIds DEF Stream
  <2>4. Stream = <<Head(slot)>> \o inbox
    <3>1. Stream = (<<Head(slot)>> \o Tail(slot)) \o inbox
      <4>1. \A q \in Seq(InFrames) : <<>> \o <<>> \o q = q
        OBVIOUS
      <4>2. Stream = slot \o inbox
        BY <1>3, <1>8, <4>1, StreamIds, Zenon DEF Stream
      <4> QED
        BY <2>1, <4>2, Zenon
    <3>2. <<Head(slot)>> \o <<>> = <<Head(slot)>>
      OBVIOUS
    <3> QED
      BY <2>1, <3>1, <3>2, Zenon
  <2> QED
    BY <1>6, <2>1, <2>2, <2>3, <2>4, StreamIds
<1> QED
  BY <1>7, <1>8, Zenon DEF PickInbound

\* A message was processed: from the hand to the processed ones.
LEMMA OrderFinish ==
    ASSUME TypeOK, HeldInv, WroteInStep, InboundInOrder, Finish
    PROVE  InboundInOrder'
<1> SUFFICES ASSUME inner' = "connected", ~queueErr', cur'.kind # "drop"
             PROVE  pushed' = processed' \o AtHand' \o MsgIds(Stream')
  BY OrderMeans, Zenon
<1>1. ~(backlogErr \/ cur.kind = "drop")
  BY Zenon DEF Finish, Exit
<1>2. /\ backlog' = held \o backlog /\ held' = <<>> /\ cur' = NoTask
      /\ processed' = IF cur.kind = "msg" THEN Append(processed, cur.id) ELSE processed
      /\ UNCHANGED <<inner, queueErr, slot, inbox, pushed>>
  BY <1>1, Zenon DEF Finish, Remaining
<1>3. ~wrote
  <2>1. pc > Len(Steps(cur)) /\ pc \in Nat
    BY DEF Finish, TypeOK, RunTypes
  <2>2. Steps(cur) \in Seq(MsgSteps)
    BY StepsTyped DEF TypeOK, RunTypes
  <2>3. pc \notin DOMAIN Steps(cur)
    BY <2>1, <2>2
  <2> QED
    BY <2>3 DEF WroteInStep
<1>4. held = <<>> \/ backlog = <<>>
  BY <1>2, <1>3 DEF HeldInv, HeldWhileReading
<1>5. Stream' = Stream
  <2>1. held \o backlog = backlog \o held
    <3>1. \A q \in Seq(InFrames) : q \o <<>> = <<>> \o q
      OBVIOUS
    <3> QED
      BY <1>4, <3>1, StreamIds, Zenon
  <2>2. (backlog \o held) \o <<>> = backlog \o held
    BY StreamIds
  <2> QED
    BY <1>2, <2>1, <2>2, Zenon DEF Stream
<1>6. AtHand' = <<>>
  BY <1>2 DEF AtHand, NoTask, Frame
<1>7. pushed = processed \o AtHand \o MsgIds(Stream)
  BY <1>1, <1>2, OrderMeans, Zenon
<1>8. processed' = processed \o AtHand
  <2>1. CASE cur.kind = "msg"
    <3>1. cur.id \in Msgs
      BY <2>1, RunningKinds DEF TypeOK, RunTypes
    <3>2. Append(processed, cur.id) = processed \o <<cur.id>>
      BY <3>1, StreamIds
    <3> QED
      BY <1>2, <2>1, <3>2, Zenon DEF AtHand
  <2>2. CASE cur.kind # "msg"
    <3>1. processed \o <<>> = processed
      BY StreamIds
    <3> QED
      BY <1>2, <2>2, <3>1, Zenon DEF AtHand
  <2> QED
    BY <2>1, <2>2
<1>9. (processed \o AtHand) \o <<>> = processed \o AtHand
  BY StreamIds
<1> QED
  BY <1>2, <1>5, <1>6, <1>7, <1>8, <1>9, Zenon

\* A task that reads moves messages to its own backlog.
LEMMA OrderRead ==
    ASSUME TypeOK, BacklogInv, InboundInOrder, Read
    PROVE  InboundInOrder'
<1>1. /\ UNCHANGED <<inner, queueErr, cur, pushed, processed, inbox>>
      /\ AtHand' = AtHand
  BY Zenon DEF Read, queueVars, serverVars, AtHand
<1> SUFFICES MsgIds(Stream') = MsgIds(Stream)
  BY <1>1, OrderCalm, Zenon
<1>2. Answer.kind # "msg"
  BY DEF Answer, Frame
<1>3. ASSUME NEW f \in InFrames, f.kind = "msg", Receive(f)
      PROVE  backlog' = Append(backlog, f)
  BY <1>2, <1>3, Zenon DEF Receive, Accepts, Backlogged
<1>4. ASSUME NEW f \in InFrames, f.kind # "msg", Receive(f)
      PROVE  backlog' = backlog
  BY <1>4, Zenon DEF Receive, Accepted
<1>5. CASE held # <<>> /\ Receive(Head(held)) /\ held' = Tail(held) /\ UNCHANGED slot
  <2>1. Head(held) \in InFrames /\ Head(held).kind = "msg"
    BY <1>5, StreamIds DEF BacklogInv, OnlyMessages
  <2>2. backlog' = Append(backlog, Head(held))
    BY <1>3, <1>5, <2>1
  <2>3. backlog' \o held' = backlog \o held
    <3>1. Append(backlog, Head(held)) \o Tail(held) = backlog \o held
      BY <1>5, <2>1, StreamIds, ConcatMoves
    <3> QED
      BY <1>5, <2>2, <3>1, Zenon
  <2> QED
    BY <1>1, <1>5, <2>3, Zenon DEF Stream
<1>6. CASE held = <<>> /\ slot # <<>> /\ Receive(Head(slot)) /\ slot' = <<>> /\ UNCHANGED held
  <2>1. /\ Head(slot) \in InFrames /\ slot = <<Head(slot)>> \o Tail(slot)
        /\ Tail(slot) = <<>>
    <3>1. slot \in Seq(InFrames) /\ Len(slot) <= 1
      BY SessionSeqs
    <3> QED
      BY <1>6, <3>1
  <2>2. slot = <<Head(slot)>>
    <3>1. <<Head(slot)>> \o <<>> = <<Head(slot)>>
      OBVIOUS
    <3> QED
      BY <2>1, <3>1, Zenon
  <2>3. backlog \o <<>> = backlog /\ backlog \in Seq(InFrames) /\ inbox \in Seq(InFrames)
    BY StreamIds
  <2>4. Stream = (backlog \o slot) \o inbox
    BY <1>6, <2>3, Zenon DEF Stream
  <2>5. CASE Head(slot).kind = "msg"
    <3>1. backlog' = Append(backlog, Head(slot))
      BY <1>3, <1>6, <2>1, <2>5
    <3>2. Append(backlog, Head(slot)) = backlog \o <<Head(slot)>>
      BY <2>1, <2>3
    <3>3. (backlog' \o <<>>) \o <<>> = backlog'
      BY <2>1, <2>3, <3>1
    <3>4. Stream' = backlog' \o inbox
      BY <1>1, <1>6, <3>3, Zenon DEF Stream
    <3> QED
      BY <2>2, <2>4, <3>1, <3>2, <3>4, Zenon
  <2>6. CASE Head(slot).kind # "msg"
    <3>1. backlog' = backlog
      BY <1>4, <1>6, <2>1, <2>6
    <3>2. Stream' = backlog \o inbox
      BY <1>1, <1>6, <2>3, <3>1, Zenon DEF Stream
    <3> DEFINE f == Head(slot)
               rest == <<f>> \o inbox
    <3>3. f \in InFrames /\ rest \in Seq(InFrames)
      BY <2>1, <2>3
    <3>4. (backlog \o <<f>>) \o inbox = backlog \o rest
      BY <2>1, <2>3
    <3>5. MsgIds(rest) = MsgIds(inbox)
      BY <2>1, <2>3, <2>6, StreamHead
    <3>6. Stream = backlog \o rest
      BY <2>2, <2>4, <3>4, Zenon
    <3> HIDE DEF rest, f
    <3>7. MsgIds(backlog \o rest) = MsgIds(backlog) \o MsgIds(rest)
      BY <2>3, <3>3, MsgIdsConcat
    <3>8. MsgIds(backlog \o inbox) = MsgIds(backlog) \o MsgIds(inbox)
      BY <2>3, MsgIdsConcat
    <3> QED
      BY <3>2, <3>5, <3>6, <3>7, <3>8, Zenon
  <2> QED
    BY <2>5, <2>6
<1> QED
  BY <1>5, <1>6, Zenon DEF Read

\* The server sends a message.
LEMMA OrderPush == ASSUME TypeOK, InboundInOrder, PushMsg PROVE InboundInOrder'
<1> SUFFICES ASSUME inner' = "connected", ~queueErr', cur'.kind # "drop"
             PROVE  pushed' = processed' \o AtHand' \o MsgIds(Stream')
  BY OrderMeans, Zenon
<1>1. PICK m \in Msgs : pushed' = Append(pushed, m) /\ inbox' = Append(inbox, Frame("msg", m))
  BY Zenon DEF PushMsg
<1>2. /\ UNCHANGED <<inner, queueErr, cur, processed, backlog, held, slot>>
      /\ AtHand' = AtHand
  BY Zenon DEF PushMsg, queueVars, runVars, AtHand
<1> DEFINE f == Frame("msg", m)
<1>3. f \in InFrames /\ f.kind = "msg" /\ f.id = m
  BY FramesTyped DEF Frame
<1> HIDE DEF f
<1>4. Stream' = Append(Stream, f)
  <2> DEFINE p == backlog \o held \o slot
  <2>1. p \in Seq(InFrames)
    BY StreamIds
  <2> HIDE DEF p
  <2>2. p \o Append(inbox, f) = Append(p \o inbox, f)
    BY <1>3, <2>1, StreamIds, ConcatMoves
  <2>3. inbox' = Append(inbox, f) /\ Stream = p \o inbox /\ Stream' = p \o inbox'
    BY <1>1, <1>2, Zenon DEF f, p, Stream
  <2> QED
    BY <2>2, <2>3, Zenon
<1>5. MsgIds(Stream') = Append(MsgIds(Stream), m)
  BY <1>3, <1>4, StreamIds
<1>6. pushed = (processed \o AtHand) \o MsgIds(Stream)
  BY <1>2, OrderMeans, Zenon
<1>7. Append((processed \o AtHand) \o MsgIds(Stream), m)
          = (processed \o AtHand) \o Append(MsgIds(Stream), m)
  <2> DEFINE p == processed \o AtHand
             q == MsgIds(Stream)
  <2>1. p \in Seq(Msgs) /\ q \in Seq(Msgs)
    BY StreamIds
  <2> HIDE DEF p, q
  <2>2. p \o Append(q, m) = Append(p \o q, m)
    BY <2>1, ConcatMoves
  <2> QED
    BY <2>2 DEF p, q
<1> QED
  BY <1>1, <1>2, <1>5, <1>6, <1>7, Zenon

\* The other steps
LEMMA OrderRest ==
    ASSUME TypeOK, HeldInv, InboundInOrder,
           \/ Connect
           \/ Disconnect
           \/ PickTask
           \/ Write
           \/ Fail
    PROVE  InboundInOrder'
<1>1. Connect => InboundInOrder'
  <2> SUFFICES ASSUME Connect PROVE InboundInOrder'
    OBVIOUS
  <2>1. /\ pushed' = <<>> /\ processed' = <<>> /\ cur' = NoTask
        /\ backlog' = <<>> /\ held' = <<>> /\ slot' = <<>> /\ inbox' = <<>>
    BY Zenon DEF Connect
  <2>2. <<>> \o <<>> = <<>>
    OBVIOUS
  <2>3. AtHand' = <<>>
    BY <2>1 DEF AtHand, NoTask, Frame
  <2>4. Stream' = <<>>
    BY <2>1, <2>2, Zenon DEF Stream
  <2>5. MsgIds(<<>>) = <<>>
    <3>1. FilterSeq(<<>>, MsgFrames) = <<>>
      <4> DEFINE y == <<>>
      <4>1. y \in Seq(InFrames) /\ \A i \in DOMAIN y : y[i] \notin MsgFrames
        OBVIOUS
      <4> HIDE DEF y
      <4>2. FilterSeq(y, MsgFrames) = <<>>
        BY <4>1, FilterNone
      <4> QED
        BY <4>2 DEF y
    <3>2. MsgIds(<<>>) = Ids(FilterSeq(<<>>, MsgFrames))
      BY DEF MsgIds, MsgFrames, Ids
    <3>3. Ids(<<>>) = <<>>
      BY DEF Ids
    <3> QED
      BY <3>1, <3>2, <3>3, Zenon
  <2> QED
    BY <2>1, <2>2, <2>3, <2>4, <2>5, OrderMeans, Zenon
<1>2. Disconnect => InboundInOrder'
  <2>1. Disconnect => inner' # "connected"
    BY DEF Disconnect
  <2> QED
    BY <2>1, OrderMeans, Zenon
<1>3. PickTask => InboundInOrder'
  <2> SUFFICES ASSUME PickTask, ~queueErr PROVE InboundInOrder'
    <3>1. PickTask => queueErr' = queueErr
      BY DEF PickTask
    <3> QED
      BY <3>1, OrderMeans, Zenon
  <2>1. loop = "next" /\ held' = backlog /\ backlog' = <<>> /\ cur'.kind = "active"
        /\ UNCHANGED <<inner, queueErr, slot, inbox, pushed, processed>>
    BY DEF PickTask, Start, Frame, queueVars, serverVars
  <2>2. cur = NoTask /\ held = <<>>
    BY <2>1 DEF TypeOK, RunTypes, HeldInv, HeldByTask
  <2>3. AtHand' = AtHand /\ cur.kind # "drop"
    BY <2>1, <2>2 DEF AtHand, NoTask, Frame
  <2>4. backlog \o <<>> = backlog /\ <<>> \o backlog = backlog
    BY StreamIds
  <2>5. Stream' = Stream
    BY <2>1, <2>2, <2>4, Zenon DEF Stream
  <2> QED
    BY <2>1, <2>3, <2>5, OrderCalm, Zenon
<1>4. Write => InboundInOrder'
  <2> SUFFICES ASSUME Write PROVE InboundInOrder'
    OBVIOUS
  <2>1. UNCHANGED <<inner, queueErr, cur, backlog, held, slot, inbox, pushed, processed>>
    BY DEF Write, queueVars, serverVars
  <2> QED
    BY <2>1, OrderCalm, Zenon DEF AtHand, Stream
<1>5. Fail => InboundInOrder'
  <2> SUFFICES ASSUME Fail PROVE InboundInOrder'
    OBVIOUS
  <2>1. UNCHANGED <<inner, pushed, processed>>
    BY DEF Fail, serverVars
  <2>2. CASE Exit
    BY <2>1, <2>2, ErroredKeeps DEF Exit, Errored
  <2>3. CASE Start(DropDevice, backlog) /\ UNCHANGED queueErr
    <3>1. cur'.kind = "drop"
      BY <2>3 DEF Start, DropDevice, Frame
    <3> QED
      BY <3>1, OrderMeans, Zenon
  <2> QED
    BY <2>2, <2>3 DEF Fail
<1> QED
  BY <1>1, <1>2, <1>3, <1>4, <1>5

\* HeldInv and InboundInOrder together are inductive.
LEMMA OrderStep ==
    ASSUME TypeOK, BacklogInv, WroteInStep, HeldInv, InboundInOrder, [Next]_vars
    PROVE  HeldInv' /\ InboundInOrder'
<1>1. CASE Next
  <2>1. HeldInv'
    BY <1>1, HeldStep
  <2>2. InboundInOrder'
    BY <1>1, UnheardSteps, OrderUnheard, ErroredSteps, ErroredKeeps, OrderPickInbound, OrderFinish,
       OrderRead, OrderPush, OrderRest, Zenon
       DEF Next, RunLoop, OldLoops, Bypasses, Pipeline, Reconnect
  <2> QED
    BY <2>1, <2>2
<1>2. CASE UNCHANGED vars
  <2>1. UNCHANGED <<inner, queueErr, cur, loop, wrote, backlog, held, slot, inbox, pushed,
                    processed>>
    BY <1>2 DEF vars, sessionVars, runVars, queueVars, serverVars
  <2>2. AtHand' = AtHand /\ Stream' = Stream
    BY <2>1 DEF AtHand, Stream
  <2> QED
    BY <2>1, <2>2, OrderCalm, Zenon DEF HeldInv, HeldByTask, HeldWhileReading
<1> QED
  BY <1>1, <1>2

\* While the connection is up, the messages processed, the one at hand and those
\* waiting in the backlogs, the decoder queue and the pipeline are what the
\* server sent, in its order, whichever tasks read in between.
THEOREM InboundOrdered == Spec => []InboundInOrder
<1>1. Init => HeldInv /\ InboundInOrder
  <2>1. Init => HeldInv
    BY DEF Init, EmptySession, HeldInv, HeldByTask, HeldWhileReading
  <2>2. Init => InboundInOrder
    <3>1. Init => inner # "connected"
      BY DEF Init
    <3> QED
      BY <3>1, OrderMeans, Zenon
  <2> QED
    BY <2>1, <2>2
<1>2. ServedInv => WroteInStep
  BY DEF ServedInv
<1>3. TypeOK /\ BacklogInv /\ ServedInv /\ (HeldInv /\ InboundInOrder) /\ [Next]_vars
          => (HeldInv /\ InboundInOrder)'
  BY <1>2, OrderStep
<1> QED
  BY <1>1, <1>3, TypeCorrect, BacklogAlways, ServedAlways, PTL DEF Spec
===============================================================================
