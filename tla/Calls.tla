--------------------------------- MODULE Calls ---------------------------------
(***************************************************************************)
(* One-to-one calls between two devices that run the same manager          *)
(* (call/o2o-call.ts), with the tasks that carry its signalling            *)
(* (task/csp/outgoing-call-*.ts, incoming-call-*.ts) and the one WebRTC    *)
(* context of a device (dom/webrtc/o2o-call.ts). A device runs one task at *)
(* a time, an outgoing one or that of an incoming message. The lock that   *)
(* `call` and `handleIncomingOffer` share, the TURN request, the context   *)
(* and its microphone, and the tasks are awaited: the user, the peer,      *)
(* timers and the connection come between any two of them.                 *)
(*                                                                         *)
(* A message is handled once: its nonce is guarded while its task runs,    *)
(* and that task goes on when the connection is lost. The peer is a known  *)
(* contact. Of the candidates, the model has the first one of the caller.  *)
(* `call-ringing` only changes a label and is left out.                    *)
(***************************************************************************)
EXTENDS Naturals, Sequences

CONSTANTS
    Devices, Calls,
    Caller,             \* the device that places a call
    Gathering,          \* calls with a candidate of their caller
    Idle,               \* no active task
    MaxLosses,          \* bound: lost connections and expired messages
    MaxDemotions,       \* bound: devices that stop being the leader
    MaxFlaps            \* bound: interruptions of an established call

ASSUME CallsAssumption ==
    /\ \E d, e \in Devices : d # e /\ Devices = {d, e}
    /\ Caller \in [Calls -> Devices] /\ Gathering \subseteq Calls
    /\ Idle \notin [stage : {"waiting", "applying", "sent"},
                    msg : [kind : {"OFFER", "CANDIDATE", "ACCEPT", "REJECT", "HANGUP"},
                           call : Calls]]
    /\ MaxLosses \in Nat /\ MaxDemotions \in Nat /\ MaxFlaps \in Nat

VARIABLES
    status,     \* of a call on a device, see O2oCallState
    timer,      \* calls that a ringing timeout is armed for
    grace,      \* calls that a reconnect timeout is armed for
    step,       \* what `call` or `accept` awaits
    lock,       \* the executors of the call lock, the head runs
    dom,        \* the WebRTC context of a call: opened, with a microphone
    aborted,    \* contexts that were aborted
    remote,     \* its remote description
    candidate,  \* what became of the caller's first candidate
    reported,   \* failures of a context, on their way to its manager
    tasks,      \* outgoing tasks in the queue
    running,    \* the active task
    wire,       \* messages on their way to a device
    leads,      \* devices with the authority to originate messages
    losses, demotions, flaps

manager == <<status, timer, grace, step, lock>>
context == <<dom, aborted, remote, candidate, reported>>
network == <<tasks, running, wire>>
bounds == <<losses, demotions, flaps>>
vars == <<manager, context, network, leads, bounds>>

Callee(c) == CHOOSE d \in Devices : d # Caller[c]
Peer(d) == CHOOSE e \in Devices : e # d
Both == Devices \X Calls

Ringing == {"ringing-out", "ringing-in"}
InCall == {"connecting", "connected", "reconnecting"}
Steps == {"idle", "lock", "turn", "create", "media", "task", "done"}
Kinds == {"OFFER", "CANDIDATE", "ACCEPT", "REJECT", "HANGUP"}
Messages == [kind : Kinds, call : Calls]
Stages == {"waiting", "applying", "sent"}

Init ==
    /\ status = [p \in Both |-> "idle"]
    /\ timer = {} /\ grace = {}
    /\ step = [p \in Both |-> "idle"]
    /\ lock = [d \in Devices |-> <<>>]
    /\ dom = [p \in Both |-> "none"] /\ aborted = {}
    /\ remote = [p \in Both |-> "none"]
    /\ candidate = [c \in Calls |-> "none"] /\ reported = {}
    /\ tasks = [d \in Devices |-> <<>>]
    /\ running = [d \in Devices |-> Idle]
    /\ wire = [d \in Devices |-> <<>>]
    /\ leads = Devices
    /\ losses = 0 /\ demotions = 0 /\ flaps = 0

\* The manager's `_active`: registered, and not aborted
Live(d, c) == status[<<d, c>>] \in Ringing \cup InCall
Busy(d) == \E c \in Calls : Live(d, c)

-----------------------------------------------------------------------------
\* Helpers

Msg(kind, c) == [kind |-> kind, call |-> c]
Become(d, c, s) == status' = [status EXCEPT ![<<d, c>>] = s]
Disarm(d, c) == timer' = timer \ {<<d, c>>}
Goto(d, c, s) == step' = [step EXCEPT ![<<d, c>>] = s]
Schedule(d, m) == tasks' = [tasks EXCEPT ![d] = Append(@, m)]

\* _endCall, and the timers that its abort clears. The context hears of the
\* abort later, see Teardown.
EndCall(d, c) ==
    /\ Become(d, c, IF Live(d, c) THEN "ended" ELSE status[<<d, c>>])
    /\ IF Live(d, c) THEN Disarm(d, c) /\ grace' = grace \ {<<d, c>>}
                     ELSE UNCHANGED <<timer, grace>>

\* `call` leaves the executor of its lock, `accept` has none.
Leave(d, c) ==
    /\ Goto(d, c, "done")
    /\ lock' = IF d = Caller[c] THEN [lock EXCEPT ![d] = Tail(@)] ELSE lock

\* The catch block of `call` and of `_accept`
Fail(d, c) == EndCall(d, c) /\ Leave(d, c)

-----------------------------------------------------------------------------
\* The user places, answers and ends a call

Place(d, c) ==
    /\ d = Caller[c] /\ step[<<d, c>>] = "idle" /\ d \in leads
    /\ Goto(d, c, "lock")
    /\ lock' = [lock EXCEPT ![d] = Append(@, <<"call", c>>)]
    /\ UNCHANGED <<status, timer, grace, context, network, leads, bounds>>

\* The executor of `call` starts: with another call it throws.
Register(d, c) ==
    /\ step[<<d, c>>] = "lock" /\ Head(lock[d]) = <<"call", c>>
    /\ IF Busy(d) \/ d \notin leads
       THEN Leave(d, c) /\ UNCHANGED status
       ELSE Become(d, c, "ringing-out") /\ Goto(d, c, "turn") /\ UNCHANGED lock
    /\ UNCHANGED <<timer, grace, context, network, leads, bounds>>

\* _accept: the pending offer is taken once.
Accept(d, c) ==
    /\ status[<<d, c>>] = "ringing-in" /\ step[<<d, c>>] = "idle" /\ d \in leads
    /\ Goto(d, c, "turn")
    /\ Disarm(d, c)
    /\ UNCHANGED <<status, grace, lock, context, network, leads, bounds>>

\* _hangup: ends first, then awaits the signalling.
Hangup(d, c) ==
    /\ Live(d, c)
    /\ EndCall(d, c)
    /\ IF status[<<d, c>>] = "ringing-in" \/ d \in leads
       THEN Schedule(d, Msg(IF status[<<d, c>>] = "ringing-in" THEN "REJECT" ELSE "HANGUP", c))
       ELSE UNCHANGED tasks
    /\ UNCHANGED <<step, lock, context, running, wire, leads, bounds>>

-----------------------------------------------------------------------------
\* What `call` and `accept` have in common

\* The credentials of the TURN server. `accept` updates the state, which
\* throws for an ended call; `call` goes on for one.
Turn(d, c) ==
    /\ step[<<d, c>>] = "turn"
    /\ IF d \notin leads \/ (d # Caller[c] /\ ~Live(d, c)) THEN Fail(d, c)
       ELSE /\ IF d = Caller[c] THEN UNCHANGED status ELSE Become(d, c, "connecting")
            /\ Goto(d, c, "create") /\ UNCHANGED <<timer, grace, lock>>
    /\ UNCHANGED <<context, network, leads, bounds>>

TurnFails(d, c) ==
    /\ step[<<d, c>>] = "turn"
    /\ Fail(d, c)
    /\ UNCHANGED <<context, network, leads, bounds>>

\* createO2oCallContext throws while there is another context. A context
\* whose call has ended meanwhile is closed.
Create(d, c) ==
    /\ step[<<d, c>>] = "create"
    /\ IF \E e \in Calls : dom[<<d, e>>] # "none" THEN Fail(d, c) /\ UNCHANGED <<dom, aborted>>
       ELSE IF ~Live(d, c)
       THEN /\ Leave(d, c) /\ aborted' = aborted \cup {<<d, c>>}
            /\ UNCHANGED <<status, timer, grace, dom>>
       ELSE /\ Goto(d, c, "media") /\ dom' = [dom EXCEPT ![<<d, c>>] = "open"]
            /\ UNCHANGED <<status, timer, grace, lock, aborted>>
    /\ UNCHANGED <<remote, candidate, reported, network, leads, bounds>>

\* The context's share of setRemoteDescription: candidates in its cache are
\* added.
Described(d, c) ==
    /\ remote' = [remote EXCEPT ![<<d, c>>] = "set"]
    /\ candidate' = [candidate EXCEPT ![c] = IF d = Callee(c) /\ @ = "cached" THEN "added" ELSE @]

\* Mutant: a capture that resolves after the abort is used.
CaptureLate(d, c) ==
    /\ step[<<d, c>>] = "media" /\ (dom[<<d, c>>] = "open" \/ <<d, c>> \in aborted)
    /\ dom' = [dom EXCEPT ![<<d, c>>] = "live"]
    /\ IF d = Caller[c] THEN UNCHANGED <<remote, candidate>> ELSE Described(d, c)
    /\ UNCHANGED <<manager, aborted, reported, network, leads, bounds>>

\* _ensurePeerConnection captured the microphone; the answerer also sets
\* the offer. What is captured after the abort is released, see CaptureFails.
Capture(d, c) ==
    /\ step[<<d, c>>] = "media" /\ dom[<<d, c>>] = "open"
    /\ dom' = [dom EXCEPT ![<<d, c>>] = "live"]
    /\ IF d = Caller[c] THEN UNCHANGED <<remote, candidate>> ELSE Described(d, c)
    /\ UNCHANGED <<manager, aborted, reported, network, leads, bounds>>

\* The microphone is denied, the context was aborted, or WebRTC fails.
CaptureFails(d, c) ==
    /\ step[<<d, c>>] = "media"
    /\ Fail(d, c)
    /\ UNCHANGED <<context, network, leads, bounds>>

\* Mutant: candidates that arrived before the context are not flushed.
SetUpUnflushed(d, c) ==
    /\ step[<<d, c>>] = "media" /\ dom[<<d, c>>] = "live"
    /\ Schedule(d, Msg(IF d = Caller[c] THEN "OFFER" ELSE "ACCEPT", c))
    /\ Goto(d, c, "task")
    /\ UNCHANGED <<status, timer, grace, lock, context, running, wire, leads, bounds>>

\* The offer or the answer is there; the answerer adds the candidates that
\* arrived before its context.
SetUp(d, c) ==
    /\ step[<<d, c>>] = "media" /\ dom[<<d, c>>] = "live"
    /\ Schedule(d, Msg(IF d = Caller[c] THEN "OFFER" ELSE "ACCEPT", c))
    /\ candidate' = [candidate EXCEPT ![c] = IF d = Callee(c) /\ @ = "buffered" THEN "added" ELSE @]
    /\ Goto(d, c, "task")
    /\ UNCHANGED <<status, timer, grace, lock, dom, aborted, remote, reported, running, wire>>
    /\ UNCHANGED <<leads, bounds>>

\* handleLocalIceCandidate: as soon as the peer connection gathers.
Trickle(c) ==
    LET d == Caller[c] IN
    /\ c \in Gathering /\ candidate[c] = "none" /\ dom[<<d, c>>] = "live" /\ Live(d, c) /\ d \in leads
    /\ candidate' = [candidate EXCEPT ![c] = "scheduled"]
    /\ Schedule(d, Msg("CANDIDATE", c))
    /\ UNCHANGED <<manager, dom, aborted, remote, reported, running, wire, leads, bounds>>

\* The context is aborted, once. A description that is being applied fails
\* later.
Close(d, c) ==
    /\ aborted' = aborted \cup {<<d, c>>}
    /\ dom' = [dom EXCEPT ![<<d, c>>] = "none"]
    /\ remote' = [remote EXCEPT ![<<d, c>>] = IF @ = "set" THEN "none" ELSE @]

\* The abort of a call reaches its context.
Teardown(d, c) ==
    /\ dom[<<d, c>>] # "none" /\ <<d, c>> \notin aborted /\ ~Live(d, c)
    /\ Close(d, c)
    /\ UNCHANGED <<manager, candidate, reported, network, leads, bounds>>

-----------------------------------------------------------------------------
\* Outgoing tasks

\* The preconditions of the tasks: the call is still in the state that the
\* message was made for. A reject needs no authority.
Wanted(d, m) ==
    CASE m.kind = "OFFER" -> d \in leads /\ status[<<d, m.call>>] = "ringing-out"
      [] m.kind = "ACCEPT" -> d \in leads /\ status[<<d, m.call>>] = "connecting"
      [] m.kind = "CANDIDATE" -> d \in leads /\ Live(d, m.call)
      [] m.kind = "HANGUP" -> d \in leads
      [] OTHER -> TRUE

\* Mutant: a task does not evaluate its precondition.
SendUnwanted(d) ==
    /\ running[d] = Idle /\ tasks[d] # <<>>
    /\ running' = [running EXCEPT ![d] = [stage |-> "sent", msg |-> Head(tasks[d])]]
    /\ tasks' = [tasks EXCEPT ![d] = Tail(@)]
    /\ wire' = [wire EXCEPT ![Peer(d)] = Append(@, Head(tasks[d]))]
    /\ UNCHANGED <<manager, context, leads, bounds>>

\* The precondition is evaluated when the task starts, and again for every
\* message before it is written: the last evaluation decides.
Send(d) ==
    /\ running[d] = Idle /\ tasks[d] # <<>>
    /\ running' = [running EXCEPT ![d] = [stage |-> "sent", msg |-> Head(tasks[d])]]
    /\ tasks' = [tasks EXCEPT ![d] = Tail(@)]
    /\ wire' = IF Wanted(d, Head(tasks[d]))
               THEN [wire EXCEPT ![Peer(d)] = Append(@, Head(tasks[d]))] ELSE wire
    /\ UNCHANGED <<manager, context, leads, bounds>>

\* The task is done, and `call` or `accept` goes on with its result: sent,
\* discarded, or denied to a follower.
FinishTask(d) ==
    /\ running[d] # Idle /\ running[d].stage = "sent"
    /\ running' = [running EXCEPT ![d] = Idle]
    /\ LET m == running[d].msg
           c == m.call
           awaited == m.kind \in {"OFFER", "ACCEPT"} /\ step[<<d, c>>] = "task" IN
       \/ /\ ~awaited
          /\ UNCHANGED manager
       \/ /\ awaited /\ d \in leads
          /\ timer' = IF m.kind = "OFFER" /\ Wanted(d, m) THEN timer \cup {<<d, c>>} ELSE timer
          /\ Leave(d, c) /\ UNCHANGED <<status, grace>>
       \/ /\ awaited /\ d \notin leads
          /\ Fail(d, c)
    /\ UNCHANGED <<context, tasks, wire, leads, bounds>>

-----------------------------------------------------------------------------
\* Incoming messages

\* The next message of a device, whose task is done when `stage` is Idle
Receive(d, kind, stage) ==
    /\ running[d] = Idle /\ wire[d] # <<>> /\ Head(wire[d]).kind = kind
    /\ wire' = [wire EXCEPT ![d] = Tail(@)]
    /\ running' = IF stage = Idle THEN running
                  ELSE [running EXCEPT ![d] = [stage |-> stage, msg |-> Head(wire[d])]]

\* An offer is discarded by a follower, and rejected while calls are
\* disabled.
OfferRefused(d) ==
    /\ Receive(d, "OFFER", Idle)
    /\ IF d \in leads THEN Schedule(d, Msg("REJECT", Head(wire[d]).call)) ELSE UNCHANGED tasks
    /\ UNCHANGED <<manager, context, leads, bounds>>

\* The task of an offer waits for the call lock.
OfferArrives(d) ==
    /\ Receive(d, "OFFER", "waiting")
    /\ d \in leads
    /\ lock' = [lock EXCEPT ![d] = Append(@, <<"offer", Head(wire[d]).call>>)]
    /\ UNCHANGED <<status, timer, grace, step, context, tasks, leads, bounds>>

Ring(d, c) ==
    /\ Become(d, c, "ringing-in")
    /\ timer' = timer \cup {<<d, c>>}

\* Mutant: a second call is not turned away.
OfferGlares(d) ==
    /\ lock[d] # <<>> /\ Head(lock[d])[1] = "offer"
    /\ lock' = [lock EXCEPT ![d] = Tail(@)]
    /\ running' = IF running[d] # Idle /\ running[d].stage = "waiting"
                  THEN [running EXCEPT ![d] = Idle] ELSE running
    /\ LET c == Head(lock[d])[2] IN
       IF d \notin leads THEN UNCHANGED <<status, timer>> ELSE Ring(d, c)
    /\ UNCHANGED <<grace, step, context, tasks, wire, leads, bounds>>

\* handleIncomingOffer in the lock, on this connection or after it
Offer(d) ==
    /\ lock[d] # <<>> /\ Head(lock[d])[1] = "offer"
    /\ lock' = [lock EXCEPT ![d] = Tail(@)]
    /\ running' = IF running[d] # Idle /\ running[d].stage = "waiting"
                  THEN [running EXCEPT ![d] = Idle] ELSE running
    /\ LET c == Head(lock[d])[2] IN
       CASE d \notin leads -> UNCHANGED <<status, timer, tasks>>
         [] d \in leads /\ Busy(d) ->
              Schedule(d, Msg("REJECT", c)) /\ UNCHANGED <<status, timer>>
         [] OTHER -> Ring(d, c) /\ UNCHANGED tasks
    /\ UNCHANGED <<grace, step, context, wire, leads, bounds>>

\* Only a caller that rings and has a context takes an answer.
Answerable(d, c) == status[<<d, c>>] = "ringing-out" /\ step[<<d, c>>] \in {"media", "task", "done"}

Reject(d) ==
    /\ Receive(d, "REJECT", Idle)
    /\ LET c == Head(wire[d]).call IN
       IF Answerable(d, c) THEN EndCall(d, c) ELSE UNCHANGED <<status, timer, grace>>
    /\ UNCHANGED <<step, lock, context, tasks, leads, bounds>>

\* The task waits until the answer is applied.
Answer(d) ==
    LET c == Head(wire[d]).call IN
    /\ IF wire[d] # <<>> /\ Answerable(d, c)
       THEN /\ Receive(d, "ACCEPT", "applying")
            /\ Become(d, c, "connecting") /\ Disarm(d, c)
            /\ remote' = [remote EXCEPT ![<<d, c>>] = "applying"]
       ELSE /\ Receive(d, "ACCEPT", Idle)
            /\ UNCHANGED <<status, timer, remote>>
    /\ UNCHANGED <<grace, step, lock, dom, aborted, candidate, reported, tasks, leads, bounds>>

Applies(d, c) == running[d] # Idle /\ running[d].stage = "applying" /\ running[d].msg.call = c

\* setRemoteDescription of the answer returns, or throws on a closed context.
Applied(d, c) ==
    /\ remote[<<d, c>>] = "applying"
    /\ \/ dom[<<d, c>>] = "live" /\ Described(d, c) /\ UNCHANGED <<status, timer, grace>>
       \/ /\ EndCall(d, c)
          /\ remote' = [remote EXCEPT ![<<d, c>>] = "none"] /\ UNCHANGED candidate
    /\ running' = IF Applies(d, c) THEN [running EXCEPT ![d] = Idle] ELSE running
    /\ UNCHANGED <<step, lock, dom, aborted, reported, tasks, wire, leads, bounds>>

\* handleIncomingIceCandidates, and the cache of the context behind it
Candidate(d) ==
    /\ Receive(d, "CANDIDATE", Idle)
    /\ LET c == Head(wire[d]).call IN
       candidate' = [candidate EXCEPT ![c] =
           CASE ~Live(d, c) -> "ignored"
             [] Live(d, c) /\ step[<<d, c>>] \in {"idle", "turn", "create"} -> "buffered"
             [] Live(d, c) /\ step[<<d, c>>] \in {"media", "task", "done"} ->
                  IF remote[<<d, c>>] = "set" THEN "added" ELSE "cached"]
    /\ UNCHANGED <<manager, dom, aborted, remote, reported, tasks, leads, bounds>>

HangupArrives(d) ==
    /\ Receive(d, "HANGUP", Idle)
    /\ EndCall(d, Head(wire[d]).call)
    /\ UNCHANGED <<step, lock, context, tasks, leads, bounds>>

-----------------------------------------------------------------------------
\* Timers and reports of the peer connection

\* The callee rejects, the caller hangs up.
RingingTimeout(d, c) ==
    /\ <<d, c>> \in timer
    /\ CASE status[<<d, c>>] = "ringing-in" -> EndCall(d, c) /\ Schedule(d, Msg("REJECT", c))
         [] status[<<d, c>>] = "ringing-out" ->
              /\ EndCall(d, c)
              /\ IF d \in leads THEN Schedule(d, Msg("HANGUP", c)) ELSE UNCHANGED tasks
         [] OTHER -> Disarm(d, c) /\ UNCHANGED <<status, grace, tasks>>
    /\ UNCHANGED <<step, lock, context, running, wire, leads, bounds>>

\* Both peer connections have both descriptions.
Linked(c) == \A d \in Devices : dom[<<d, c>>] = "live" /\ remote[<<d, c>>] = "set"

Connected(d, c) ==
    /\ Linked(c) /\ status[<<d, c>>] \in InCall \ {"connected"}
    /\ Become(d, c, "connected")
    /\ grace' = grace \ {<<d, c>>}
    /\ UNCHANGED <<timer, step, lock, context, network, leads, bounds>>

Interrupted(d, c) ==
    /\ status[<<d, c>>] = "connected" /\ dom[<<d, c>>] = "live" /\ flaps < MaxFlaps
    /\ flaps' = flaps + 1
    /\ Become(d, c, "reconnecting")
    /\ grace' = grace \cup {<<d, c>>}
    /\ UNCHANGED <<timer, step, lock, context, network, leads, losses, demotions>>

GraceTimeout(d, c) ==
    /\ <<d, c>> \in grace
    /\ EndCall(d, c)
    /\ UNCHANGED <<step, lock, context, network, leads, bounds>>

\* WebRTC gives up on a peer that has no connection, or closed it: the
\* context closes itself, and sends the manager a report.
ContextFails(d, c) ==
    /\ dom[<<d, c>>] = "live" /\ remote[<<d, c>>] = "set" /\ dom[<<Peer(d), c>>] # "live"
    /\ Close(d, c)
    /\ reported' = reported \cup {<<d, c>>}
    /\ UNCHANGED <<manager, candidate, network, leads, bounds>>

\* Mutant: the manager does not end the call.
FailureUnheard(d, c) ==
    /\ <<d, c>> \in reported
    /\ reported' = reported \ {<<d, c>>}
    /\ UNCHANGED <<manager, dom, aborted, remote, candidate, network, leads, bounds>>

\* The report arrives; of a call that has ended it is ignored.
FailureReported(d, c) ==
    /\ <<d, c>> \in reported
    /\ reported' = reported \ {<<d, c>>}
    /\ EndCall(d, c)
    /\ UNCHANGED <<step, lock, dom, aborted, remote, candidate, network, leads, bounds>>

-----------------------------------------------------------------------------
\* The environment

\* What waits for an outgoing task of the device
Waiting(d) == {p \in Both : p[1] = d /\ step[p] = "task"}

\* The connection of a device is lost and replaced: its outgoing tasks are
\* rejected, and the task of a message goes on without being waited for.
Reconnect(d) ==
    /\ losses < MaxLosses /\ losses' = losses + 1
    /\ running' = [running EXCEPT ![d] = Idle]
    /\ tasks' = [tasks EXCEPT ![d] = <<>>]
    /\ status' = [p \in Both |-> IF p \in Waiting(d) /\ Live(d, p[2]) THEN "ended" ELSE status[p]]
    /\ timer' = timer \ Waiting(d) /\ grace' = grace \ Waiting(d)
    /\ step' = [p \in Both |-> IF p \in Waiting(d) THEN "done" ELSE step[p]]
    /\ lock' = IF \E p \in Waiting(d) : Caller[p[2]] = d THEN [lock EXCEPT ![d] = Tail(@)] ELSE lock
    /\ UNCHANGED <<context, wire, leads, demotions, flaps>>

\* A message with short-lived queuing expires on the server.
Expire(d) ==
    /\ losses < MaxLosses /\ losses' = losses + 1
    /\ wire[d] # <<>> /\ Head(wire[d]).kind # "HANGUP"
    /\ wire' = [wire EXCEPT ![d] = Tail(@)]
    /\ UNCHANGED <<manager, context, tasks, running, leads, demotions, flaps>>

\* handleCspOriginationAuthorityChange
Demote(d) ==
    /\ demotions < MaxDemotions /\ demotions' = demotions + 1
    /\ d \in leads /\ leads' = leads \ {d}
    /\ \/ \E c \in Calls : Live(d, c) /\ EndCall(d, c)
       \/ ~Busy(d) /\ UNCHANGED <<status, timer, grace>>
    /\ UNCHANGED <<step, lock, context, network, losses, flaps>>

-----------------------------------------------------------------------------
Media(d, c) == Capture(d, c) \/ SetUp(d, c) \/ CaptureFails(d, c)

\* A connection that was established, or an answerer with a candidate of the
\* caller: only then WebRTC has something to check.
Checks(d, c) ==
    \/ status[<<d, c>>] \in {"connected", "reconnecting"}
    \/ d = Callee(c) /\ candidate[c] = "added"

Progress(d, c) ==
    \/ Register(d, c) \/ Turn(d, c) \/ Create(d, c) \/ Media(d, c)
    \/ Applied(d, c) \/ Teardown(d, c)
    \/ RingingTimeout(d, c) \/ GraceTimeout(d, c)
    \/ FailureReported(d, c)
    \/ /\ Checks(d, c)
       /\ ContextFails(d, c)

Work(d) ==
    \/ Send(d) \/ FinishTask(d)
    \/ OfferRefused(d) \/ OfferArrives(d) \/ Offer(d)
    \/ Reject(d) \/ Answer(d) \/ Candidate(d) \/ HangupArrives(d)

Next ==
    \/ \E d \in Devices, c \in Calls :
         \/ Place(d, c) \/ Accept(d, c) \/ Hangup(d, c) \/ TurnFails(d, c)
         \/ Connected(d, c) \/ Interrupted(d, c) \/ ContextFails(d, c)
         \/ Progress(d, c)
    \/ \E d \in Devices : Reconnect(d) \/ Expire(d) \/ Demote(d) \/ Work(d)
    \/ \E c \in Calls : Trickle(c)

Spec == Init /\ [][Next]_vars

\* Requests, prompts, tasks and timers come to an end, and WebRTC notices
\* that a peer it checks is gone. The user, a candidate and a first
\* connection need not, nor the failure of a connection that never had a
\* candidate: no timer of the code watches it. No behaviour repeats a state,
\* so this is weak fairness of every one of these actions.
FairSpec == Spec /\ WF_vars(\E d \in Devices : Work(d) \/ \E c \in Calls : Progress(d, c))

-----------------------------------------------------------------------------
\* Properties

\* Every variable has its type; `_active` is one call, whatever comes while
\* `call` waits for the lock, or an offer for `call`.
StatusTypes ==
    /\ status \in [Both -> {"idle", "ended"} \cup Ringing \cup InCall]
    /\ step \in [Both -> Steps]
OneActive == \A d \in Devices : \A c, e \in Calls : Live(d, c) /\ Live(d, e) => c = e
ContextTypes ==
    /\ dom \in [Both -> {"none", "open", "live"}]
    /\ remote \in [Both -> {"none", "applying", "set"}]
    /\ candidate \in [Calls -> {"none", "scheduled", "ignored", "buffered", "cached", "added"}]
    /\ reported \subseteq Both
QueueTypes ==
    /\ lock \in [Devices -> Seq({"call", "offer"} \X Calls)]
    /\ tasks \in [Devices -> Seq(Messages)]
    /\ running \in [Devices -> {Idle} \cup [stage : Stages, msg : Messages]]
    /\ wire \in [Devices -> Seq(Messages)]
BoundTypes ==
    /\ timer \subseteq Both /\ grace \subseteq Both /\ aborted \subseteq Both
    /\ leads \subseteq Devices
    /\ losses \in 0..MaxLosses /\ demotions \in 0..MaxDemotions /\ flaps \in 0..MaxFlaps
TypeOK == StatusTypes /\ OneActive /\ ContextTypes /\ QueueTypes /\ BoundTypes

\* No setup is sent for a call that its device has already ended: an offer or
\* an answer never follows the hangup or the rejection of its call.
SetupPrecedesEnd ==
    \A d \in Devices : \A i, j \in DOMAIN wire[d] :
        /\ i < j /\ wire[d][i].call = wire[d][j].call
        /\ wire[d][i].kind \in {"HANGUP", "REJECT"}
        => wire[d][j].kind \notin {"OFFER", "ACCEPT"}

\* When the answer is made, a candidate that the answerer received before is
\* with the peer connection, unless the context has closed itself.
CandidateFlushed ==
    \A c \in Calls :
        LET p == <<Callee(c), c>> IN
        step[p] \in {"task", "done"} /\ Live(p[1], c) /\ p \notin aborted
            => candidate[c] \notin {"buffered", "cached"}

\* No microphone outlives its call.
MicrophoneReleased ==
    \A p \in Both : status[p] = "ended" ~> [](dom[p] # "live")

\* The device still connects, and WebRTC has nothing to check: an answerer
\* without a candidate, or a caller (the model has no candidates of the
\* answerer). Such a device "stays stuck in `connecting` forever"
\* (the note in handleIncomingIceCandidates), its user has to hang up.
Unreached(d, c) ==
    status[<<d, c>>] = "connecting" /\ (d = Caller[c] \/ candidate[c] # "added")

\* The peer does not stay in a call that one side has ended, also when the
\* hangup is lost, but for a peer that WebRTC has nothing to check for.
PeerFollows ==
    \A p \in Both : status[p] = "ended"
        ~> [](~Live(Peer(p[1]), p[2]) \/ Unreached(Peer(p[1]), p[2]))

\* A connection that one side has ended is always given up by the other.
NeverStuck == \A p \in Both : status[p] = "ended" ~> []~Live(Peer(p[1]), p[2])

\* The task of an incoming offer is finished: the manager never waits for a
\* task that waits behind it (the note in handleIncomingOffer).
OfferFinished ==
    \A d \in Devices :
        (running[d] # Idle /\ running[d].stage = "waiting")
            ~> (running[d] = Idle \/ running[d].stage # "waiting")

\* An answerer that conducts a call has not thrown away a candidate of its
\* caller (the note in handleIncomingIceCandidates).
CandidateKept ==
    \A c \in Calls : status[<<Callee(c), c>>] \in InCall => candidate[c] # "ignored"
================================================================================
