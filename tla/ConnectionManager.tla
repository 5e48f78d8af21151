--------------------------- MODULE ConnectionManager ---------------------------
(***************************************************************************)
(* ConnectionManager and Connection (common/dom/network/protocol/          *)
(* connection.ts): the runner that connects, waits until the connection is *)
(* closed, reacts to the close code, and waits before it reconnects; the   *)
(* auto-connect promise; the establishment timeout; the closing sequence;  *)
(* and selfKickFromMediator with its D2M-only fallback connection.         *)
(*                                                                         *)
(* The worker runs all ready continuations (microtasks) before the next    *)
(* event (timer, socket, dialog, call from the UI): events happen only     *)
(* when ~Busy. TaskManager is represented by the kind of its inner manager,*)
(* by the one DropDeviceTask that selfKickFromMediator schedules, and by   *)
(* what the run of an earlier connection has done to the promise of a task *)
(* that the manager took over.                                             *)
(***************************************************************************)
EXTENDS Naturals

CONSTANTS
    Delay,      \* MEDIATOR_RECONNECTION_DELAY_S, in ticks
    Hint,       \* disconnectForMs of a ProtocolError, in ticks
    Timeout,    \* CONNECTION_ESTABLISHMENT_TIMEOUT_S, in ticks
    Horizon     \* time since the last attempt is counted up to here

ASSUME TimesAssumption ==
    /\ Delay \in Nat /\ Hint \in Nat /\ Timeout \in Nat /\ Horizon \in Nat
    /\ Delay <= Hint /\ Delay <= Horizon /\ Timeout <= Horizon

VARIABLES
    phase,          \* where the runner stands (_run, _connectAndWaitUntilClosed)
    autoConnect,    \* _autoConnect.done
    awaited,        \* the promise the runner awaits at the gate: the current
                    \* _autoConnect, or a replaced one, resolved or lost
    inner,          \* the kind of the task manager's inner manager
    oldRun,         \* the run of an earlier connection: none, still running a task
                    \* that was carried over, or it has settled that task's promise
    state,          \* ConnectionManager.state
    leader,         \* leaderState is LEADER
    connection,     \* what _connection refers to
    csp, d2m,       \* the connection's auth states are COMPLETE
    reached,        \* connectedPromise.done
    closing,        \* closing sequence of the runner's connection
    cause,          \* why it closes
    skip,           \* skipConnectionDelay
    elapsed,        \* time since the last attempt started
    sleepLeft,      \* what is left of the reconnection delay
    alert,          \* a CLOSE_ERROR: still in the pipeline, or its dialog shown
    kick,           \* selfKickFromMediator
    d2mOnly,        \* its D2M-only connection
    dropped,        \* the mediator has dropped this device
    uploads,        \* outgoing uploads are not stopped
    refused,        \* history: the server's CLOSE_ERROR still forbids to reconnect
    asked,          \* history: the user asked for the next attempt
    overlapped      \* history: two connections existed at the same time

linkVars == <<csp, d2m, reached, closing, cause>>
gateVars == <<phase, autoConnect, awaited>>
viewVars == <<inner, oldRun, state, leader, connection>>
timeVars == <<skip, elapsed, sleepLeft, asked>>
kickVars == <<kick, d2mOnly, dropped, uploads>>
vars == <<linkVars, gateVars, viewVars, timeVars, kickVars, alert, refused, overlapped>>

Causes == {"none", "recoverable", "hinted", "outdatedLocal", "outdatedRemote", "dropped",
           "fatal"}

Init ==
    /\ phase = "gate" /\ autoConnect = TRUE /\ awaited = "current"
    /\ inner = "disconnected" /\ oldRun = "none" /\ state = "disconnected" /\ leader = FALSE
    /\ connection = "none"
    /\ csp = FALSE /\ d2m = FALSE /\ reached = FALSE /\ closing = "no" /\ cause = "none"
    /\ skip = FALSE /\ elapsed = Horizon /\ sleepLeft = 0 /\ asked = FALSE
    /\ alert = "none" /\ refused = FALSE
    /\ kick = "idle" /\ d2mOnly = "none" /\ dropped = FALSE /\ uploads = TRUE
    /\ overlapped = FALSE

-----------------------------------------------------------------------------
\* The event loop

GateReady == phase = "gate" /\ (awaited = "resolved" \/ (awaited = "current" /\ autoConnect))
ResetReady == phase = "open" /\ closing = "done"
FallbackReady == kick = "fallback"
Busy == GateReady \/ ResetReady \/ FallbackReady

Event == ~Busy

-----------------------------------------------------------------------------
\* The auto-connect promise and disconnect

\* _autoConnect is replaced by an unresolved promise. A runner at the gate goes
\* on awaiting the old one.
ReplacePromise ==
    /\ autoConnect' = FALSE
    /\ awaited' = IF phase = "gate" /\ awaited = "current"
                  THEN IF autoConnect THEN "resolved" ELSE "lost"
                  ELSE awaited

\* Only a promise that is done is replaced.
TurnOffAlways == ReplacePromise
TurnOff ==
    IF autoConnect THEN ReplacePromise ELSE UNCHANGED <<autoConnect, awaited>>

TurnOn == autoConnect' = TRUE /\ UNCHANGED awaited

\* Connection.disconnect closes the transport. The closing sequence is skipped
\* if the disconnect originates here; else what the server sent is drained.
\* Without a _connection (also while Connection.create is pending) nothing
\* happens; a second close has no effect.
Disconnect(origin, code) ==
    /\ IF connection = "full" /\ phase = "open" /\ closing = "no"
       THEN /\ closing' = IF origin = "local" THEN "done" ELSE "draining"
            /\ cause' = code
            /\ state' = "disconnected"
       ELSE UNCHANGED <<closing, cause, state>>
    /\ d2mOnly' = IF connection = "d2m" /\ d2mOnly = "open" THEN "closed" ELSE d2mOnly
    /\ UNCHANGED <<csp, d2m, reached>>

DisconnectAndTurnOff(origin, code) == Disconnect(origin, code) /\ TurnOff

-----------------------------------------------------------------------------
\* The runner

\* What the constructor of ConnectedTaskManager asserts of each task it takes
\* over: its promise is not done.
CarriedDone == oldRun = "settled"

\* A new attempt: replace(CONNECTING), whose constructor rejects a volatile
\* task that was carried over, and the assertions around it. All of them are
\* outside of any try: a failing one ends the runner.
StartAttempt ==
    /\ GateReady
    /\ state' = "connecting"
    /\ awaited' = "current"
    /\ IF inner = "connected" \/ CarriedDone
       THEN phase' = "dead" /\ UNCHANGED <<inner, linkVars, elapsed, asked, kick, overlapped>>
       ELSE /\ phase' = IF leader THEN "dead" ELSE "opening"
            /\ inner' = "connected"
            /\ csp' = FALSE /\ d2m' = FALSE /\ reached' = FALSE
            /\ closing' = "no" /\ cause' = "none"
            /\ elapsed' = 0 /\ asked' = FALSE
            /\ kick' = IF kick \in {"queued", "sent"} THEN "fallback" ELSE kick
            /\ overlapped' = (overlapped \/ d2mOnly # "none")
    /\ UNCHANGED <<autoConnect, oldRun, leader, connection, skip, sleepLeft, d2mOnly, dropped,
                   uploads, alert, refused>>

\* The WebSocket is open and the pipe attached: Connection.create returns, the
\* manager subscribes to the connection's state. The store throws if it was
\* moved beyond HANDSHAKE meanwhile.
PipeAttached ==
    /\ Event /\ phase = "opening" /\ closing = "no"
    /\ connection' = "full"
    /\ IF state = "disconnected"
       THEN phase' = "dead" /\ UNCHANGED state
       ELSE phase' = "open" /\ state' = "handshake"
    /\ UNCHANGED <<autoConnect, awaited, inner, oldRun, leader, linkVars, timeVars, kickVars, alert,
                   refused, overlapped>>

\* How long the runner sleeps before the next attempt: exactly the delay if it
\* never was connected, as hinted, or what is left of the delay.
WaitUnclamped(code, connected) ==
    IF ~connected THEN Delay ELSE IF code = "hinted" THEN Hint ELSE Delay - elapsed
WaitTime(code, connected) ==
    IF ~connected THEN Delay
    ELSE IF code = "hinted" THEN Hint
    ELSE IF elapsed < Delay THEN Delay - elapsed ELSE 0

WaitOrSkip(code, connected) ==
    IF skip THEN phase' = "gate" /\ UNCHANGED sleepLeft
    ELSE phase' = "sleep" /\ sleepLeft' = WaitTime(code, connected)

\* The exhaustive switch on the close code. _connection is undefined here,
\* unless a D2M-only connection took its place.
HandleClose(code, connected) ==
    \/ /\ code \in {"recoverable", "hinted"}
       /\ WaitOrSkip(code, connected)
       /\ UNCHANGED <<autoConnect, awaited, uploads>>
    \/ /\ code = "outdatedLocal"
       /\ phase' = "dialog"
       /\ UNCHANGED <<autoConnect, awaited, uploads, sleepLeft>>
    \/ /\ code = "outdatedRemote"
       /\ TurnOff /\ WaitOrSkip(code, connected)
       /\ UNCHANGED uploads
    \/ /\ code = "dropped"
       /\ uploads' = FALSE
       /\ TurnOff /\ WaitOrSkip(code, connected)
    \/ /\ code = "fatal"
       /\ TurnOff /\ phase' = "dead"
       /\ UNCHANGED <<sleepLeft, uploads>>

\* The WebSocket did not open: Connection.create rejects, replace(DISCONNECTED).
CreateFails ==
    /\ Event /\ phase = "opening"
    /\ state' = "disconnected"
    /\ IF inner = "disconnected"
       THEN /\ phase' = "dead"
            /\ UNCHANGED <<inner, leader, autoConnect, awaited, uploads, sleepLeft>>
       ELSE /\ inner' = "disconnected" /\ leader' = FALSE
            /\ HandleClose("recoverable", FALSE)
    /\ UNCHANGED <<connection, oldRun, linkVars, skip, elapsed, asked, kick, d2mOnly, dropped,
                   alert, refused, overlapped>>

\* replace(DISCONNECTED) copies the tasks of a manager whose run is not waited
\* for: the task it runs may await something else than the connection.
LeaveRun == oldRun' \in IF oldRun = "none" THEN {"none", "running"} ELSE {oldRun}

\* The old run ends: well, and its promise, shared with the copy, is settled; or
\* on a queue that was moved into the error state.
OldRunEnds ==
    /\ Event /\ oldRun = "running"
    /\ oldRun' \in {"settled", "none"}
    /\ UNCHANGED <<gateVars, inner, state, leader, connection, linkVars, timeVars, kickVars,
                   alert, refused, overlapped>>

\* The current manager has run that task again, and consumed it.
RerunEnds ==
    /\ Event /\ phase = "open" /\ oldRun = "settled"
    /\ oldRun' = "none"
    /\ UNCHANGED <<gateVars, inner, state, leader, connection, linkVars, timeVars, kickVars,
                   alert, refused, overlapped>>

\* disconnectedPromise: unsubscribe, _reset, handle the close code. Frames of
\* this connection that were not processed are gone.
ResetKeepsManager == UNCHANGED inner
ReplaceDisconnected == inner' = "disconnected"
Reset ==
    /\ ResetReady
    /\ state' = "disconnected"
    /\ IF inner = "disconnected"
       THEN /\ phase' = "dead"
            /\ UNCHANGED <<inner, oldRun, leader, connection, autoConnect, awaited, uploads,
                           sleepLeft>>
       ELSE /\ ReplaceDisconnected
            /\ LeaveRun
            /\ leader' = FALSE
            /\ connection' = "none"
            /\ HandleClose(cause, reached)
    /\ closing' = "no"
    /\ alert' = IF alert = "shown" THEN alert ELSE "none"
    /\ UNCHANGED <<csp, d2m, reached, cause, skip, elapsed, asked, kick, d2mOnly, dropped,
                   refused, overlapped>>

\* The dialog shown for a mediator that is too old.
DialogConfirmed ==
    /\ Event /\ phase = "dialog"
    /\ skip' = TRUE /\ asked' = TRUE
    /\ phase' = "gate"
    /\ UNCHANGED <<autoConnect, awaited, viewVars, linkVars, elapsed, sleepLeft, kickVars,
                   alert, refused, overlapped>>

DialogDismissed ==
    /\ Event /\ phase = "dialog"
    /\ DisconnectAndTurnOff("local", "outdatedLocal")
    /\ WaitOrSkip("outdatedLocal", FALSE)
    /\ UNCHANGED <<inner, oldRun, leader, connection, skip, elapsed, asked, kick, dropped, uploads,
                   alert, refused, overlapped>>

Wake ==
    /\ Event /\ phase = "sleep" /\ sleepLeft = 0
    /\ phase' = "gate"
    /\ UNCHANGED <<autoConnect, awaited, viewVars, linkVars, timeVars, kickVars, alert, refused,
                   overlapped>>

Tick ==
    /\ Event
    /\ elapsed < Horizon \/ sleepLeft > 0
    /\ elapsed' = IF elapsed < Horizon THEN elapsed + 1 ELSE elapsed
    /\ sleepLeft' = IF sleepLeft > 0 THEN sleepLeft - 1 ELSE 0
    /\ UNCHANGED <<gateVars, viewVars, linkVars, skip, asked, kickVars, alert, refused,
                   overlapped>>

-----------------------------------------------------------------------------
\* The connection

Open == phase = "open" /\ closing = "no"

\* The closing sequence is skipped: a CLOSE_ERROR that is still in the pipeline
\* is not going to be seen.
Missed == refused' = (refused /\ alert = "shown")

\* The establishment timeout raises closed unless CONNECTED. Before the
\* WebSocket is open, that closes it, and Connection.create will reject.
NotEstablishedHandshakeOnly == ~csp /\ ~d2m
NotEstablished == ~(csp /\ d2m)
EstablishmentTimeout ==
    /\ Event /\ phase \in {"opening", "open"} /\ closing = "no"
    /\ elapsed >= Timeout /\ NotEstablished
    /\ closing' = IF phase = "open" THEN "done" ELSE "aborted"
    /\ cause' = "recoverable"
    /\ Missed
    /\ UNCHANGED <<csp, d2m, reached, gateVars, viewVars, timeVars, kickVars, alert, overlapped>>

\* One of the two handshakes completes, the connection's state and with it the
\* manager's follow. Handing the new state to a manager that was reset in
\* between throws into the pipeline, which closes the connection.
Advance(both) ==
    IF state = "disconnected"
    THEN closing' = "done" /\ cause' = "recoverable" /\ Missed /\ UNCHANGED <<state, reached>>
    ELSE /\ state' = IF both THEN "connected" ELSE "partial"
         /\ reached' = both
         /\ UNCHANGED <<closing, cause, refused>>

CspCompleteAlone == Advance(TRUE)
CspAdvances == Advance(d2m)
CspComplete ==
    /\ Event /\ Open /\ ~csp
    /\ csp' = TRUE
    /\ CspAdvances
    /\ UNCHANGED <<d2m, gateVars, inner, oldRun, leader, connection, timeVars, kickVars, alert,
                   overlapped>>

D2mComplete ==
    /\ Event /\ Open /\ ~d2m /\ ~dropped
    /\ d2m' = TRUE
    /\ Advance(csp)
    /\ UNCHANGED <<csp, gateVars, inner, oldRun, leader, connection, timeVars, kickVars, alert,
                   overlapped>>

PromotedToLeader ==
    /\ Event /\ Open /\ d2m /\ ~leader
    /\ leader' = TRUE
    /\ UNCHANGED <<gateVars, inner, oldRun, state, connection, linkVars, timeVars, kickVars, alert,
                   refused, overlapped>>

\* The mediator closes the WebSocket. The closing sequence waits until the
\* readable side is drained; the connection's state is DISCONNECTED at once.
ShortCircuit == "done"
ClosingSequence == "draining"
RemoteClose ==
    /\ Event /\ Open
    /\ cause' \in {"recoverable", "outdatedRemote", "fatal"}
                      \cup (IF dropped THEN {"dropped"} ELSE {})
    /\ closing' = ClosingSequence
    /\ state' = "disconnected"
    /\ UNCHANGED <<csp, d2m, reached, gateVars, inner, oldRun, leader, connection, timeVars,
                   kickVars, alert, refused, overlapped>>

\* A codec or a task fails: the transport's pipe errors, which short-circuits
\* the closing sequence, maybe with a hint for how long to stay disconnected.
PipeError ==
    /\ Event /\ Open
    /\ cause' \in {"recoverable", "hinted"}
    /\ closing' = "done"
    /\ Missed
    /\ UNCHANGED <<csp, d2m, reached, gateVars, viewVars, timeVars, kickVars, alert, overlapped>>

\* The client closes: an echo timed out, or the server's D2M version is too old.
ClientCloses ==
    /\ Event /\ Open
    /\ closing' = "done" /\ state' = "disconnected"
    /\ cause' \in {"recoverable"} \cup (IF d2m THEN {} ELSE {"outdatedLocal"})
    /\ Missed
    /\ UNCHANGED <<csp, d2m, reached, gateVars, inner, oldRun, leader, connection, timeVars,
                   kickVars, alert, overlapped>>

Drained ==
    /\ Event /\ phase = "open" /\ closing = "draining"
    /\ alert \notin {"final", "retry"}
    /\ closing' = "done"
    /\ UNCHANGED <<csp, d2m, reached, cause, gateVars, viewVars, timeVars, kickVars, alert,
                   refused, overlapped>>

-----------------------------------------------------------------------------
\* Close errors of the chat server

\* The chat server sends a CLOSE_ERROR, with canReconnect = 0 or not.
ServerCloseError ==
    /\ Event /\ Open /\ csp /\ alert = "none"
    /\ alert' \in {"final", "retry"}
    /\ refused' = (refused \/ alert' = "final")
    /\ UNCHANGED <<gateVars, viewVars, linkVars, timeVars, kickVars, overlapped>>

\* The layer 4 decoder reaches it, maybe only while the pipe is drained.
ProcessCloseError ==
    /\ Event /\ phase = "open" /\ closing \in {"no", "draining"}
    /\ alert \in {"final", "retry"}
    /\ alert' = "shown"
    /\ IF alert = "final"
       THEN DisconnectAndTurnOff("remote", "recoverable")
       ELSE UNCHANGED <<linkVars, state, d2mOnly, autoConnect, awaited>>
    /\ UNCHANGED <<phase, inner, oldRun, leader, connection, timeVars, kick, dropped, uploads,
                   refused, overlapped>>

\* Its dialog: confirmed means that the user wants to reconnect, whatever
\* turned auto-connect off meanwhile.
CloseErrorConfirmed ==
    /\ Event /\ alert = "shown"
    /\ alert' = "none" /\ refused' = FALSE
    /\ TurnOn
    /\ UNCHANGED <<phase, viewVars, linkVars, timeVars, kickVars, overlapped>>

CloseErrorDismissed ==
    /\ Event /\ alert = "shown"
    /\ alert' = "none"
    /\ UNCHANGED <<gateVars, viewVars, linkVars, timeVars, kickVars, refused, overlapped>>

-----------------------------------------------------------------------------
\* Calls from the UI

UserDisconnects ==
    /\ Event /\ connection # "none"
    /\ Disconnect("local", "recoverable")
    /\ Missed
    /\ UNCHANGED <<gateVars, inner, oldRun, leader, connection, timeVars, kick, dropped, uploads,
                   alert, overlapped>>

ToggleAutoConnect ==
    /\ Event
    /\ IF autoConnect
       THEN DisconnectAndTurnOff("local", "recoverable") /\ UNCHANGED refused
       ELSE /\ TurnOn /\ refused' = FALSE
            /\ UNCHANGED <<linkVars, state, d2mOnly>>
    /\ UNCHANGED <<phase, inner, oldRun, leader, connection, timeVars, kick, dropped, uploads,
                   alert, overlapped>>

\* _startD2mOnlyConnectionAndUnlink, up to its first await.
Unlink ==
    /\ TurnOff
    /\ IF connection = "full" /\ Open
       THEN closing' = "done" /\ cause' = "recoverable" /\ state' = "disconnected" /\ Missed
       ELSE UNCHANGED <<closing, cause, state, refused>>
    /\ IF connection # "none"
       THEN kick' = "rejected" /\ UNCHANGED <<d2mOnly, overlapped>>
       ELSE /\ kick' = "unlinking" /\ d2mOnly' = "opening"
            /\ overlapped' = (overlapped \/ phase \in {"opening", "open"})
    /\ UNCHANGED <<csp, d2m, reached>>

\* selfKickFromMediator schedules a DropDeviceTask, which is volatile: without
\* a connection it is rejected at once. While the connection is closing, the
\* task queue may be in the error state already, and schedule throws.
SelfKickOffline ==
    /\ Event /\ kick \in {"idle", "rejected"}
    /\ inner = "disconnected" \/ (phase = "open" /\ closing # "no")
    /\ Unlink
    /\ UNCHANGED <<phase, inner, oldRun, leader, connection, timeVars, dropped, uploads, alert>>

\* With a connection, the task is queued.
SelfKick ==
    /\ Event /\ kick \in {"idle", "rejected"} /\ inner = "connected"
    /\ kick' = "queued"
    /\ UNCHANGED <<gateVars, viewVars, linkVars, timeVars, d2mOnly, dropped, uploads, alert,
                   refused, overlapped>>

\* The next task manager rejected the task.
Fallback ==
    /\ FallbackReady
    /\ Unlink
    /\ UNCHANGED <<phase, inner, oldRun, leader, connection, timeVars, dropped, uploads, alert>>

\* The task runs: the mediator drops the device and acknowledges it.
DropSent ==
    /\ Event /\ kick = "queued" /\ Open /\ reached
    /\ kick' = "sent" /\ dropped' = TRUE
    /\ UNCHANGED <<gateVars, viewVars, linkVars, timeVars, d2mOnly, uploads, alert, refused,
                   overlapped>>

DropAcknowledged ==
    /\ Event /\ kick = "sent" /\ Open
    /\ kick' = "resolved" /\ uploads' = FALSE
    /\ UNCHANGED <<gateVars, viewVars, linkVars, timeVars, d2mOnly, dropped, alert, refused,
                   overlapped>>

D2mOnlyOpens ==
    /\ Event /\ d2mOnly = "opening"
    /\ d2mOnly' = "open" /\ connection' = "d2m"
    /\ UNCHANGED <<gateVars, inner, oldRun, state, leader, linkVars, timeVars, kick, dropped,
                   uploads, alert, refused, overlapped>>

\* Its WebSocket does not open. _reset expects a connected task manager; if
\* there is none, its assertion fails and the rest is skipped.
D2mOnlyFails ==
    /\ Event /\ d2mOnly = "opening"
    /\ d2mOnly' = "none" /\ kick' = "rejected"
    /\ state' = "disconnected"
    /\ IF inner = "connected"
       THEN /\ inner' = "disconnected" /\ leader' = FALSE /\ connection' = "none"
            /\ LeaveRun
            /\ TurnOn /\ refused' = FALSE
       ELSE UNCHANGED <<inner, oldRun, leader, connection, autoConnect, awaited, refused>>
    /\ UNCHANGED <<phase, linkVars, timeVars, dropped, uploads, alert, overlapped>>

\* Once authenticated, the D2M-only connection sends the drop request.
D2mOnlyDrops ==
    /\ Event /\ d2mOnly = "open" /\ ~dropped
    /\ dropped' = TRUE
    /\ UNCHANGED <<gateVars, viewVars, linkVars, timeVars, kick, d2mOnly, uploads, alert, refused,
                   overlapped>>

\* It was closed, for whatever reason: the close info is returned and the
\* uploads are stopped.
D2mOnlyCloses ==
    /\ Event /\ d2mOnly \in {"open", "closed"}
    /\ d2mOnly' = "none" /\ kick' = "resolved" /\ uploads' = FALSE
    /\ UNCHANGED <<gateVars, viewVars, linkVars, timeVars, dropped, alert, refused, overlapped>>

DroppedByOtherDevice ==
    /\ Event /\ ~dropped
    /\ dropped' = TRUE
    /\ UNCHANGED <<gateVars, viewVars, linkVars, timeVars, kick, d2mOnly, uploads, alert, refused,
                   overlapped>>

-----------------------------------------------------------------------------
Runner == StartAttempt \/ Reset \/ Fallback
OldRuns == OldRunEnds \/ RerunEnds
Timers == Tick \/ Wake \/ EstablishmentTimeout
Transport ==
    \/ PipeAttached \/ CreateFails \/ CspComplete \/ D2mComplete \/ PromotedToLeader
    \/ RemoteClose \/ PipeError \/ ClientCloses \/ Drained
    \/ ServerCloseError \/ ProcessCloseError
User ==
    \/ DialogConfirmed \/ DialogDismissed \/ CloseErrorConfirmed \/ CloseErrorDismissed
    \/ UserDisconnects \/ ToggleAutoConnect \/ SelfKick \/ SelfKickOffline
Unlinking ==
    \/ DropSent \/ DropAcknowledged \/ D2mOnlyOpens \/ D2mOnlyFails \/ D2mOnlyDrops
    \/ D2mOnlyCloses \/ DroppedByOtherDevice

Next == Runner \/ OldRuns \/ Timers \/ Transport \/ User \/ Unlinking

\* Continuations run, timers fire, and a closing pipe is drained. A WebSocket
\* that was closed before it opened reports it. Nothing is assumed about the
\* network, the servers or the user.
Fairness ==
    /\ WF_vars(Runner)
    /\ WF_vars(Tick) /\ WF_vars(Wake) /\ WF_vars(EstablishmentTimeout)
    /\ WF_vars(Drained) /\ WF_vars(ProcessCloseError)
    /\ WF_vars(closing = "aborted" /\ CreateFails)

Spec == Init /\ [][Next]_vars
FairSpec == Spec /\ Fairness

-----------------------------------------------------------------------------
\* Properties

\* The values that every variable may take.
GateTypes ==
    /\ phase \in {"gate", "opening", "open", "dialog", "sleep", "dead"}
    /\ autoConnect \in BOOLEAN /\ awaited \in {"current", "resolved", "lost"}
ViewTypes ==
    /\ inner \in {"connected", "disconnected"} /\ oldRun \in {"none", "running", "settled"}
    /\ state \in {"connecting", "handshake", "partial", "connected", "disconnected"}
    /\ leader \in BOOLEAN /\ connection \in {"none", "full", "d2m"}
LinkTypes ==
    /\ csp \in BOOLEAN /\ d2m \in BOOLEAN /\ reached \in BOOLEAN
    /\ closing \in {"no", "aborted", "draining", "done"} /\ cause \in Causes
TimeTypes == elapsed \in 0..Horizon /\ sleepLeft \in 0..Hint
KickTypes ==
    /\ kick \in {"idle", "queued", "sent", "fallback", "unlinking", "resolved", "rejected"}
    /\ d2mOnly \in {"none", "opening", "open", "closed"}
    /\ d2mOnly # "none" <=> kick = "unlinking"
FlagTypes ==
    /\ skip \in BOOLEAN /\ asked \in BOOLEAN
    /\ alert \in {"none", "final", "retry", "shown"} /\ refused \in BOOLEAN
    /\ dropped \in BOOLEAN /\ uploads \in BOOLEAN /\ overlapped \in BOOLEAN
TypeOK == GateTypes /\ ViewTypes /\ LinkTypes /\ TimeTypes /\ KickTypes /\ FlagTypes

\* "Connection runner should never return": besides a close code that demands it,
\* whichever events race, the runner ends only in an attempt that takes over a
\* task whose promise an old run has settled, or once two connections existed at
\* the same time.
RunnerSurvives ==
    [][phase' = "dead" /\ phase # "dead" =>
          \/ Reset /\ cause = "fatal"
          \/ StartAttempt /\ CarriedDone
          \/ overlapped]_vars

\* "Manages the connection state": between attempts, the task manager, the
\* state shown to the user, the leader state and _connection all say
\* disconnected; "connected" is shown only while both handshakes of the current
\* connection are complete.
StateTruthful ==
    ~overlapped /\ phase # "dead" =>
        /\ phase \in {"gate", "sleep", "dialog"} =>
              inner = "disconnected" /\ state = "disconnected" /\ ~leader /\ connection # "full"
        /\ phase \in {"opening", "open"} => inner = "connected"
        /\ state = "connected" => connection = "full" /\ phase = "open" /\ csp /\ d2m

\* "Only the readable pipeline is allowed to finish the closing sequence since
\* we need to check for CSP errors alerts": after a CLOSE_ERROR that forbids it,
\* even if the mediator closed before it was decoded, nothing reconnects before
\* the user agreed. Only a close that short-circuits may miss it.
CloseErrorHonoured == [][StartAttempt => ~refused]_vars

\* A stalled attempt is given up, whatever the network does: "instead of leaving
\* the loading screen spinning forever".
EstablishedOrGivenUp ==
    phase \in {"opening", "open"} /\ ~reached
        ~> reached \/ phase \notin {"opening", "open"}

\* While auto-connect is enabled, the runner gets to the next attempt, however
\* often it was turned off and on while the runner was waiting.
KeepsReconnecting ==
    autoConnect ~> ~autoConnect \/ phase \in {"opening", "open", "dialog", "dead"}

\* "Ensures [...] that only one connection to the server is active".
OnlyOneConnection == ~(phase \in {"opening", "open"} /\ d2mOnly \in {"opening", "open"})

\* "On failure, auto-reconnect is turned on": when unlinking fails.
FailureTurnsOn == [][kick = "unlinking" /\ kick' = "rejected" => autoConnect']_vars

\* "This is done only once the unlink SUCCEEDED": the uploads of a device that is
\* still linked are not stopped.
UploadsStopOnlyUnlinked == ~uploads => dropped

\* "Applies sensible delays between connection attempts": an attempt follows
\* sooner than the delay only if the user just asked for it.
DelayUnlessAsked == [][StartAttempt => asked \/ elapsed >= Delay]_vars
===============================================================================
