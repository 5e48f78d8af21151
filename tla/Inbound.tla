-------------------------------- MODULE Inbound --------------------------------
(***************************************************************************)
(* The two copies of an incoming conversation message on a linked device   *)
(* of the custom-onprem flavour: the direct one from the device's own CSP  *)
(* queue (task/csp/incoming-message.ts) and the one that the leader        *)
(* reflects (d2m/reflected.ts, d2d/reflected-incoming-message.ts). The     *)
(* copies come in any order; the reflected one bypasses a direct one whose *)
(* task waits for an answer. Both carry the CSP nonce of the message, and  *)
(* only the direct one carries the timer that the sender advertises: a row *)
(* inserted by the reflection is pending until the direct copy resolves    *)
(* it. Every write to the database is durable on its own, and the process  *)
(* may end between two of them.                                            *)
(*                                                                         *)
(* A contact and a conversation for the message exist: the leader syncs    *)
(* them before it reflects the message. Messages only compete for the one  *)
(* task that the task manager runs, so queues are sets here.               *)
(***************************************************************************)
EXTENDS Naturals, FiniteSets

CONSTANTS
    Messages,
    Timers,             \* durations of a disappearing message, 0 for none
    NoTimer, NoMessage,
    MaxLosses,          \* bound: lost connections
    MaxCrashes,         \* bound: ends of the process
    MaxMeddling         \* bound: removals, refusals and changes of the shared timer

ASSUME InboundAssumption ==
    /\ IsFiniteSet(Messages) /\ NoMessage \notin Messages
    /\ Timers \subseteq Nat /\ 0 \in Timers /\ NoTimer \notin Timers
    /\ MaxLosses \in Nat /\ MaxCrashes \in Nat /\ MaxMeddling \in Nat

VARIABLES
    advertised,         \* the timer in the metadata of a message, if any
    row,                \* the message's row in the database
    nonces,             \* persisted nonces: "csp" and "d2d" scope
    disposition,        \* messages with a recorded discard disposition
    shared,             \* the timer of the conversation
    task,               \* the direct copy in processing, on this and on an old connection
    mirror,             \* the reflected copy in processing
    online,
    queue,              \* copies that a server still holds
    begun,              \* those handed over on this connection
    wire,               \* acknowledgements on their way to a server
    losses, crashes, meddling,      \* bounds
    stored, refused, removed, cut   \* history

database == <<row, nonces, disposition, shared>>
memory == <<task, mirror>>
network == <<online, queue, begun, wire>>
bounds == <<losses, crashes, meddling>>
history == <<stored, refused, removed, cut, advertised>>
vars == <<database, memory, network, bounds, history>>

NoRow == [copies |-> 0, pending |-> FALSE, timer |-> 0, read |-> FALSE, expires |-> FALSE]
Copies == {"direct", "reflected"} \X Messages
NoTask == [msg |-> NoMessage, stage |-> "idle", guard |-> FALSE, frozen |-> 0]
\* Stages that the worker leaves before it does anything else.
Synchronous == {"record", "commit"}
Stages == {"lookup", "steps", "add", "ack"} \cup Synchronous
Tasks == {"main", "ghost"}

Init ==
    /\ advertised \in [Messages -> Timers \cup {NoTimer}]
    /\ row = [m \in Messages |-> NoRow]
    /\ nonces = [csp |-> {}, d2d |-> {}] /\ disposition = {}
    /\ shared \in Timers
    /\ task = [s \in Tasks |-> NoTask]
    /\ mirror = [m \in Messages |-> "idle"]
    /\ online = TRUE /\ queue = Copies /\ begun = {} /\ wire = {}
    /\ losses = 0 /\ crashes = 0 /\ meddling = 0
    /\ stored = {} /\ refused = {} /\ removed = {} /\ cut = {}

\* A ghost past its lookup finds nothing to wait for, or fails.
Busy ==
    \/ task["main"].stage \in Synchronous
    \/ task["ghost"].stage \notin {"idle", "lookup"}
    \/ \E m \in Messages : mirror[m] = "insert"

-----------------------------------------------------------------------------
\* Rows

Has(m) == row[m].copies > 0
Pending(m) == Has(m) /\ row[m].pending

Insert(m, timer, pending) ==
    /\ row' = [row EXCEPT ![m] = [copies |-> @.copies + 1, pending |-> pending, timer |-> timer,
                                  read |-> FALSE, expires |-> FALSE]]
    /\ stored' = stored \cup {m}

\* The advertised timer, or else the one frozen when the row was inserted.
Resolution(m) == IF advertised[m] = NoTimer THEN row[m].timer ELSE advertised[m]

Resolved(m) ==
    [row[m] EXCEPT !.pending = FALSE, !.timer = Resolution(m),
                   !.expires = Resolution(m) > 0 /\ row[m].read]

\* _tryResolvePendingReflectedDuplicate
Resolve(m) == row' = IF Pending(m) THEN [row EXCEPT ![m] = Resolved(m)] ELSE row

-----------------------------------------------------------------------------
\* The direct copy

Goto(s, stage) == task' = [task EXCEPT ![s].stage = stage]
Guard(s, stage) == task' = [task EXCEPT ![s].stage = stage, ![s].guard = TRUE]

\* CSP nonces registered by a task that is not done with them, or persisted
Guarded == {task[s].msg : s \in {t \in Tasks : task[t].guard}}
Reused(m) == m \in Guarded \cup nonces.csp

StartDirect(m) ==
    /\ online /\ ~Busy /\ task["main"] = NoTask
    /\ <<"direct", m>> \in queue \ begun
    /\ begun' = begun \cup {<<"direct", m>>}
    /\ task' = [task EXCEPT !["main"] = [msg |-> m, stage |-> "lookup", guard |-> FALSE, frozen |-> 0]]
    /\ UNCHANGED <<database, mirror, online, queue, wire, bounds, history>>

\* _tryRecoverReflectedDuplicateMetadata, then _discard
Recover(s, m) ==
    /\ Pending(m) /\ Resolve(m)
    /\ Goto(s, "record")
    /\ UNCHANGED <<meddling, refused>>

\* Mutant: not acknowledged.
NonceReusedUnacknowledged(s, m) ==
    /\ ~Pending(m) /\ Reused(m)
    /\ task' = [task EXCEPT ![s] = NoTask]
    /\ UNCHANGED <<row, meddling, refused>>

\* The container of a nonce that is in use is not decrypted: discarded
\* without a disposition.
NonceReused(s, m) ==
    /\ ~Pending(m) /\ Reused(m)
    /\ Goto(s, "ack")
    /\ UNCHANGED <<row, meddling, refused>>

\* The sender is blocked or the content invalid.
Refuse(s, m) ==
    /\ ~Pending(m) /\ ~Reused(m)
    /\ meddling < MaxMeddling /\ meddling' = meddling + 1
    /\ refused' = refused \cup {m}
    /\ Guard(s, "record")
    /\ UNCHANGED row

Accept(s, m) ==
    /\ ~Pending(m) /\ ~Reused(m)
    /\ Guard(s, "steps")
    /\ UNCHANGED <<row, meddling, refused>>

Lookup(s) ==
    /\ task[s].stage = "lookup" /\ ~Busy
    /\ LET m == task[s].msg
       IN  Recover(s, m) \/ NonceReused(s, m) \/ Refuse(s, m) \/ Accept(s, m)
    /\ UNCHANGED <<nonces, disposition, shared, mirror, network, losses, crashes, stored, removed, cut, advertised>>

\* After the contact and group steps, which may wait for answers.
GroupDiscard(s, m) ==
    /\ meddling < MaxMeddling /\ meddling' = meddling + 1
    /\ Resolve(m) /\ refused' = refused \cup {m}
    /\ Goto(s, "record")

\* Mutant: the pending row is left as it is.
DuplicateUnresolved(s, m) ==
    /\ Has(m) /\ UNCHANGED row
    /\ Goto(s, "record")
    /\ UNCHANGED <<meddling, refused>>

Duplicate(s, m) ==
    /\ Has(m) /\ Resolve(m)
    /\ Goto(s, "record")
    /\ UNCHANGED <<meddling, refused>>

\* Mutant: the metadata is ignored.
FreezeShared(m) == shared

Freeze(m) == IF advertised[m] = NoTimer THEN shared ELSE advertised[m]

NotYetReceived(s, m) ==
    /\ ~Has(m)
    /\ task' = [task EXCEPT ![s].stage = "add", ![s].frozen = Freeze(m)]
    /\ UNCHANGED <<row, meddling, refused>>

Steps(s) ==
    /\ task[s].stage = "steps" /\ (s = "ghost" \/ ~Busy)
    /\ LET m == task[s].msg
       IN  GroupDiscard(s, m) \/ Duplicate(s, m) \/ NotYetReceived(s, m)
    /\ UNCHANGED <<nonces, disposition, shared, mirror, network, losses, crashes, stored, removed, cut, advertised>>

\* Mutant: no check after the transactions.
AddMessageUnchecked(s, m) == Insert(m, task[s].frozen, FALSE)

\* addMessage.fromRemote, after its own transactions: the reflection may
\* have inserted the row meanwhile.
AddMessage(s, m) ==
    IF Has(m)
    THEN Resolve(m) /\ UNCHANGED stored
    ELSE Insert(m, task[s].frozen, FALSE)

Add(s) ==
    /\ task[s].stage = "add" /\ (s = "ghost" \/ ~Busy)
    /\ AddMessage(s, task[s].msg)
    /\ Goto(s, "record")
    /\ UNCHANGED <<nonces, disposition, shared, mirror, network, bounds, refused, removed, cut, advertised>>

Record(s) ==
    /\ task[s].stage = "record"
    /\ disposition' = disposition \cup {task[s].msg}
    /\ Goto(s, "commit")
    /\ UNCHANGED <<row, nonces, shared, mirror, network, bounds, history>>

\* Mutant: the guard stays with the task.
CommitKeepsGuard(s) ==
    /\ task[s].stage = "commit"
    /\ nonces' = IF task[s].guard THEN [nonces EXCEPT !.csp = @ \cup {task[s].msg}] ELSE nonces
    /\ Goto(s, "ack")
    /\ UNCHANGED <<row, disposition, shared, mirror, network, bounds, history>>

\* The nonce is persisted by whoever holds its guard: a copy that was
\* recovered holds none.
Commit(s) ==
    /\ task[s].stage = "commit"
    /\ nonces' = IF task[s].guard THEN [nonces EXCEPT !.csp = @ \cup {task[s].msg}] ELSE nonces
    /\ task' = [task EXCEPT ![s].stage = "ack", ![s].guard = FALSE]
    /\ UNCHANGED <<row, disposition, shared, mirror, network, bounds, history>>

Acknowledge ==
    /\ task["main"].stage = "ack" /\ ~Busy
    /\ wire' = wire \cup {<<"direct", task["main"].msg>>}
    /\ task' = [task EXCEPT !["main"] = NoTask]
    /\ UNCHANGED <<database, mirror, online, queue, begun, bounds, history>>

\* A task of an old connection fails when it uses it, at the latest for the
\* acknowledgement.
GhostFails ==
    /\ task["ghost"].stage \in {"steps", "add", "ack"}
    /\ task' = [task EXCEPT !["ghost"] = NoTask]
    /\ UNCHANGED <<database, mirror, network, bounds, history>>

-----------------------------------------------------------------------------
\* The reflected copy

\* Run between direct tasks, or by one that reads.
CanRead == online /\ ~Busy /\ task["main"].stage \in {"idle", "steps", "add"}

Reading(m) ==
    /\ CanRead /\ <<"reflected", m>> \in queue \ begun
    /\ begun' = begun \cup {<<"reflected", m>>}

\* The envelope's own nonce is known: acknowledged, not processed.
ReplayedReflection(m) ==
    /\ m \in nonces.d2d \/ mirror[m] # "idle"
    /\ wire' = wire \cup {<<"reflected", m>>}
    /\ UNCHANGED <<nonces, mirror>>

\* Mutant: a message whose CSP nonce is in use was processed already.
FreshReflectionSkipsUsed(m) ==
    /\ m \notin nonces.d2d /\ mirror[m] = "idle"
    /\ nonces' = [nonces EXCEPT !.csp = IF m \in Guarded THEN @ ELSE @ \cup {m}]
    /\ mirror' = [mirror EXCEPT ![m] = IF Reused(m) THEN "ack" ELSE "insert"]
    /\ UNCHANGED wire

\* The CSP nonce is persisted unless a direct copy has it: no reason to
\* skip the message.
FreshReflection(m) ==
    /\ m \notin nonces.d2d /\ mirror[m] = "idle"
    /\ nonces' = [nonces EXCEPT !.csp = IF m \in Guarded THEN @ ELSE @ \cup {m}]
    /\ mirror' = [mirror EXCEPT ![m] = "insert"]
    /\ UNCHANGED wire

Reflect(m) ==
    /\ Reading(m)
    /\ ReplayedReflection(m) \/ FreshReflection(m)
    /\ UNCHANGED <<row, disposition, shared, task, online, queue, bounds, history>>

\* Mutant: the disposition is not looked at.
SuppressedByRowOnly(m) == Has(m)

Suppressed(m) == m \in disposition \/ Has(m)

InsertReflection(m) ==
    /\ mirror[m] = "insert"
    /\ mirror' = [mirror EXCEPT ![m] = "ack"]
    /\ IF Suppressed(m) THEN UNCHANGED <<row, stored>> ELSE Insert(m, shared, TRUE)
    /\ UNCHANGED <<nonces, disposition, shared, task, network, bounds, refused, removed, cut, advertised>>

AcknowledgeReflection(m) ==
    /\ mirror[m] = "ack" /\ online /\ ~Busy
    /\ wire' = wire \cup {<<"reflected", m>>}
    /\ mirror' = [mirror EXCEPT ![m] = "commit"]
    /\ UNCHANGED <<database, task, online, queue, begun, bounds, history>>

CommitReflection(m) ==
    /\ mirror[m] = "commit" /\ ~Busy
    /\ nonces' = [nonces EXCEPT !.d2d = @ \cup {m}]
    /\ mirror' = [mirror EXCEPT ![m] = "idle"]
    /\ UNCHANGED <<row, disposition, shared, task, network, bounds, history>>

-----------------------------------------------------------------------------
\* The user, the sweep of expired messages and the conversation's timer

\* A pending row is stamped when it is resolved.
Read(m) ==
    /\ Has(m) /\ ~row[m].read /\ ~Busy
    /\ row' = [row EXCEPT ![m].read = TRUE, ![m].expires = ~row[m].pending /\ row[m].timer > 0]
    /\ UNCHANGED <<nonces, disposition, shared, memory, network, bounds, history>>

Purge(m) == row' = [row EXCEPT ![m] = NoRow]

Expire(m) ==
    /\ Has(m) /\ row[m].expires /\ ~Busy
    /\ Purge(m)
    /\ UNCHANGED <<nonces, disposition, shared, memory, network, bounds, history>>

Meddle == ~Busy /\ meddling < MaxMeddling /\ meddling' = meddling + 1

Remove(m) ==
    /\ Has(m) /\ Meddle
    /\ Purge(m) /\ removed' = removed \cup {m}
    /\ UNCHANGED <<nonces, disposition, shared, memory, network, losses, crashes, stored, refused, cut, advertised>>

SetSharedTimer ==
    /\ Meddle
    /\ shared' \in Timers \ {shared}
    /\ UNCHANGED <<row, nonces, disposition, memory, network, losses, crashes, history>>

-----------------------------------------------------------------------------
\* Servers and connections

ServerReceives(c) ==
    /\ c \in wire /\ wire' = wire \ {c} /\ queue' = queue \ {c}
    /\ UNCHANGED <<database, memory, online, begun, bounds, history>>

\* A task that waits for the connection fails and discards its guard; one
\* that waits for the directory goes on.
Disconnect ==
    /\ online /\ ~Busy /\ losses < MaxLosses
    /\ task["main"].stage = "lookup" => task["ghost"] = NoTask     \* bound: one ghost
    /\ online' = FALSE /\ losses' = losses + 1
    /\ wire' = {} /\ begun' = {}
    /\ task' = [task EXCEPT !["main"] = NoTask,
                            !["ghost"] = IF task["main"].stage = "lookup" THEN task["main"] ELSE @]
    /\ mirror' = [m \in Messages |-> IF mirror[m] = "ack" THEN "idle" ELSE mirror[m]]
    /\ UNCHANGED <<database, queue, crashes, meddling, history>>

Reconnect ==
    /\ ~online /\ ~Busy /\ online' = TRUE
    /\ UNCHANGED <<database, memory, queue, begun, wire, bounds, history>>

\* At any point, between two writes too.
Crash ==
    /\ crashes < MaxCrashes /\ crashes' = crashes + 1
    /\ online' = FALSE /\ wire' = {} /\ begun' = {}
    /\ task' = [s \in Tasks |-> NoTask]
    /\ mirror' = [m \in Messages |-> "idle"]
    /\ cut' = cut \cup {m \in Messages : mirror[m] # "idle"}
                  \cup {task[s].msg : s \in {t \in Tasks : task[t].stage = "record"}}
    /\ UNCHANGED <<database, queue, losses, meddling, stored, refused, removed, advertised>>

-----------------------------------------------------------------------------
Direct == \E s \in Tasks : Lookup(s) \/ Steps(s) \/ Add(s) \/ Record(s) \/ Commit(s)

Reflection(m) ==
    Reflect(m) \/ InsertReflection(m) \/ AcknowledgeReflection(m) \/ CommitReflection(m)

Next ==
    \/ \E m \in Messages : StartDirect(m) \/ Reflection(m)
    \/ Direct \/ Acknowledge \/ GhostFails
    \/ \E m \in Messages : Read(m) \/ Expire(m) \/ Remove(m)
    \/ SetSharedTimer
    \/ \E c \in Copies : ServerReceives(c)
    \/ Disconnect \/ Reconnect \/ Crash

Spec == Init /\ [][Next]_vars

\* The worker and the servers answer; the connection comes back. Users,
\* losses and crashes owe nothing.
Fairness ==
    /\ WF_vars(Direct) /\ WF_vars(Acknowledge) /\ WF_vars(GhostFails) /\ WF_vars(Reconnect)
    /\ \A m \in Messages :
          WF_vars(StartDirect(m)) /\ WF_vars(Reflection(m)) /\ WF_vars(Expire(m))
    /\ \A c \in Copies : WF_vars(ServerReceives(c))

FairSpec == Spec /\ Fairness

-----------------------------------------------------------------------------
(***************************************************************************)
(* Properties                                                              *)
(***************************************************************************)

\* Types; a guard is held by the task past its lookup (incoming-message.ts,
\* _nonceGuard); what is on the wire was begun on this connection.
RowTypes ==
    row \in [Messages -> [copies : 0 .. 2, pending : BOOLEAN, timer : Timers,
                          read : BOOLEAN, expires : BOOLEAN]]
DatabaseTypes ==
    /\ nonces \in [csp : SUBSET Messages, d2d : SUBSET Messages]
    /\ disposition \subseteq Messages /\ shared \in Timers
TaskTypes ==
    /\ task \in [Tasks -> [msg : Messages \cup {NoMessage}, stage : Stages \cup {"idle"},
                           guard : BOOLEAN, frozen : Timers]]
    /\ \A s \in Tasks : task[s].guard => task[s].stage \in {"steps", "add", "record", "commit"}
    /\ mirror \in [Messages -> {"idle", "insert", "ack", "commit"}]
NetworkTypes ==
    /\ online \in BOOLEAN
    /\ queue \subseteq Copies /\ begun \subseteq Copies /\ wire \subseteq begun
BoundTypes ==
    /\ losses \in 0 .. MaxLosses /\ crashes \in 0 .. MaxCrashes /\ meddling \in 0 .. MaxMeddling
HistoryTypes ==
    /\ advertised \in [Messages -> Timers \cup {NoTimer}]
    /\ stored \subseteq Messages /\ refused \subseteq Messages
    /\ removed \subseteq Messages /\ cut \subseteq Messages
TypeOK == RowTypes /\ DatabaseTypes /\ TaskTypes /\ NetworkTypes /\ BoundTypes /\ HistoryTypes

\* However the two copies interleave, repeat and fail, a conversation never
\* has two rows of one message (conversation.ts, addMessage.fromRemote;
\* reflected-incoming-message.ts, hasMessage).
OneRow == \A m \in Messages : row[m].copies <= 1

\* A message that no server holds any more was stored, or refused on
\* purpose: no copy is acknowledged on the strength of a nonce that the
\* other copy registered and did not live to use.
NotLost == \A m \in Messages : (\A c \in queue : c[2] # m) => m \in stored \cup refused

\* A settled row has the timer that the sender advertised, whichever copy
\* inserted it and whatever the conversation's timer was meanwhile; it expires
\* by that timer once it was read and settled, in either order, and never before.
TimerTrue ==
    \A m \in Messages : Has(m) =>
        /\ ~row[m].pending /\ advertised[m] # NoTimer => row[m].timer = advertised[m]
        /\ row[m].expires <=> row[m].read /\ ~row[m].pending /\ row[m].timer > 0

\* Once a direct copy has left its disposition and its nonce, a message
\* that expired or was removed never comes back.
Purged(m) == m \in disposition /\ m \in nonces.csp /\ ~Has(m)
PurgedForGood == [][\A m \in Messages : Purged(m) => ~Has(m)']_vars

\* The servers get rid of both copies of every message.
QueueDrains == \A c \in Copies : c \in queue ~> c \notin queue

\* A pending row is settled by the direct copy (and so may expire), unless
\* the user removed the message, or the process ended inside its reflection
\* or before the direct copy left its disposition.
PendingSettles ==
    \A m \in Messages : Pending(m) ~> (~Pending(m) \/ m \in removed \cup cut)

\* As the comment before _tryRecoverReflectedDuplicateMetadata has it: where
\* a reflected row waits to be recovered, its nonce is used up, and no copy
\* of the message is processed again.
PendingHasNonce == \A m \in Messages : Pending(m) => Reused(m)

================================================================================
