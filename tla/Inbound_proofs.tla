---------------------------- MODULE Inbound_proofs ----------------------------
(***************************************************************************)
(* Proofs, for any messages and timers, about the two copies of a message. *)
(* The inductive invariant says of each durable trace what it stands for:  *)
(* a row, a disposition, a nonce of the envelope or an acknowledgement of  *)
(* the reflected copy is only there once the message was stored or         *)
(* refused; and it says that a CSP nonce has one holder, so that none but  *)
(* the task with the guard is going to insert a row.                       *)
(***************************************************************************)
EXTENDS Inbound, TLAPS

\* The constants' types, where a step needs them.
USE DEF Copies, Tasks, Stages, Synchronous

Settled == stored \cup refused

\* A task that is not idle is of a message; the one of this connection, and
\* a reflected copy that is not acknowledged, were begun on it.
TaskOf ==
    /\ \A s \in Tasks : task[s].stage # "idle" => task[s].msg \in Messages
    /\ task["main"].stage # "idle" => <<"direct", task["main"].msg>> \in begun
    /\ \A m \in Messages : mirror[m] \in {"insert", "ack"} => <<"reflected", m>> \in begun

\* A CSP nonce is free, or persisted, or guarded by one task; who is about
\* to insert a row guards it.
GuardOf ==
    /\ \A s \in Tasks : task[s].stage \in {"steps", "add"} => task[s].guard
    /\ \A s \in Tasks : task[s].guard => task[s].msg \notin nonces.csp
    /\ \A s, t \in Tasks : task[s].guard /\ task[t].guard /\ task[s].msg = task[t].msg => s = t

RecordSettled == \A s \in Tasks : task[s].stage = "record" => task[s].msg \in Settled
TraceSettled == disposition \cup nonces.d2d \subseteq Settled
ReflectedSettled ==
    \A m \in Messages :
        \/ mirror[m] \in {"ack", "commit"}
        \/ <<"reflected", m>> \in wire \/ <<"reflected", m>> \notin queue
        => m \in Settled

\* What was recorded of a message is of one that was stored or refused.
TraceOf ==
    /\ \A m \in Messages : row[m].copies \in 0 .. 1
    /\ \A m \in Messages : Has(m) => m \in stored
    /\ RecordSettled /\ TraceSettled /\ ReflectedSettled

\* The timer frozen for a row is the advertised one.
FrozenOf ==
    \A s \in Tasks :
        task[s].stage = "add" /\ advertised[task[s].msg] # NoTimer
        => task[s].frozen = advertised[task[s].msg]

Inv == TypeOK /\ TaskOf /\ GuardOf /\ TraceOf /\ FrozenOf /\ TimerTrue

-----------------------------------------------------------------------------
\* Type correctness

\* The invariant holds initially.
LEMMA InitInv == Init => Inv
<1> SUFFICES ASSUME Init PROVE Inv
  OBVIOUS
<1> USE InboundAssumption DEF Init, NoTask, NoRow
<1>1. TypeOK
  BY DEF TypeOK, RowTypes, DatabaseTypes, TaskTypes, NetworkTypes, BoundTypes, HistoryTypes
<1>2. TaskOf /\ GuardOf /\ TraceOf /\ FrozenOf
  BY DEF TaskOf, GuardOf, TraceOf, RecordSettled, TraceSettled, ReflectedSettled, FrozenOf, Has,
     Settled
<1>3. TimerTrue
  BY DEF TimerTrue, Has
<1> QED
  BY <1>1, <1>2, <1>3 DEF Inv

-----------------------------------------------------------------------------
\* What a step does to a row

Rows == [copies : 0 .. 2, pending : BOOLEAN, timer : Timers, read : BOOLEAN, expires : BOOLEAN]

\* A direct copy is about to, or a reflected one may.
MayInsert(m) ==
    m \notin disposition \/ \E s \in Tasks : task[s].stage = "add" /\ task[s].msg = m

Inserted(m, r) ==
    /\ ~Has(m) /\ m \in stored' /\ MayInsert(m)
    /\ r.copies = 1 /\ ~r.read /\ ~r.expires
    /\ ~r.pending /\ advertised[m] # NoTimer => r.timer = advertised[m]
Settles(m, r) == Pending(m) /\ r = Resolved(m)
Reads(m, r) ==
    /\ Has(m)
    /\ r = [row[m] EXCEPT !.read = TRUE, !.expires = ~row[m].pending /\ row[m].timer > 0]

RowStep(m, r) ==
    /\ row' = [row EXCEPT ![m] = r]
    /\ Inserted(m, r) \/ Settles(m, r) \/ Reads(m, r) \/ r = NoRow

\* An insertion is one of the cases of a row.
LEMMA InsertIsStep ==
    ASSUME Inv, NEW m \in Messages, NEW t \in Timers, NEW p \in BOOLEAN,
           ~Has(m), Insert(m, t, p), MayInsert(m), ~p /\ advertised[m] # NoTimer => t =
              advertised[m]
    PROVE  \E r \in Rows : RowStep(m, r)
<1> DEFINE r == [copies |-> 1, pending |-> p, timer |-> t, read |-> FALSE, expires |-> FALSE]
<1>1. row[m].copies = 0
  BY DEF Inv, TypeOK, RowTypes, DatabaseTypes, Has
<1>2. row' = [row EXCEPT ![m] = r] /\ m \in stored'
  BY <1>1 DEF Insert, Inv, TypeOK, RowTypes, DatabaseTypes
<1>3. r \in Rows /\ Inserted(m, r)
  BY <1>2 DEF Rows, Inserted
<1> QED
  BY <1>2, <1>3 DEF RowStep

\* A resolved row is a row.
LEMMA ResolutionTyped ==
    ASSUME Inv, NEW m \in Messages
    PROVE  Resolved(m) \in Rows /\ Resolution(m) \in Timers
<1>1. row[m] \in Rows
  BY DEF Inv, TypeOK, RowTypes, DatabaseTypes, Rows
<1>2. Resolution(m) \in Timers
  BY <1>1 DEF Inv, TypeOK, HistoryTypes, Resolution, Rows
<1> QED
  BY <1>1, <1>2 DEF Resolved, Rows

\* A resolution is one of the cases of a row.
LEMMA ResolveIsStep ==
    ASSUME Inv, NEW m \in Messages, Resolve(m)
    PROVE  UNCHANGED row \/ \E r \in Rows : RowStep(m, r)
BY ResolutionTyped DEF Resolve, RowStep, Settles

\* So is reading it.
LEMMA ReadIsStep ==
    ASSUME Inv, NEW m \in Messages, Read(m)
    PROVE  \E r \in Rows : RowStep(m, r)
<1> DEFINE r == [row[m] EXCEPT !.read = TRUE, !.expires = ~row[m].pending /\ row[m].timer > 0]
<1>1. row[m] \in Rows
  BY DEF Inv, TypeOK, RowTypes, DatabaseTypes, Rows
<1>2. r \in Rows
  BY <1>1 DEF Rows
<1>3. row' = [row EXCEPT ![m] = r]
  BY <1>1 DEF Read, Inv, TypeOK, RowTypes, DatabaseTypes, Rows
<1> QED
  BY <1>2, <1>3 DEF Read, RowStep, Reads

\* So is purging it.
LEMMA PurgeIsStep ==
    ASSUME NEW m \in Messages, Purge(m)
    PROVE  \E r \in Rows : RowStep(m, r)
<1>1. NoRow \in Rows
  BY InboundAssumption DEF NoRow, Rows
<1> QED
  BY <1>1 DEF Purge, RowStep

\* Every step does one of these things to one row, or nothing.
LEMMA RowCases ==
    ASSUME Inv, Next
    PROVE  UNCHANGED row \/ \E m \in Messages, r \in Rows : RowStep(m, r)
<1> DEFINE Goal == UNCHANGED row \/ \E m \in Messages, r \in Rows : RowStep(m, r)
<1> USE DEF vars, database, memory, network, bounds, history
<1>1. \A s \in Tasks : Lookup(s) \/ Steps(s) => Goal
  <2> TAKE s \in Tasks
  <2> DEFINE m == task[s].msg
  <2>1. Lookup(s) \/ Steps(s) => m \in Messages
    BY DEF Lookup, Steps, Inv, TaskOf
  <2>2. Lookup(s) => UNCHANGED row \/ Resolve(m)
    BY DEF Lookup, Recover, NonceReused, Refuse, Accept
  <2>3. Steps(s) => UNCHANGED row \/ Resolve(m)
    BY DEF Steps, GroupDiscard, Duplicate, NotYetReceived
  <2> QED
    BY <2>1, <2>2, <2>3, ResolveIsStep
<1>2. \A s \in Tasks : Add(s) => Goal
  <2> SUFFICES ASSUME NEW s \in Tasks, Add(s) PROVE Goal
    OBVIOUS
  <2> DEFINE m == task[s].msg
  <2>1. m \in Messages /\ task[s].frozen \in Timers
    BY DEF Add, Inv, TypeOK, TaskTypes, TaskOf
  <2>2. advertised[m] # NoTimer => task[s].frozen = advertised[m]
    BY DEF Add, Inv, FrozenOf
  <2>3. CASE Has(m)
    BY <2>1, <2>3, ResolveIsStep DEF Add, AddMessage
  <2>4. CASE ~Has(m)
    <3>1. Insert(m, task[s].frozen, FALSE) /\ MayInsert(m)
      BY <2>4 DEF Add, AddMessage, MayInsert
    <3> QED
      BY <2>1, <2>2, <2>4, <3>1, InsertIsStep
  <2> QED
    BY <2>3, <2>4
<1>3. \A m \in Messages : InsertReflection(m) => Goal
  <2> SUFFICES ASSUME NEW m \in Messages, InsertReflection(m) PROVE Goal
    OBVIOUS
  <2>1. CASE Suppressed(m)
    BY <2>1 DEF InsertReflection
  <2>2. CASE ~Suppressed(m)
    <3>1. ~Has(m) /\ Insert(m, shared, TRUE) /\ shared \in Timers /\ MayInsert(m)
      BY <2>2 DEF InsertReflection, Suppressed, MayInsert, Inv, TypeOK, RowTypes, DatabaseTypes
    <3> QED
      BY <3>1, InsertIsStep
  <2> QED
    BY <2>1, <2>2
<1>4. \A m \in Messages : Read(m) => Goal
  BY ReadIsStep
<1>5. \A m \in Messages : Expire(m) \/ Remove(m) => Goal
  BY PurgeIsStep DEF Expire, Remove
<1>6. ASSUME NEW m \in Messages,
             StartDirect(m) \/ Reflect(m) \/ AcknowledgeReflection(m) \/ CommitReflection(m)
      PROVE  UNCHANGED row
  BY <1>6 DEF StartDirect, Reflect, AcknowledgeReflection, CommitReflection
<1>7. ASSUME NEW s \in Tasks, Record(s) \/ Commit(s)
      PROVE  UNCHANGED row
  BY <1>7 DEF Record, Commit
<1>8. ASSUME \/ Acknowledge \/ GhostFails \/ SetSharedTimer \/ Disconnect \/ Reconnect \/ Crash
             \/ \E c \in Copies : ServerReceives(c)
      PROVE  UNCHANGED row
  BY <1>8 DEF Acknowledge, GhostFails, SetSharedTimer, Disconnect, Reconnect, Crash, ServerReceives
<1> HIDE DEF Goal
<1>9. Goal
  BY <1>1, <1>2, <1>3, <1>4, <1>5, <1>6, <1>7, <1>8 DEF Next, Direct, Reflection, Goal
<1> QED
  BY <1>9 DEF Goal

-----------------------------------------------------------------------------

-----------------------------------------------------------------------------
\* Every part of the invariant

\* What was stored or refused is only added to.
LEMMA HistoryGrows ==
    ASSUME Inv, Next
    PROVE  stored \subseteq stored' /\ refused \subseteq refused' /\ UNCHANGED advertised
<1> USE DEF history, bounds, network, memory, database
<1>1. ASSUME NEW m \in Messages, StartDirect(m) \/ Reflection(m)
      PROVE  stored \subseteq stored' /\ refused \subseteq refused' /\ UNCHANGED advertised
  BY <1>1 DEF StartDirect, Reflection, Reflect, InsertReflection, AcknowledgeReflection,
              CommitReflection, Insert
<1>2. ASSUME NEW s \in Tasks, Lookup(s) \/ Steps(s)
      PROVE  stored \subseteq stored' /\ refused \subseteq refused' /\ UNCHANGED advertised
  BY <1>2 DEF Lookup, Steps, Recover, NonceReused, Refuse, Accept, GroupDiscard, Duplicate,
              NotYetReceived
<1>3. ASSUME NEW s \in Tasks, Add(s) \/ Record(s) \/ Commit(s)
      PROVE  stored \subseteq stored' /\ refused \subseteq refused' /\ UNCHANGED advertised
  BY <1>3 DEF Add, AddMessage, Insert, Record, Commit
<1>4. ASSUME NEW m \in Messages, Read(m) \/ Expire(m) \/ Remove(m)
      PROVE  stored \subseteq stored' /\ refused \subseteq refused' /\ UNCHANGED advertised
  BY <1>4 DEF Read, Expire, Remove
<1>5. ASSUME \/ Acknowledge \/ GhostFails \/ SetSharedTimer \/ Disconnect \/ Reconnect \/ Crash
             \/ \E c \in Copies : ServerReceives(c)
      PROVE  stored \subseteq stored' /\ refused \subseteq refused' /\ UNCHANGED advertised
  BY <1>5 DEF Acknowledge, GhostFails, SetSharedTimer, Disconnect, Reconnect, Crash, ServerReceives
<1> QED
  BY <1>1, <1>2, <1>3, <1>4, <1>5 DEF Next, Direct

\* A row is inserted once, stays the stored message's, and has its timer.
LEMMA RowsStep ==
    ASSUME Inv, Next
    PROVE  /\ row' \in [Messages -> Rows]
           /\ \A m \in Messages : row'[m].copies \in 0 .. 1
           /\ \A m \in Messages : row'[m].copies > 0 => m \in stored'
           /\ TimerTrue'
<1> USE DEF Inv, TypeOK, RowTypes, DatabaseTypes, Rows
<1>1. CASE UNCHANGED row
  BY <1>1, HistoryGrows DEF TraceOf, TimerTrue, Has
<1>2. ASSUME NEW m \in Messages, NEW r \in Rows, RowStep(m, r)
      PROVE  /\ row' \in [Messages -> Rows]
             /\ \A n \in Messages : row'[n].copies \in 0 .. 1
             /\ \A n \in Messages : row'[n].copies > 0 => n \in stored'
             /\ TimerTrue'
  <2>1. row' = [row EXCEPT ![m] = r]
    BY <1>2 DEF RowStep
  <2>2. /\ r.copies \in 0 .. 1
        /\ r.copies > 0 => m \in stored'
        /\ r.copies > 0 /\ ~r.pending /\ advertised[m] # NoTimer => r.timer = advertised[m]
        /\ r.copies > 0 => (r.expires <=> r.read /\ ~r.pending /\ r.timer > 0)
    <3>1. CASE Inserted(m, r)
      BY <3>1 DEF Inserted
    <3>2. CASE Settles(m, r)
      <4>1. Has(m) /\ row[m].pending /\ r = Resolved(m) /\ row[m].copies \in 0 .. 1 /\ m \in stored'
        BY <3>2, HistoryGrows DEF Settles, Pending, TraceOf
      <4>2. Resolution(m) \in Timers
        BY ResolutionTyped
      <4> QED
        BY <4>1, <4>2 DEF Resolved, Resolution
    <3>3. CASE Reads(m, r)
      BY <3>3, HistoryGrows DEF Reads, TraceOf, TimerTrue
    <3>4. CASE r = NoRow
      BY <3>4 DEF NoRow
    <3> QED
      BY <1>2, <3>1, <3>2, <3>3, <3>4 DEF RowStep
  <2>3. \A n \in Messages : n # m => row'[n] = row[n]
    BY <2>1
  <2>4. row'[m] = r
    BY <2>1
  <2>5. TimerTrue'
    BY <2>2, <2>3, <2>4, HistoryGrows DEF TimerTrue, Has
  <2> QED
    BY <2>1, <2>2, <2>3, <2>4, <2>5, HistoryGrows DEF TraceOf, Has
<1> QED
  BY <1>1, <1>2, RowCases

\* Types: one step per action, here and below.
LEMMA TaskTypesStep ==
    ASSUME Inv, Next
    PROVE  TaskTypes'
<1> USE InboundAssumption DEF Inv, TypeOK, TaskTypes, TaskOf, NoTask, memory
<1>1. ASSUME NEW m \in Messages, StartDirect(m) PROVE TaskTypes'
  BY <1>1 DEF StartDirect
<1>2. ASSUME NEW s \in Tasks, Lookup(s) PROVE TaskTypes'
  BY <1>2 DEF Lookup, Recover, NonceReused, Refuse, Accept, Goto, Guard
<1>3. ASSUME NEW s \in Tasks, Steps(s) PROVE TaskTypes'
  BY <1>3 DEF Steps, GroupDiscard, Duplicate, NotYetReceived, Goto, Freeze, HistoryTypes,
     RowTypes, DatabaseTypes
<1>4. ASSUME NEW s \in Tasks, Add(s) PROVE TaskTypes'
  BY <1>4 DEF Add, AddMessage, Goto
<1>5. ASSUME NEW s \in Tasks, Record(s) PROVE TaskTypes'
  BY <1>5 DEF Record, Goto
<1>6. ASSUME NEW s \in Tasks, Commit(s) PROVE TaskTypes'
  BY <1>6 DEF Commit
<1>7. CASE Acknowledge
  BY <1>7 DEF Acknowledge
<1>8. CASE GhostFails
  BY <1>8 DEF GhostFails
<1>9. ASSUME NEW m \in Messages, Reflect(m) PROVE TaskTypes'
  BY <1>9 DEF Reflect, Reading, ReplayedReflection, FreshReflection
<1>10. ASSUME NEW m \in Messages, InsertReflection(m) PROVE TaskTypes'
  BY <1>10 DEF InsertReflection
<1>11. ASSUME NEW m \in Messages, AcknowledgeReflection(m) PROVE TaskTypes'
  BY <1>11 DEF AcknowledgeReflection
<1>12. ASSUME NEW m \in Messages, CommitReflection(m) PROVE TaskTypes'
  BY <1>12 DEF CommitReflection
<1>13. ASSUME NEW m \in Messages, Read(m) \/ Expire(m) \/ Remove(m) PROVE TaskTypes'
  BY <1>13 DEF Read, Expire, Remove, Meddle
<1>14. CASE SetSharedTimer
  BY <1>14 DEF SetSharedTimer, Meddle
<1>15. ASSUME NEW c \in Copies, ServerReceives(c) PROVE TaskTypes'
  BY <1>15 DEF ServerReceives
<1>16. CASE Disconnect
  BY <1>16 DEF Disconnect
<1>17. CASE Reconnect
  BY <1>17 DEF Reconnect
<1>18. CASE Crash
  BY <1>18 DEF Crash
<1> QED
  BY <1>1, <1>2, <1>3, <1>4, <1>5, <1>6, <1>7, <1>8, <1>9, <1>10, <1>11, <1>12, <1>13, <1>14,
     <1>15, <1>16, <1>17, <1>18
     DEF Next, Direct, Reflection

\* The network keeps its types.
LEMMA NetworkTypesStep ==
    ASSUME Inv, Next
    PROVE  NetworkTypes'
<1> USE InboundAssumption DEF Inv, TypeOK, NetworkTypes, TaskOf, network, TaskTypes
<1>1. ASSUME NEW m \in Messages, StartDirect(m) PROVE NetworkTypes'
  BY <1>1 DEF StartDirect
<1>2. ASSUME NEW s \in Tasks, Lookup(s) PROVE NetworkTypes'
  BY <1>2 DEF Lookup, Recover, NonceReused, Refuse, Accept, Goto, Guard
<1>3. ASSUME NEW s \in Tasks, Steps(s) PROVE NetworkTypes'
  BY <1>3 DEF Steps, GroupDiscard, Duplicate, NotYetReceived, Goto
<1>4. ASSUME NEW s \in Tasks, Add(s) PROVE NetworkTypes'
  BY <1>4 DEF Add, AddMessage, Goto
<1>5. ASSUME NEW s \in Tasks, Record(s) PROVE NetworkTypes'
  BY <1>5 DEF Record, Goto
<1>6. ASSUME NEW s \in Tasks, Commit(s) PROVE NetworkTypes'
  BY <1>6 DEF Commit
<1>7. CASE Acknowledge
  BY <1>7 DEF Acknowledge
<1>8. CASE GhostFails
  BY <1>8 DEF GhostFails
<1>9. ASSUME NEW m \in Messages, Reflect(m) PROVE NetworkTypes'
  BY <1>9 DEF Reflect, Reading, ReplayedReflection, FreshReflection
<1>10. ASSUME NEW m \in Messages, InsertReflection(m) PROVE NetworkTypes'
  BY <1>10 DEF InsertReflection
<1>11. ASSUME NEW m \in Messages, AcknowledgeReflection(m) PROVE NetworkTypes'
  BY <1>11 DEF AcknowledgeReflection
<1>12. ASSUME NEW m \in Messages, CommitReflection(m) PROVE NetworkTypes'
  BY <1>12 DEF CommitReflection
<1>13. ASSUME NEW m \in Messages, Read(m) \/ Expire(m) \/ Remove(m) PROVE NetworkTypes'
  BY <1>13 DEF Read, Expire, Remove, Meddle
<1>14. CASE SetSharedTimer
  BY <1>14 DEF SetSharedTimer, Meddle
<1>15. ASSUME NEW c \in Copies, ServerReceives(c) PROVE NetworkTypes'
  BY <1>15 DEF ServerReceives
<1>16. CASE Disconnect
  BY <1>16 DEF Disconnect
<1>17. CASE Reconnect
  BY <1>17 DEF Reconnect
<1>18. CASE Crash
  BY <1>18 DEF Crash
<1> QED
  BY <1>1, <1>2, <1>3, <1>4, <1>5, <1>6, <1>7, <1>8, <1>9, <1>10, <1>11, <1>12, <1>13, <1>14,
     <1>15, <1>16, <1>17, <1>18
     DEF Next, Direct, Reflection

\* So do the counters.
LEMMA BoundTypesStep ==
    ASSUME Inv, Next
    PROVE  BoundTypes'
<1> USE InboundAssumption DEF Inv, TypeOK, BoundTypes, bounds
<1>1. ASSUME NEW m \in Messages, StartDirect(m) PROVE BoundTypes'
  BY <1>1 DEF StartDirect
<1>2. ASSUME NEW s \in Tasks, Lookup(s) PROVE BoundTypes'
  BY <1>2 DEF Lookup, Recover, NonceReused, Refuse, Accept, Goto, Guard
<1>3. ASSUME NEW s \in Tasks, Steps(s) PROVE BoundTypes'
  BY <1>3 DEF Steps, GroupDiscard, Duplicate, NotYetReceived, Goto
<1>4. ASSUME NEW s \in Tasks, Add(s) PROVE BoundTypes'
  BY <1>4 DEF Add, AddMessage, Goto
<1>5. ASSUME NEW s \in Tasks, Record(s) PROVE BoundTypes'
  BY <1>5 DEF Record, Goto
<1>6. ASSUME NEW s \in Tasks, Commit(s) PROVE BoundTypes'
  BY <1>6 DEF Commit
<1>7. CASE Acknowledge
  BY <1>7 DEF Acknowledge
<1>8. CASE GhostFails
  BY <1>8 DEF GhostFails
<1>9. ASSUME NEW m \in Messages, Reflect(m) PROVE BoundTypes'
  BY <1>9 DEF Reflect, Reading, ReplayedReflection, FreshReflection
<1>10. ASSUME NEW m \in Messages, InsertReflection(m) PROVE BoundTypes'
  BY <1>10 DEF InsertReflection
<1>11. ASSUME NEW m \in Messages, AcknowledgeReflection(m) PROVE BoundTypes'
  BY <1>11 DEF AcknowledgeReflection
<1>12. ASSUME NEW m \in Messages, CommitReflection(m) PROVE BoundTypes'
  BY <1>12 DEF CommitReflection
<1>13. ASSUME NEW m \in Messages, Read(m) \/ Expire(m) \/ Remove(m) PROVE BoundTypes'
  BY <1>13 DEF Read, Expire, Remove, Meddle
<1>14. CASE SetSharedTimer
  BY <1>14 DEF SetSharedTimer, Meddle
<1>15. ASSUME NEW c \in Copies, ServerReceives(c) PROVE BoundTypes'
  BY <1>15 DEF ServerReceives
<1>16. CASE Disconnect
  BY <1>16 DEF Disconnect
<1>17. CASE Reconnect
  BY <1>17 DEF Reconnect
<1>18. CASE Crash
  BY <1>18 DEF Crash
<1> QED
  BY <1>1, <1>2, <1>3, <1>4, <1>5, <1>6, <1>7, <1>8, <1>9, <1>10, <1>11, <1>12, <1>13, <1>14,
     <1>15, <1>16, <1>17, <1>18
     DEF Next, Direct, Reflection

\* So does what was recorded of the past.
LEMMA HistoryTypesStep ==
    ASSUME Inv, Next
    PROVE  HistoryTypes'
<1> USE InboundAssumption DEF Inv, TypeOK, HistoryTypes, history, TaskOf
<1>1. ASSUME NEW m \in Messages, StartDirect(m) PROVE HistoryTypes'
  BY <1>1 DEF StartDirect
<1>2. ASSUME NEW s \in Tasks, Lookup(s) PROVE HistoryTypes'
  BY <1>2 DEF Lookup, Recover, NonceReused, Refuse, Accept, Goto, Guard
<1>3. ASSUME NEW s \in Tasks, Steps(s) PROVE HistoryTypes'
  BY <1>3 DEF Steps, GroupDiscard, Duplicate, NotYetReceived, Goto
<1>4. ASSUME NEW s \in Tasks, Add(s) PROVE HistoryTypes'
  BY <1>4 DEF Add, AddMessage, Goto, Insert
<1>5. ASSUME NEW s \in Tasks, Record(s) PROVE HistoryTypes'
  BY <1>5 DEF Record, Goto
<1>6. ASSUME NEW s \in Tasks, Commit(s) PROVE HistoryTypes'
  BY <1>6 DEF Commit
<1>7. CASE Acknowledge
  BY <1>7 DEF Acknowledge
<1>8. CASE GhostFails
  BY <1>8 DEF GhostFails
<1>9. ASSUME NEW m \in Messages, Reflect(m) PROVE HistoryTypes'
  BY <1>9 DEF Reflect, Reading, ReplayedReflection, FreshReflection
<1>10. ASSUME NEW m \in Messages, InsertReflection(m) PROVE HistoryTypes'
  BY <1>10 DEF InsertReflection, Insert
<1>11. ASSUME NEW m \in Messages, AcknowledgeReflection(m) PROVE HistoryTypes'
  BY <1>11 DEF AcknowledgeReflection
<1>12. ASSUME NEW m \in Messages, CommitReflection(m) PROVE HistoryTypes'
  BY <1>12 DEF CommitReflection
<1>13. ASSUME NEW m \in Messages, Read(m) \/ Expire(m) \/ Remove(m) PROVE HistoryTypes'
  BY <1>13 DEF Read, Expire, Remove, Meddle
<1>14. CASE SetSharedTimer
  BY <1>14 DEF SetSharedTimer, Meddle
<1>15. ASSUME NEW c \in Copies, ServerReceives(c) PROVE HistoryTypes'
  BY <1>15 DEF ServerReceives
<1>16. CASE Disconnect
  BY <1>16 DEF Disconnect
<1>17. CASE Reconnect
  BY <1>17 DEF Reconnect
<1>18. CASE Crash
  BY <1>18 DEF Crash, TaskTypes
<1> QED
  BY <1>1, <1>2, <1>3, <1>4, <1>5, <1>6, <1>7, <1>8, <1>9, <1>10, <1>11, <1>12, <1>13, <1>14,
     <1>15, <1>16, <1>17, <1>18
     DEF Next, Direct, Reflection

\* A task is of a message that was begun on its connection.
LEMMA TaskOfStep ==
    ASSUME Inv, Next
    PROVE  TaskOf'
<1> USE DEF Inv, TypeOK, TaskTypes, NetworkTypes, TaskOf, NoTask, memory, network
<1>1. ASSUME NEW m \in Messages, StartDirect(m) PROVE TaskOf'
  BY <1>1 DEF StartDirect
<1>2. ASSUME NEW s \in Tasks, Lookup(s) PROVE TaskOf'
  BY <1>2 DEF Lookup, Recover, NonceReused, Refuse, Accept, Goto, Guard
<1>3. ASSUME NEW s \in Tasks, Steps(s) PROVE TaskOf'
  BY <1>3 DEF Steps, GroupDiscard, Duplicate, NotYetReceived, Goto
<1>4. ASSUME NEW s \in Tasks, Add(s) PROVE TaskOf'
  BY <1>4 DEF Add, AddMessage, Goto
<1>5. ASSUME NEW s \in Tasks, Record(s) PROVE TaskOf'
  BY <1>5 DEF Record, Goto
<1>6. ASSUME NEW s \in Tasks, Commit(s) PROVE TaskOf'
  BY <1>6 DEF Commit
<1>7. CASE Acknowledge
  BY <1>7 DEF Acknowledge
<1>8. CASE GhostFails
  BY <1>8 DEF GhostFails
<1>9. ASSUME NEW m \in Messages, Reflect(m) PROVE TaskOf'
  BY <1>9 DEF Reflect, Reading, ReplayedReflection, FreshReflection
<1>10. ASSUME NEW m \in Messages, InsertReflection(m) PROVE TaskOf'
  BY <1>10 DEF InsertReflection
<1>11. ASSUME NEW m \in Messages, AcknowledgeReflection(m) PROVE TaskOf'
  BY <1>11 DEF AcknowledgeReflection
<1>12. ASSUME NEW m \in Messages, CommitReflection(m) PROVE TaskOf'
  BY <1>12 DEF CommitReflection
<1>13. ASSUME NEW m \in Messages, Read(m) \/ Expire(m) \/ Remove(m) PROVE TaskOf'
  BY <1>13 DEF Read, Expire, Remove, Meddle
<1>14. CASE SetSharedTimer
  BY <1>14 DEF SetSharedTimer, Meddle
<1>15. ASSUME NEW c \in Copies, ServerReceives(c) PROVE TaskOf'
  BY <1>15 DEF ServerReceives
<1>16. CASE Disconnect
  <2>1. \A m \in Messages : mirror'[m] \notin {"insert", "ack"}
    BY <1>16 DEF Disconnect, Busy
  <2>2. task' = [task EXCEPT !["main"] = NoTask,
                             !["ghost"] = IF task["main"].stage = "lookup" THEN task["main"] ELSE @]
    BY <1>16 DEF Disconnect
  <2>3. task'["main"].stage = "idle"
    BY <2>2
  <2>4. \A t \in Tasks : task'[t].stage # "idle" => task'[t].msg \in Messages
    BY <2>2
  <2> QED
    BY <2>1, <2>3, <2>4
<1>17. CASE Reconnect
  BY <1>17 DEF Reconnect
<1>18. CASE Crash
  BY <1>18 DEF Crash
<1> QED
  BY <1>1, <1>2, <1>3, <1>4, <1>5, <1>6, <1>7, <1>8, <1>9, <1>10, <1>11, <1>12, <1>13, <1>14,
     <1>15, <1>16, <1>17, <1>18
     DEF Next, Direct, Reflection

\* Only who finds a nonce free takes its guard, and persisting it gives the guard up.
LEMMA GuardOfStep ==
    ASSUME Inv, Next
    PROVE  GuardOf'
<1> USE DEF Inv, TypeOK, TaskTypes, RowTypes, DatabaseTypes, TaskOf, GuardOf, NoTask, memory,
        database, Reused, Guarded
<1>1. ASSUME NEW m \in Messages, StartDirect(m) PROVE GuardOf'
  BY <1>1 DEF StartDirect
<1>2. ASSUME NEW s \in Tasks, Lookup(s) PROVE GuardOf'
  BY <1>2 DEF Lookup, Recover, NonceReused, Refuse, Accept, Goto, Guard
<1>3. ASSUME NEW s \in Tasks, Steps(s) PROVE GuardOf'
  BY <1>3 DEF Steps, GroupDiscard, Duplicate, NotYetReceived, Goto
<1>4. ASSUME NEW s \in Tasks, Add(s) PROVE GuardOf'
  BY <1>4 DEF Add, AddMessage, Goto
<1>5. ASSUME NEW s \in Tasks, Record(s) PROVE GuardOf'
  BY <1>5 DEF Record, Goto
<1>6. ASSUME NEW s \in Tasks, Commit(s) PROVE GuardOf'
  BY <1>6 DEF Commit
<1>7. CASE Acknowledge
  BY <1>7 DEF Acknowledge
<1>8. CASE GhostFails
  BY <1>8 DEF GhostFails
<1>9. ASSUME NEW m \in Messages, Reflect(m) PROVE GuardOf'
  BY <1>9 DEF Reflect, Reading, ReplayedReflection, FreshReflection
<1>10. ASSUME NEW m \in Messages, InsertReflection(m) PROVE GuardOf'
  BY <1>10 DEF InsertReflection
<1>11. ASSUME NEW m \in Messages, AcknowledgeReflection(m) PROVE GuardOf'
  BY <1>11 DEF AcknowledgeReflection
<1>12. ASSUME NEW m \in Messages, CommitReflection(m) PROVE GuardOf'
  BY <1>12 DEF CommitReflection
<1>13. ASSUME NEW m \in Messages, Read(m) \/ Expire(m) \/ Remove(m) PROVE GuardOf'
  BY <1>13 DEF Read, Expire, Remove, Meddle
<1>14. CASE SetSharedTimer
  BY <1>14 DEF SetSharedTimer, Meddle
<1>15. ASSUME NEW c \in Copies, ServerReceives(c) PROVE GuardOf'
  BY <1>15 DEF ServerReceives
<1>16. CASE Disconnect
  BY <1>16 DEF Disconnect
<1>17. CASE Reconnect
  BY <1>17 DEF Reconnect
<1>18. CASE Crash
  BY <1>18 DEF Crash
<1> QED
  BY <1>1, <1>2, <1>3, <1>4, <1>5, <1>6, <1>7, <1>8, <1>9, <1>10, <1>11, <1>12, <1>13, <1>14,
     <1>15, <1>16, <1>17, <1>18
     DEF Next, Direct, Reflection

\* The timer is frozen when the steps are done.
LEMMA FrozenOfStep ==
    ASSUME Inv, Next
    PROVE  FrozenOf'
<1> USE HistoryGrows DEF Inv, TypeOK, TaskTypes, FrozenOf, NoTask, memory
<1>1. ASSUME NEW m \in Messages, StartDirect(m) PROVE FrozenOf'
  BY <1>1 DEF StartDirect
<1>2. ASSUME NEW s \in Tasks, Lookup(s) PROVE FrozenOf'
  BY <1>2 DEF Lookup, Recover, NonceReused, Refuse, Accept, Goto, Guard
<1>3. ASSUME NEW s \in Tasks, Steps(s) PROVE FrozenOf'
  BY <1>3 DEF Steps, GroupDiscard, Duplicate, NotYetReceived, Goto, Freeze
<1>4. ASSUME NEW s \in Tasks, Add(s) PROVE FrozenOf'
  BY <1>4 DEF Add, AddMessage, Goto
<1>5. ASSUME NEW s \in Tasks, Record(s) PROVE FrozenOf'
  BY <1>5 DEF Record, Goto
<1>6. ASSUME NEW s \in Tasks, Commit(s) PROVE FrozenOf'
  BY <1>6 DEF Commit
<1>7. CASE Acknowledge
  BY <1>7 DEF Acknowledge
<1>8. CASE GhostFails
  BY <1>8 DEF GhostFails
<1>9. ASSUME NEW m \in Messages, Reflect(m) PROVE FrozenOf'
  BY <1>9 DEF Reflect, Reading, ReplayedReflection, FreshReflection
<1>10. ASSUME NEW m \in Messages, InsertReflection(m) PROVE FrozenOf'
  BY <1>10 DEF InsertReflection
<1>11. ASSUME NEW m \in Messages, AcknowledgeReflection(m) PROVE FrozenOf'
  BY <1>11 DEF AcknowledgeReflection
<1>12. ASSUME NEW m \in Messages, CommitReflection(m) PROVE FrozenOf'
  BY <1>12 DEF CommitReflection
<1>13. ASSUME NEW m \in Messages, Read(m) \/ Expire(m) \/ Remove(m) PROVE FrozenOf'
  BY <1>13 DEF Read, Expire, Remove, Meddle
<1>14. CASE SetSharedTimer
  BY <1>14 DEF SetSharedTimer, Meddle
<1>15. ASSUME NEW c \in Copies, ServerReceives(c) PROVE FrozenOf'
  BY <1>15 DEF ServerReceives
<1>16. CASE Disconnect
  BY <1>16 DEF Disconnect
<1>17. CASE Reconnect
  BY <1>17 DEF Reconnect
<1>18. CASE Crash
  BY <1>18 DEF Crash
<1> QED
  BY <1>1, <1>2, <1>3, <1>4, <1>5, <1>6, <1>7, <1>8, <1>9, <1>10, <1>11, <1>12, <1>13, <1>14,
     <1>15, <1>16, <1>17, <1>18
     DEF Next, Direct, Reflection

\* So does the database.
LEMMA DatabaseTypesStep ==
    ASSUME Inv, Next
    PROVE  DatabaseTypes'
<1> USE DEF Inv, TypeOK, RowTypes, DatabaseTypes, TaskTypes, TaskOf, database
<1>1. ASSUME NEW m \in Messages, StartDirect(m) PROVE DatabaseTypes'
  BY <1>1 DEF StartDirect
<1>2. ASSUME NEW s \in Tasks, Lookup(s) PROVE DatabaseTypes'
  BY <1>2 DEF Lookup, Recover, NonceReused, Refuse, Accept, Goto, Guard
<1>3. ASSUME NEW s \in Tasks, Steps(s) PROVE DatabaseTypes'
  BY <1>3 DEF Steps, GroupDiscard, Duplicate, NotYetReceived, Goto
<1>4. ASSUME NEW s \in Tasks, Add(s) PROVE DatabaseTypes'
  BY <1>4 DEF Add, AddMessage, Goto
<1>5. ASSUME NEW s \in Tasks, Record(s) PROVE DatabaseTypes'
  BY <1>5 DEF Record, Goto
<1>6. ASSUME NEW s \in Tasks, Commit(s) PROVE DatabaseTypes'
  BY <1>6 DEF Commit
<1>7. CASE Acknowledge
  BY <1>7 DEF Acknowledge
<1>8. CASE GhostFails
  BY <1>8 DEF GhostFails
<1>9. ASSUME NEW m \in Messages, Reflect(m) PROVE DatabaseTypes'
  BY <1>9 DEF Reflect, Reading, ReplayedReflection, FreshReflection
<1>10. ASSUME NEW m \in Messages, InsertReflection(m) PROVE DatabaseTypes'
  BY <1>10 DEF InsertReflection
<1>11. ASSUME NEW m \in Messages, AcknowledgeReflection(m) PROVE DatabaseTypes'
  BY <1>11 DEF AcknowledgeReflection
<1>12. ASSUME NEW m \in Messages, CommitReflection(m) PROVE DatabaseTypes'
  BY <1>12 DEF CommitReflection
<1>13. ASSUME NEW m \in Messages, Read(m) \/ Expire(m) \/ Remove(m) PROVE DatabaseTypes'
  BY <1>13 DEF Read, Expire, Remove, Meddle
<1>14. CASE SetSharedTimer
  BY <1>14 DEF SetSharedTimer, Meddle
<1>15. ASSUME NEW c \in Copies, ServerReceives(c) PROVE DatabaseTypes'
  BY <1>15 DEF ServerReceives
<1>16. CASE Disconnect
  BY <1>16 DEF Disconnect
<1>17. CASE Reconnect
  BY <1>17 DEF Reconnect
<1>18. CASE Crash
  BY <1>18 DEF Crash
<1> QED
  BY <1>1, <1>2, <1>3, <1>4, <1>5, <1>6, <1>7, <1>8, <1>9, <1>10, <1>11, <1>12, <1>13, <1>14,
     <1>15, <1>16, <1>17, <1>18
     DEF Next, Direct, Reflection

\* What a task is about to record was stored or refused.
\* A disposition is recorded of a message that was stored or refused.
LEMMA RecordStep ==
    ASSUME Inv, Next
    PROVE  RecordSettled'
<1> USE HistoryGrows, RowsStep DEF Inv, TypeOK, RowTypes, DatabaseTypes, TaskTypes, TaskOf,
        TraceOf, RecordSettled, Settled, NoTask, memory
<1>1. ASSUME NEW m \in Messages, StartDirect(m) PROVE RecordSettled'
  BY <1>1 DEF StartDirect
<1>2. ASSUME NEW s \in Tasks, Lookup(s) PROVE RecordSettled'
  BY <1>2 DEF Lookup, Recover, NonceReused, Refuse, Accept, Goto, Guard, Pending, Has
<1>3. ASSUME NEW s \in Tasks, Steps(s) PROVE RecordSettled'
  BY <1>3 DEF Steps, GroupDiscard, Duplicate, NotYetReceived, Goto, Has
<1>4. ASSUME NEW s \in Tasks, Add(s) PROVE RecordSettled'
  BY <1>4 DEF Add, AddMessage, Goto, Has, Insert
<1>5. ASSUME NEW s \in Tasks, Record(s) PROVE RecordSettled'
  BY <1>5 DEF Record, Goto
<1>6. ASSUME NEW s \in Tasks, Commit(s) PROVE RecordSettled'
  BY <1>6 DEF Commit
<1>7. CASE Acknowledge
  BY <1>7 DEF Acknowledge
<1>8. CASE GhostFails
  BY <1>8 DEF GhostFails
<1>9. ASSUME NEW m \in Messages, Reflect(m) PROVE RecordSettled'
  BY <1>9 DEF Reflect, Reading, ReplayedReflection, FreshReflection
<1>10. ASSUME NEW m \in Messages, InsertReflection(m) PROVE RecordSettled'
  BY <1>10 DEF InsertReflection
<1>11. ASSUME NEW m \in Messages, AcknowledgeReflection(m) PROVE RecordSettled'
  BY <1>11 DEF AcknowledgeReflection
<1>12. ASSUME NEW m \in Messages, CommitReflection(m) PROVE RecordSettled'
  BY <1>12 DEF CommitReflection
<1>13. ASSUME NEW m \in Messages, Read(m) \/ Expire(m) \/ Remove(m) PROVE RecordSettled'
  BY <1>13 DEF Read, Expire, Remove, Meddle
<1>14. CASE SetSharedTimer
  BY <1>14 DEF SetSharedTimer, Meddle
<1>15. ASSUME NEW c \in Copies, ServerReceives(c) PROVE RecordSettled'
  BY <1>15 DEF ServerReceives
<1>16. CASE Disconnect
  BY <1>16 DEF Disconnect
<1>17. CASE Reconnect
  BY <1>17 DEF Reconnect
<1>18. CASE Crash
  BY <1>18 DEF Crash
<1> QED
  BY <1>1, <1>2, <1>3, <1>4, <1>5, <1>6, <1>7, <1>8, <1>9, <1>10, <1>11, <1>12, <1>13, <1>14,
     <1>15, <1>16, <1>17, <1>18
     DEF Next, Direct, Reflection

\* So it is once it is persisted, and with the envelope's nonce.
LEMMA DispositionStep ==
    ASSUME Inv, Next
    PROVE  TraceSettled'
<1> USE HistoryGrows DEF Inv, TypeOK, RowTypes, DatabaseTypes, TaskTypes, TaskOf, TraceOf,
        RecordSettled, TraceSettled, Settled, database
<1>1. ASSUME NEW m \in Messages, StartDirect(m) PROVE TraceSettled'
  BY <1>1 DEF StartDirect
<1>2. ASSUME NEW s \in Tasks, Lookup(s) PROVE TraceSettled'
  BY <1>2 DEF Lookup, Recover, NonceReused, Refuse, Accept, Goto, Guard
<1>3. ASSUME NEW s \in Tasks, Steps(s) PROVE TraceSettled'
  BY <1>3 DEF Steps, GroupDiscard, Duplicate, NotYetReceived, Goto
<1>4. ASSUME NEW s \in Tasks, Add(s) PROVE TraceSettled'
  BY <1>4 DEF Add, AddMessage, Goto
<1>5. ASSUME NEW s \in Tasks, Record(s) PROVE TraceSettled'
  BY <1>5 DEF Record, Goto
<1>6. ASSUME NEW s \in Tasks, Commit(s) PROVE TraceSettled'
  BY <1>6 DEF Commit
<1>7. CASE Acknowledge
  BY <1>7 DEF Acknowledge
<1>8. CASE GhostFails
  BY <1>8 DEF GhostFails
<1>9. ASSUME NEW m \in Messages, Reflect(m) PROVE TraceSettled'
  BY <1>9 DEF Reflect, Reading, ReplayedReflection, FreshReflection
<1>10. ASSUME NEW m \in Messages, InsertReflection(m) PROVE TraceSettled'
  BY <1>10 DEF InsertReflection
<1>11. ASSUME NEW m \in Messages, AcknowledgeReflection(m) PROVE TraceSettled'
  BY <1>11 DEF AcknowledgeReflection
<1>12. ASSUME NEW m \in Messages, CommitReflection(m) PROVE TraceSettled'
  <2>1. m \in Settled
    BY <1>12 DEF CommitReflection, ReflectedSettled
  <2>2. nonces'.d2d = nonces.d2d \cup {m} /\ UNCHANGED <<disposition, stored, refused>>
    BY <1>12 DEF CommitReflection, history
  <2> QED
    BY <2>1, <2>2
<1>13. ASSUME NEW m \in Messages, Read(m) \/ Expire(m) \/ Remove(m) PROVE TraceSettled'
  BY <1>13 DEF Read, Expire, Remove, Meddle
<1>14. CASE SetSharedTimer
  BY <1>14 DEF SetSharedTimer, Meddle
<1>15. ASSUME NEW c \in Copies, ServerReceives(c) PROVE TraceSettled'
  BY <1>15 DEF ServerReceives
<1>16. CASE Disconnect
  BY <1>16 DEF Disconnect
<1>17. CASE Reconnect
  BY <1>17 DEF Reconnect
<1>18. CASE Crash
  BY <1>18 DEF Crash
<1> QED
  BY <1>1, <1>2, <1>3, <1>4, <1>5, <1>6, <1>7, <1>8, <1>9, <1>10, <1>11, <1>12, <1>13, <1>14,
     <1>15, <1>16, <1>17, <1>18
     DEF Next, Direct, Reflection

\* A reflected copy is acknowledged once its message has a row or a disposition.
LEMMA ReflectedStep ==
    ASSUME Inv, Next
    PROVE  ReflectedSettled'
<1> USE HistoryGrows DEF Inv, TypeOK, RowTypes, DatabaseTypes, TaskTypes, NetworkTypes, TraceOf,
        Settled, RecordSettled, TraceSettled, ReflectedSettled, memory, network
<1>1. ASSUME NEW m \in Messages, StartDirect(m) PROVE ReflectedSettled'
  BY <1>1 DEF StartDirect
<1>2. ASSUME NEW s \in Tasks, Lookup(s) PROVE ReflectedSettled'
  BY <1>2 DEF Lookup, Recover, NonceReused, Refuse, Accept, Goto, Guard
<1>3. ASSUME NEW s \in Tasks, Steps(s) PROVE ReflectedSettled'
  BY <1>3 DEF Steps, GroupDiscard, Duplicate, NotYetReceived, Goto
<1>4. ASSUME NEW s \in Tasks, Add(s) PROVE ReflectedSettled'
  BY <1>4 DEF Add, AddMessage, Goto
<1>5. ASSUME NEW s \in Tasks, Record(s) PROVE ReflectedSettled'
  BY <1>5 DEF Record, Goto
<1>6. ASSUME NEW s \in Tasks, Commit(s) PROVE ReflectedSettled'
  BY <1>6 DEF Commit
<1>7. CASE Acknowledge
  BY <1>7 DEF Acknowledge
<1>8. CASE GhostFails
  BY <1>8 DEF GhostFails
<1>9. ASSUME NEW m \in Messages, Reflect(m) PROVE ReflectedSettled'
  <2>1. mirror[m] # "insert" /\ UNCHANGED queue
    BY <1>9 DEF Reflect, Reading, CanRead, Busy
  <2>2. CASE ReplayedReflection(m)
    <3>1. m \in Settled /\ UNCHANGED mirror
      BY <1>9, <2>1, <2>2 DEF ReplayedReflection
    <3> QED
      BY <2>1, <2>2, <3>1 DEF ReplayedReflection
  <2>3. CASE FreshReflection(m)
    BY <2>1, <2>3 DEF FreshReflection
  <2> QED
    BY <1>9, <2>2, <2>3 DEF Reflect
<1>10. ASSUME NEW m \in Messages, InsertReflection(m) PROVE ReflectedSettled'
  <2>1. m \in stored' \cup refused'
    BY <1>10 DEF InsertReflection, Suppressed, Insert
  <2> QED
    BY <1>10, <2>1 DEF InsertReflection
<1>11. ASSUME NEW m \in Messages, AcknowledgeReflection(m) PROVE ReflectedSettled'
  BY <1>11 DEF AcknowledgeReflection
<1>12. ASSUME NEW m \in Messages, CommitReflection(m) PROVE ReflectedSettled'
  BY <1>12 DEF CommitReflection
<1>13. ASSUME NEW m \in Messages, Read(m) \/ Expire(m) \/ Remove(m) PROVE ReflectedSettled'
  BY <1>13 DEF Read, Expire, Remove, Meddle
<1>14. CASE SetSharedTimer
  BY <1>14 DEF SetSharedTimer, Meddle
<1>15. ASSUME NEW c \in Copies, ServerReceives(c) PROVE ReflectedSettled'
  BY <1>15 DEF ServerReceives
<1>16. CASE Disconnect
  BY <1>16 DEF Disconnect
<1>17. CASE Reconnect
  BY <1>17 DEF Reconnect
<1>18. CASE Crash
  BY <1>18 DEF Crash
<1> QED
  BY <1>1, <1>2, <1>3, <1>4, <1>5, <1>6, <1>7, <1>8, <1>9, <1>10, <1>11, <1>12, <1>13, <1>14,
     <1>15, <1>16, <1>17, <1>18
     DEF Next, Direct, Reflection

-----------------------------------------------------------------------------
\* Theorems

\* The invariant is inductive.
LEMMA StepInv == Inv /\ [Next]_vars => Inv'
<1>1. ASSUME Inv, Next PROVE Inv'
  <2> USE <1>1
  <2>1. TypeOK'
    BY RowsStep, DatabaseTypesStep, TaskTypesStep, NetworkTypesStep, BoundTypesStep,
       HistoryTypesStep DEF TypeOK, RowTypes, Rows
  <2>2. TraceOf'
    BY RowsStep, RecordStep, DispositionStep, ReflectedStep DEF TraceOf, Has
  <2> QED
    BY <2>1, <2>2, TaskOfStep, GuardOfStep, FrozenOfStep, RowsStep DEF Inv
<1>2. ASSUME Inv, UNCHANGED vars PROVE Inv'
  BY <1>2 DEF vars, database, memory, network, bounds, history, Inv, TypeOK, RowTypes,
              DatabaseTypes, TaskTypes, NetworkTypes, BoundTypes, HistoryTypes, TaskOf, GuardOf,
              Guarded, Reused, TraceOf, RecordSettled, TraceSettled, ReflectedSettled, Settled,
              FrozenOf, TimerTrue, Has
<1> QED
  BY <1>1, <1>2

\* The inductive invariant holds in every reachable state.
THEOREM InvAlways == Spec => []Inv
BY InitInv, StepInv, PTL DEF Spec

\* Every variable has its type.
THEOREM TypeCorrect == Spec => []TypeOK
<1>1. Inv => TypeOK
  BY DEF Inv
<1> QED
  BY <1>1, InvAlways, PTL

\* However the copies interleave and fail, a message has at most one row.
THEOREM RowOnce == Spec => []OneRow
<1>1. Inv => OneRow
  BY DEF Inv, TraceOf, OneRow
<1> QED
  BY <1>1, InvAlways, PTL

\* No message is gone from the servers before it was stored or refused.
THEOREM NothingLost == Spec => []NotLost
<1>1. Inv => NotLost
  BY DEF Inv, TraceOf, ReflectedSettled, Settled, NotLost
<1> QED
  BY <1>1, InvAlways, PTL

\* A settled row has the timer that its sender advertised and expires by it.
THEOREM TimerKept == Spec => []TimerTrue
<1>1. Inv => TimerTrue
  BY DEF Inv
<1> QED
  BY <1>1, InvAlways, PTL

\* A message that expired or was removed never comes back once a direct copy
\* has left its disposition and its nonce.
THEOREM PurgedStaysPurged == Spec => PurgedForGood
<1>1. Inv /\ [Next]_vars => [\A m \in Messages : Purged(m) => ~Has(m)']_vars
  <2> SUFFICES ASSUME Inv, Next, NEW m \in Messages, Purged(m) PROVE ~Has(m)'
    OBVIOUS
  <2>1. \A s \in Tasks : task[s].stage = "add" => task[s].msg # m
    BY DEF Purged, Inv, GuardOf
  <2>2. m \in disposition /\ row[m].copies = 0
    BY DEF Purged, Has, Inv, TypeOK, RowTypes, DatabaseTypes
  <2>3. ASSUME NEW n \in Messages, NEW r \in Rows, RowStep(n, r) PROVE ~Has(m)'
    <3>1. row' = [row EXCEPT ![n] = r] /\ row \in [Messages -> Rows]
      BY <2>3 DEF RowStep, Inv, TypeOK, RowTypes, DatabaseTypes, Rows
    <3>2. CASE n = m
      <4>1. r = NoRow
        BY <2>1, <2>2, <2>3, <3>2 DEF RowStep, Inserted, MayInsert, Settles, Pending, Reads, Has
      <4> QED
        BY <3>1, <3>2, <4>1 DEF Has, NoRow
    <3>3. CASE n # m
      BY <2>2, <3>1, <3>3 DEF Has
    <3> QED
      BY <3>2, <3>3
  <2> QED
    BY <2>2, <2>3, RowCases DEF Has
<1> QED
  BY <1>1, InvAlways, PTL DEF Spec, PurgedForGood
================================================================================
