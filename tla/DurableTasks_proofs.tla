-------------------------- MODULE DurableTasks_proofs --------------------------
(***************************************************************************)
(* TaskManager implements DurableTasks, for every set of tasks, every      *)
(* program and any number of connections.                                  *)
(***************************************************************************)
EXTENDS TaskManager_proofs

-----------------------------------------------------------------------------
\* What is durable of a queue, and the invariant of the refinement

Pending == {t \in Persistent : done[t] = "pending"}
Durables(q) == FilterSeq(q, Pending)

\* A pending persistent task is queued once.
PendingOnce == \A i, j \in DOMAIN Durables(tasks) : Durables(tasks)[i] = Durables(tasks)[j] => i = j

\* The old runs are at the front of the queue: what an old manager's queue still
\* holds is pending, in the same order, at the front of the current one's.
Front(p, q) == \E r \in Seq(Tasks) : q = p \o r
GhostsInFront == \A g \in ghosts : Front(Durables(g.queue), Durables(tasks))

DurableInv == PendingOnce /\ GhostsInFront

Injective(p) == \A i, j \in DOMAIN p : p[i] = p[j] => i = j

\* The head is settled: the filtered sequence loses its head.
LEMMA FilterSettled ==
    ASSUME NEW T, NEW s \in Seq(T), NEW P,
           FilterSeq(s, P) # <<>>, Injective(FilterSeq(s, P))
    PROVE  FilterSeq(s, P \ {Head(FilterSeq(s, P))}) = Tail(FilterSeq(s, P))
<1> DEFINE p == FilterSeq(s, P)
<1>0. p # <<>> /\ Injective(p)
  OBVIOUS
<1>1. p \in Seq(T) /\ p \in Filtered(s, P)
  BY FilterIsFiltered
<1>2. \A j \in DOMAIN p : p[j] \in P
  BY <1>1, FilteredElements
<1> DEFINE R == P \ {Head(p)}
           t == Tail(p)
<1>3. FilterSeq(s, R) = FilterSeq(p, R)
  <2>1. R \in SUBSET P
    OBVIOUS
  <2> HIDE DEF R
  <2>2. FilterSeq(FilterSeq(s, P), R) = FilterSeq(s, R)
    BY <2>1, FilterTwice
  <2> QED
    BY <2>2, Zenon
<1> HIDE DEF p
<1>4. FilterSeq(p, R) = FilterSeq(t, R)
  <2>1. Head(p) \notin R
    OBVIOUS
  <2> HIDE DEF R
  <2>2. FilterSeq(Tail(p), R) = FilterSeq(p, R)
    BY <1>0, <1>1, <2>1, FilterTail
  <2> QED
    BY <2>2
<1>5. FilterSeq(t, R) = t
  <2>1. t \in Seq(T)
    BY <1>0, <1>1
  <2>2. \A i \in DOMAIN t : t[i] \in R
    <3> SUFFICES ASSUME NEW i \in DOMAIN t PROVE t[i] \in R
      OBVIOUS
    <3>1. /\ i + 1 \in DOMAIN p /\ t[i] = p[i + 1] /\ 1 \in DOMAIN p /\ Head(p) = p[1]
          /\ i + 1 # 1
      BY <1>0, <1>1
    <3> QED
      BY <1>0, <1>2, <3>1 DEF Injective
  <2> HIDE DEF t, R
  <2> QED
    BY <2>1, <2>2, FilterAll
<1> QED
  BY <1>3, <1>4, <1>5, Zenon DEF p

\* Likewise of a sequence whose filtered one is at the front.
LEMMA FrontSettled ==
    ASSUME NEW P, NEW s \in Seq(Tasks), NEW u \in Seq(Tasks), NEW p, NEW q,
           p = FilterSeq(s, P), q = FilterSeq(u, P),
           q # <<>>, Injective(q), Front(p, q)
    PROVE  Front(FilterSeq(s, P \ {Head(q)}), Tail(q))
<1>1. p \in Seq(Tasks) /\ q \in Seq(Tasks)
  BY FilterIsFiltered
<1>2. PICK r \in Seq(Tasks) : q = p \o r
  BY DEF Front
<1>3. CASE p = <<>>
  <2> DEFINE R == P \ {Head(q)}
  <2>1. R \in SUBSET P
    OBVIOUS
  <2> HIDE DEF R
  <2>2. FilterSeq(FilterSeq(s, P), R) = FilterSeq(s, R)
    BY <2>1, FilterTwice
  <2>3. FilterSeq(p, R) = <<>>
    <3>1. \A i \in DOMAIN p : p[i] \notin R
      BY <1>3
    <3> QED
      BY <1>1, <3>1, FilterNone
  <2>4. Tail(q) \in Seq(Tasks) /\ Tail(q) = <<>> \o Tail(q)
    BY <1>1
  <2> QED
    BY <2>2, <2>3, <2>4, Zenon DEF Front, R
<1>4. CASE p # <<>>
  <2>1. Head(q) = Head(p) /\ Tail(q) = Tail(p) \o r
    BY <1>1, <1>2, <1>4
  <2>2. Injective(p)
    <3>1. \A i \in DOMAIN p : i \in DOMAIN q /\ q[i] = p[i]
      BY <1>1, <1>2
    <3> QED
      BY <3>1 DEF Injective
  <2>3. FilterSeq(s, P \ {Head(p)}) = Tail(p)
    <3>1. FilterSeq(s, P) # <<>> /\ Injective(FilterSeq(s, P))
      BY <1>4, <2>2
    <3>2. FilterSeq(s, P \ {Head(FilterSeq(s, P))}) = Tail(FilterSeq(s, P))
      BY <3>1, FilterSettled
    <3> QED
      BY <3>2
  <2> QED
    BY <1>2, <2>1, <2>3 DEF Front
<1> QED
  BY <1>3, <1>4

Resolved == {t \in Persistent : done[t] = "resolved"}

\* A step that neither accepts nor settles a persistent task: at most the tasks
\* that are not pending leave the queues.
LEMMA DurableStutter ==
    ASSUME TypeOK, DurableInv, Pending' = Pending,
           FilterSeq(tasks', Pending) = FilterSeq(tasks, Pending),
           \A g \in ghosts' :
               \/ FilterSeq(g.queue, Pending) = FilterSeq(tasks, Pending)
               \/ \E k \in ghosts : FilterSeq(g.queue, Pending) = FilterSeq(k.queue, Pending)
    PROVE  DurableInv' /\ Durables(tasks)' = Durables(tasks)
<1>1. Durables(tasks)' = Durables(tasks)
  BY Zenon DEF Durables
<1>2. PendingOnce'
  BY <1>1, Zenon DEF DurableInv, PendingOnce
<1>3. Front(Durables(tasks), Durables(tasks))
  <2>1. Durables(tasks) \in Seq(Tasks)
    BY FilterIsFiltered DEF Durables, TypeOK, ManagerTypes
  <2>2. <<>> \in Seq(Tasks) /\ Durables(tasks) = Durables(tasks) \o <<>>
    BY <2>1
  <2> QED
    BY <2>2, Zenon DEF Front
<1>4. \A g \in ghosts' : Front(FilterSeq(g.queue, Pending), Durables(tasks))
  BY <1>3, Zenon DEF DurableInv, GhostsInFront, Durables
<1>5. GhostsInFront'
  <2>1. \A g \in ghosts' : Front(FilterSeq(g.queue, Pending'), Durables(tasks)')
    BY <1>1, <1>4, Zenon
  <2> QED
    BY <2>1, Zenon DEF GhostsInFront, Durables, Front
<1> QED
  BY <1>1, <1>2, <1>5, Zenon DEF DurableInv

\* The first pending task is settled.
LEMMA DurableSettle ==
    ASSUME TypeOK, DurableInv, NEW h, Durables(tasks) # <<>>, Head(Durables(tasks)) = h,
           Pending' = Pending \ {h}, tasks' \in Seq(Tasks),
           FilterSeq(tasks', Pending \ {h}) = FilterSeq(tasks, Pending \ {h}),
           \A g \in ghosts' : \E k \in ghosts :
               FilterSeq(g.queue, Pending \ {h}) = FilterSeq(k.queue, Pending \ {h})
    PROVE  DurableInv' /\ Durables(tasks)' = Tail(Durables(tasks))
<1> DEFINE q == Durables(tasks)
<1>1. tasks \in Seq(Tasks) /\ \A k \in ghosts : k.queue \in Seq(Tasks)
  BY DEF TypeOK, ManagerTypes, Ghosts
<1>2. q \in Seq(Tasks) /\ Injective(q) /\ q # <<>> /\ Head(q) = h
  BY <1>1, FilterIsFiltered DEF Durables, DurableInv, PendingOnce, Injective
<1>3. FilterSeq(tasks, Pending \ {h}) = Tail(q)
  BY <1>1, <1>2, FilterSettled DEF Durables
<1>4. Durables(tasks)' = Tail(q)
  BY <1>3, Zenon DEF Durables
<1>5. Injective(Tail(q))
  <2> SUFFICES ASSUME NEW i \in DOMAIN Tail(q), NEW j \in DOMAIN Tail(q), Tail(q)[i] = Tail(q)[j]
               PROVE  i = j
    BY DEF Injective
  <2> HIDE DEF q
  <2>1. /\ i + 1 \in DOMAIN q /\ j + 1 \in DOMAIN q /\ i \in Nat /\ j \in Nat
        /\ Tail(q)[i] = q[i + 1] /\ Tail(q)[j] = q[j + 1]
    BY <1>2
  <2>2. i + 1 = j + 1
    BY <1>2, <2>1 DEF Injective
  <2> QED
    BY <2>1, <2>2
<1>6. \A k \in ghosts : Front(FilterSeq(k.queue, Pending \ {h}), Tail(q))
  <2> SUFFICES ASSUME NEW k \in ghosts
               PROVE  Front(FilterSeq(k.queue, Pending \ {h}), Tail(q))
    OBVIOUS
  <2> DEFINE s == k.queue
  <2>1. s \in Seq(Tasks) /\ Front(FilterSeq(s, Pending), q)
    BY <1>1 DEF DurableInv, GhostsInFront, Durables
  <2> HIDE DEF s
  <2>2. Front(FilterSeq(s, Pending \ {Head(q)}), Tail(q))
    BY <1>1, <1>2, <2>1, FrontSettled DEF Durables
  <2> QED
    BY <1>2, <2>2 DEF s
<1> HIDE DEF q
<1>7. PendingOnce'
  BY <1>4, <1>5, Zenon DEF PendingOnce, Injective
<1>8. GhostsInFront'
  <2>1. \A g \in ghosts' : Front(FilterSeq(g.queue, Pending'), Durables(tasks)')
    BY <1>4, <1>6, Zenon
  <2> QED
    BY <2>1, Zenon DEF GhostsInFront, Durables, Front
<1> QED
  BY <1>4, <1>7, <1>8, Zenon DEF DurableInv, q

\* A task that is nowhere in a sequence does not matter to its filtering.
LEMMA DurableFresh ==
    ASSUME NEW s, NEW t, \A i \in DOMAIN s : s[i] # t, Pending' \ {t} = Pending \ {t}
    PROVE  FilterSeq(s, Pending') = FilterSeq(s, Pending)
<1>1. \A i \in DOMAIN s : s[i] \in Pending' <=> s[i] \in Pending
  OBVIOUS
<1> HIDE DEF Pending
<1> QED
  BY <1>1, FilterSame

\* A new task is accepted, or not.
LEMMA DurableSchedule ==
    ASSUME TypeOK, FreshNowhere, DurableInv, NEW t \in Tasks, Schedule(t)
    PROVE  /\ DurableInv' /\ Resolved' = Resolved
           /\ \/ Durables(tasks)' = Durables(tasks)
              \/ /\ t \in Persistent /\ t \notin Resolved
                 /\ \A i \in DOMAIN Durables(tasks) : Durables(tasks)[i] # t
                 /\ Durables(tasks)' = Append(Durables(tasks), t)
<1>1. /\ done[t] = "none" /\ done \in Settlements
      /\ tasks \in Seq(Tasks) /\ \A g \in ghosts : g.queue \in Seq(Tasks)
      /\ ghosts' = ghosts
  BY DEF Schedule, TypeOK, ManagerTypes, Ghosts
<1>2. /\ \A i \in DOMAIN tasks : tasks[i] # t
      /\ \A g \in ghosts : \A i \in DOMAIN g.queue : g.queue[i] # t
  BY <1>1 DEF FreshNowhere
<1>3. \/ t \in Persistent /\ Enqueue(t)
      \/ t \notin Persistent /\ Enqueue(t)
      \/ Refuse(t, "rejected")
      \/ Refuse(t, "thrown")
  BY Zenon DEF Schedule, ScheduleOffline, ScheduleOnline
<1>4. /\ Resolved' = Resolved /\ t \notin Resolved /\ t \notin Pending
      /\ Pending' = Pending \/ (t \in Persistent /\ Enqueue(t) /\ Pending' = Pending \cup {t})
  <2>1. /\ DOMAIN done = Tasks /\ Persistent \subseteq Tasks
        /\ t \notin Resolved /\ t \notin Pending
    BY <1>1, TasksAssumption DEF Settlements, Resolved, Pending
  <2>2. ASSUME NEW v \in {"pending", "rejected", "thrown"}, done' = [done EXCEPT ![t] = v]
        PROVE  /\ Resolved' = Resolved
               /\ v = "pending" /\ t \in Persistent => Pending' = Pending \cup {t}
               /\ v # "pending" \/ t \notin Persistent => Pending' = Pending
    <3>1. done'[t] = v /\ \A u \in Persistent : u # t => done'[u] = done[u]
      BY <2>1, <2>2
    <3>2. Resolved' = Resolved
      BY <2>1, <3>1 DEF Resolved
    <3>3. v = "pending" /\ t \in Persistent => Pending' = Pending \cup {t}
      BY <2>1, <3>1 DEF Pending
    <3>4. v # "pending" \/ t \notin Persistent => Pending' = Pending
      BY <2>1, <3>1 DEF Pending
    <3> QED
      BY <3>2, <3>3, <3>4
  <2>3. CASE Enqueue(t)
    BY <2>1, <2>2, <2>3 DEF Enqueue
  <2>4. CASE Refuse(t, "rejected") \/ Refuse(t, "thrown")
    BY <2>1, <2>2, <2>4 DEF Refuse
  <2> QED
    BY <1>3, <2>3, <2>4, Zenon
<1>5. Pending' \ {t} = Pending \ {t}
  BY <1>4
<1>6. FilterSeq(tasks, Pending') = FilterSeq(tasks, Pending)
  BY <1>2, <1>5, DurableFresh
<1>7. \A g \in ghosts : FilterSeq(g.queue, Pending') = FilterSeq(g.queue, Pending)
  <2> SUFFICES ASSUME NEW g \in ghosts
               PROVE  FilterSeq(g.queue, Pending') = FilterSeq(g.queue, Pending)
    OBVIOUS
  <2> DEFINE s == g.queue
  <2>1. \A i \in DOMAIN s : s[i] # t
    BY <1>2
  <2> HIDE DEF s
  <2>2. FilterSeq(s, Pending') = FilterSeq(s, Pending)
    BY <1>5, <2>1, DurableFresh
  <2> QED
    BY <2>2 DEF s
<1>8. CASE Pending' = Pending
  <2>1. tasks' = tasks \/ tasks' = Append(tasks, t)
    BY <1>3, Zenon DEF Enqueue, Refuse
  <2>2. FilterSeq(Append(tasks, t), Pending) = FilterSeq(tasks, Pending)
    BY <1>1, <1>4, FilterAppend
  <2> QED
    BY <1>1, <1>4, <1>8, <2>1, <2>2, DurableStutter, Zenon
<1>9. CASE t \in Persistent /\ Enqueue(t) /\ Pending' = Pending \cup {t}
  <2> DEFINE q == Durables(tasks)
  <2>1. t \in Pending' /\ tasks' = Append(tasks, t)
    BY <1>9 DEF Enqueue
  <2>2. FilterSeq(Append(tasks, t), Pending') = Append(FilterSeq(tasks, Pending'), t)
    <3> HIDE DEF Pending
    <3> QED
      BY <1>1, <2>1, FilterAppend
  <2>3. Durables(tasks)' = Append(q, t)
    BY <1>6, <2>1, <2>2, Zenon DEF Durables
  <2>4. q \in Seq(Tasks) /\ q \in Filtered(tasks, Pending)
    BY <1>1, FilterIsFiltered DEF Durables
  <2>5. \A i \in DOMAIN q : q[i] # t
    <3>1. \A i \in DOMAIN q : q[i] \in Pending
      BY <1>1, <2>4, FilteredElements
    <3> HIDE DEF Pending, q
    <3> QED
      BY <1>4, <3>1
  <2>6. Injective(q)
    BY Zenon DEF DurableInv, PendingOnce, Injective
  <2>7. \A g \in ghosts : Front(FilterSeq(g.queue, Pending), q)
    BY DEF DurableInv, GhostsInFront, Durables
  <2> HIDE DEF q
  <2>8. Injective(Append(q, t))
    BY <2>4, <2>5, <2>6 DEF Injective
  <2>9. PendingOnce'
    BY <2>3, <2>8, Zenon DEF PendingOnce, Injective
  <2>10. \A g \in ghosts : Front(FilterSeq(g.queue, Pending'), Append(q, t))
    <3> SUFFICES ASSUME NEW g \in ghosts PROVE Front(FilterSeq(g.queue, Pending), Append(q, t))
      BY <1>7, Zenon
    <3> DEFINE s == g.queue
               p == FilterSeq(s, Pending)
    <3>1. PICK r \in Seq(Tasks) : q = p \o r
      BY <2>7 DEF Front
    <3>2. p \in Seq(Tasks)
      <4>1. s \in Seq(Tasks)
        BY <1>1
      <4> HIDE DEF s
      <4> QED
        BY <4>1, FilterIsFiltered
    <3> HIDE DEF p
    <3>3. Append(r, t) \in Seq(Tasks) /\ p \o Append(r, t) = Append(p \o r, t)
      BY <3>1, <3>2
    <3>4. Front(p, Append(q, t))
      BY <3>1, <3>3, Zenon DEF Front
    <3> QED
      BY <3>4 DEF p
  <2>11. GhostsInFront'
    <3>1. \A g \in ghosts' : Front(FilterSeq(g.queue, Pending'), Durables(tasks)')
      BY <1>1, <2>3, <2>10, Zenon
    <3> QED
      BY <3>1, Zenon DEF GhostsInFront, Durables, Front
  <2> QED
    BY <1>4, <1>9, <2>3, <2>5, <2>9, <2>11, Zenon DEF DurableInv, q
<1> QED
  BY <1>4, <1>8, <1>9

\* What is kept by a step without an effect on persistent tasks
DurableKept ==
    /\ DurableInv' /\ Resolved' = Resolved
    /\ Durables(tasks)' = Durables(tasks)

\* Without such an effect on queues and promises
LEMMA DurableIdle ==
    ASSUME TypeOK, DurableInv, UNCHANGED <<tasks, done, ghosts>>
    PROVE  DurableKept
<1>1. Pending' = Pending /\ Resolved' = Resolved
  BY DEF Pending, Resolved
<1> QED
  BY <1>1, DurableStutter, Zenon DEF DurableKept

\* A new connection takes over what is pending.
LEMMA DurableConnect == ASSUME TypeOK, DurableInv, Connect PROVE DurableKept
<1>1. tasks \in Seq(Tasks) /\ done \in Settlements
  BY DEF TypeOK, ManagerTypes
<1>2. /\ tasks' \in Filtered(tasks, Persistent) /\ ghosts' = ghosts
      /\ done' = [t \in Tasks |-> IF t \in Items \ Persistent THEN "rejected" ELSE done[t]]
  BY Zenon DEF Connect, Rescheduled
<1>3. \A t \in Persistent : done'[t] = done[t]
  BY <1>2, TasksAssumption
<1>4. Pending' = Pending /\ Resolved' = Resolved
  BY <1>3 DEF Pending, Resolved
<1>5. tasks' = FilterSeq(tasks, Persistent)
  BY <1>1, <1>2, FilterIsFiltered
<1>6. FilterSeq(FilterSeq(tasks, Persistent), Pending) = FilterSeq(tasks, Pending)
  <2>1. Pending \in SUBSET Persistent
    BY DEF Pending
  <2> QED
    BY <1>1, <2>1, FilterTwice
<1> QED
  BY <1>2, <1>4, <1>5, <1>6, DurableStutter, Zenon DEF DurableKept

\* The run that survives its manager has a copy of the queue.
LEMMA DurableDisconnect == ASSUME TypeOK, DurableInv, Disconnect PROVE DurableKept
<1>1. UNCHANGED <<tasks, done>> /\ \A g \in ghosts' : g \in ghosts \/ g = Ghost
  BY DEF Disconnect
<1>2. Pending' = Pending /\ Resolved' = Resolved
  BY <1>1 DEF Pending, Resolved
<1>3. Ghost.queue = tasks
  BY DEF Ghost
<1> QED
  BY <1>1, <1>2, <1>3, DurableStutter, Zenon DEF DurableKept

\* A task is settled, or not, when its run is over.
Settles(h) ==
    /\ h \in Tasks
    /\ done' = [done EXCEPT ![h] = IF @ = "pending" THEN "resolved" ELSE @]

\* The sets of pending and of resolved tasks then
LEMMA SettlesSets ==
    ASSUME TypeOK, NEW h, Settles(h)
    PROVE  /\ Pending' = Pending \ {h}
           /\ h \in Pending => Resolved' = Resolved \cup {h}
           /\ h \notin Pending => Resolved' = Resolved
<1>1. /\ h \in Tasks /\ DOMAIN done = Tasks /\ Persistent \subseteq Tasks
  BY TasksAssumption DEF TypeOK, ManagerTypes, Settlements, Settles
<1>2. /\ \A u \in Persistent : u # h => done'[u] = done[u]
      /\ done[h] = "pending" => done'[h] = "resolved"
      /\ done[h] # "pending" => done'[h] = done[h]
  BY <1>1 DEF Settles
<1>3. Pending' = Pending \ {h}
  BY <1>2 DEF Pending
<1>4. h \in Pending => Resolved' = Resolved \cup {h}
  BY <1>2 DEF Pending, Resolved
<1>5. h \notin Pending => Resolved' = Resolved
  BY <1>2 DEF Pending, Resolved
<1> QED
  BY <1>3, <1>4, <1>5

\* What a step that ends a run does to the durable queue
DurableSettled ==
    /\ DurableInv'
    /\ \/ DurableKept
       \/ /\ Durables(tasks) # <<>>
          /\ Durables(tasks)' = Tail(Durables(tasks))
          /\ Resolved' = Resolved \cup {Head(Durables(tasks))}

\* The current manager's run ends: it consumes the head of the queue.
LEMMA DurableFinish == ASSUME TypeOK, DurableInv, Finish PROVE DurableSettled
<1>1. ghosts' = ghosts
  BY DEF Finish
<1>2. CASE UNCHANGED <<tasks, done>>
  BY <1>1, <1>2, DurableIdle DEF DurableSettled, DurableKept
<1>3. CASE cur.kind = "active" /\ tasks' = Tail(tasks)
           /\ done' = [done EXCEPT ![cur.id] = IF @ = "pending" THEN "resolved" ELSE @]
  <2> DEFINE h == cur.id
  <2>1. tasks \in Seq(Tasks) /\ tasks # <<>> /\ Head(tasks) = h
    BY <1>3 DEF TypeOK, ManagerTypes, HeadRuns
  <2>2. h \in Tasks /\ Tail(tasks) \in Seq(Tasks)
    BY <2>1
  <2>3. Settles(h)
    BY <1>3, <2>2 DEF Settles
  <2>4. FilterSeq(Tail(tasks), Pending \ {h}) = FilterSeq(tasks, Pending \ {h})
    <3> DEFINE R == Pending \ {h}
    <3>1. Head(tasks) \notin R
      BY <2>1
    <3> HIDE DEF R
    <3>2. FilterSeq(Tail(tasks), R) = FilterSeq(tasks, R)
      BY <2>1, <3>1, FilterTail
    <3> QED
      BY <3>2 DEF R
  <2> HIDE DEF h
  <2>5. CASE h \in Pending
    <3>1. Durables(tasks) # <<>> /\ Head(Durables(tasks)) = h
      BY <2>1, <2>5, FilterTail DEF Durables
    <3>2. Pending' = Pending \ {h} /\ Resolved' = Resolved \cup {h}
      BY <2>3, <2>5, SettlesSets
    <3>3. tasks' = Tail(tasks)
      BY <1>3
    <3>4. DurableInv' /\ Durables(tasks)' = Tail(Durables(tasks))
      BY <1>1, <2>2, <2>4, <3>1, <3>2, <3>3, DurableSettle, Zenon
    <3> QED
      BY <3>1, <3>2, <3>4, Zenon DEF DurableSettled
  <2>6. CASE h \notin Pending
    <3>1. Pending' = Pending /\ Pending \ {h} = Pending /\ Resolved' = Resolved
      BY <2>3, <2>6, SettlesSets
    <3>2. FilterSeq(tasks', Pending) = FilterSeq(tasks, Pending)
      BY <1>3, <2>4, <3>1, Zenon
    <3> QED
      BY <1>1, <3>1, <3>2, DurableStutter, Zenon DEF DurableSettled, DurableKept
  <2> QED
    BY <2>5, <2>6
<1> QED
  BY <1>2, <1>3, Zenon DEF Finish

\* An old run ends: the task it settles is the first one of the queue.
LEMMA DurableGhost ==
    ASSUME TypeOK, DurableInv, NEW g \in ghosts, GhostFinish(g)
    PROVE  DurableSettled
<1> DEFINE s == g.queue
           h == Head(s)
<1>1. s \in Seq(Tasks) /\ s # <<>> /\ tasks \in Seq(Tasks)
  BY DEF TypeOK, ManagerTypes, Ghosts
<1>2. /\ h \in Tasks /\ tasks' = tasks
      /\ done' = [done EXCEPT ![h] = IF @ = "pending" THEN "resolved" ELSE @]
  BY <1>1 DEF GhostFinish, queueVars
<1>3. Settles(h)
  BY <1>2 DEF Settles
<1>4. \A k \in ghosts' : k \in ghosts \/ k.queue = Tail(s)
  <2> DEFINE next == [g EXCEPT !.queue = Tail(g.queue)]
  <2>1. next.queue = Tail(s)
    <3>1. g \in Ghosts
      BY DEF TypeOK, ManagerTypes
    <3> QED
      BY <3>1 DEF Ghosts
  <2>2. \A k \in ghosts' : k \in ghosts \/ k = next
    BY Zenon DEF GhostFinish
  <2> QED
    BY <2>1, <2>2, Zenon
<1> HIDE DEF s
<1>5. FilterSeq(Tail(s), Pending \ {h}) = FilterSeq(s, Pending \ {h})
  <2> DEFINE R == Pending \ {h}
  <2>1. Head(s) \notin R
    OBVIOUS
  <2> HIDE DEF R
  <2>2. FilterSeq(Tail(s), R) = FilterSeq(s, R)
    BY <1>1, <2>1, FilterTail
  <2> QED
    BY <2>2 DEF R
<1>6. \A k \in ghosts' : \E l \in ghosts :
          FilterSeq(k.queue, Pending \ {h}) = FilterSeq(l.queue, Pending \ {h})
  BY <1>4, <1>5, Zenon DEF s
<1>7. CASE h \in Pending
  <2> DEFINE q == Durables(tasks)
             p == FilterSeq(s, Pending)
  <2>1. p # <<>> /\ Head(p) = h
    BY <1>1, <1>7, FilterTail
  <2>2. PICK r \in Seq(Tasks) : q = p \o r
    BY DEF DurableInv, GhostsInFront, Front, s, Durables
  <2>3. p \in Seq(Tasks)
    BY <1>1, FilterIsFiltered
  <2> HIDE DEF p, q
  <2>4. q # <<>> /\ Head(q) = h
    BY <2>1, <2>2, <2>3
  <2>5. Pending' = Pending \ {h} /\ Resolved' = Resolved \cup {h}
    BY <1>3, <1>7, SettlesSets
  <2>6. DurableInv' /\ Durables(tasks)' = Tail(Durables(tasks))
    BY <1>1, <1>2, <1>6, <2>4, <2>5, DurableSettle, Zenon DEF q
  <2> QED
    BY <2>4, <2>5, <2>6, Zenon DEF DurableSettled, q
<1>8. CASE h \notin Pending
  <2>1. Pending' = Pending /\ Pending \ {h} = Pending /\ Resolved' = Resolved
    BY <1>3, <1>8, SettlesSets
  <2> QED
    BY <1>2, <1>6, <2>1, DurableStutter, Zenon DEF DurableSettled, DurableKept
<1> QED
  BY <1>7, <1>8

\* Every step
LEMMA DurableStep ==
    ASSUME TypeOK, OnceInv, DurableInv, Next
    PROVE  \/ DurableSettled
           \/ \E t \in Tasks : /\ DurableInv' /\ Resolved' = Resolved
                               /\ t \in Persistent /\ t \notin Resolved
                               /\ \A i \in DOMAIN Durables(tasks) : Durables(tasks)[i] # t
                               /\ Durables(tasks)' = Append(Durables(tasks), t)
<1>1. CASE \E t \in Tasks : Schedule(t)
  <2>1. FreshNowhere
    BY DEF OnceInv
  <2> QED
    BY <1>1, <2>1, DurableSchedule, Zenon DEF DurableSettled, DurableKept
<1>2. CASE Connect \/ Disconnect
  BY <1>2, DurableConnect, DurableDisconnect, Zenon DEF DurableSettled, DurableKept
<1>3. CASE Finish \/ \E g \in ghosts : GhostFinish(g)
  BY <1>3, DurableFinish, DurableGhost, Zenon
<1>4. PickTask => UNCHANGED <<tasks, done, ghosts>>
  BY DEF PickTask, queueVars
<1>5. CASE UNCHANGED <<tasks, done, ghosts>>
  BY <1>5, DurableIdle, Zenon DEF DurableSettled, DurableKept
<1>6. LoopConnected /\ (Calm => UNCHANGED <<tasks, done, ghosts>>)
  BY DEF OnceInv, Calm
<1> QED
  BY <1>1, <1>2, <1>3, <1>4, <1>5, <1>6, CalmSteps, Zenon
     DEF Next, RunLoop, OldLoops, Bypasses, Pipeline, Reconnect

\* The durable queue is empty in the beginning.
LEMMA DurableInit == Init => DurableInv /\ Durables(tasks) = <<>> /\ Resolved = {}
<1> SUFFICES ASSUME Init PROVE DurableInv /\ Durables(tasks) = <<>> /\ Resolved = {}
  OBVIOUS
<1>1. Resolved = {}
  BY TasksAssumption DEF Init, Resolved
<1>2. Durables(tasks) = <<>>
  <2>1. tasks \in Seq(Tasks) /\ \A i \in DOMAIN tasks : tasks[i] \notin Pending
    BY DEF Init
  <2> QED
    BY <2>1, FilterNone DEF Durables
<1>3. ghosts = {}
  BY DEF Init
<1> QED
  BY <1>1, <1>2, <1>3 DEF DurableInv, PendingOnce, GhostsInFront

\* A stuttering step changes nothing.
LEMMA DurableIdleStep == ASSUME TypeOK, DurableInv, UNCHANGED vars PROVE DurableKept
<1>1. UNCHANGED <<tasks, done, ghosts>>
  BY DEF vars, queueVars
<1> QED
  BY <1>1, DurableIdle

\* DurableInv is an inductive invariant.
LEMMA DurableAlways == Spec => []DurableInv
<1>1. Init => DurableInv
  BY DurableInit
<1>2. TypeOK /\ OnceInv /\ DurableInv /\ [Next]_vars => DurableInv'
  BY DurableStep, DurableIdleStep, Zenon DEF DurableSettled, DurableKept
<1> QED
  BY <1>1, <1>2, TypeCorrect, OnceAlways, PTL DEF Spec

\* The task manager, with its connections, its reconnects and its surviving
\* runs, implements the durable queue: persistent tasks complete in the order of
\* their acceptance, each of them once, and none is lost.
THEOREM QueueIsDurable == Spec => DurableQueue
<1>1. Init => Durable!Init
  BY DurableInit, Zenon DEF Durable!Init, Durables, Pending, Resolved
<1>2. TypeOK /\ OnceInv /\ DurableInv /\ [Next]_vars => [Durable!Next]_(Durable!vars)
  <2> SUFFICES ASSUME TypeOK, OnceInv, DurableInv, [Next]_vars
               PROVE  [Durable!Next]_(Durable!vars)
    OBVIOUS
  <2>1. ASSUME DurableKept PROVE UNCHANGED (Durable!vars)
    BY <2>1, Zenon DEF DurableKept, Durable!vars, Durables, Pending, Resolved
  <2>2. ASSUME DurableSettled, ~DurableKept PROVE Durable!Complete
    BY <2>2, Zenon DEF DurableSettled, Durable!Complete, Durables, Pending, Resolved
  <2>3. ASSUME NEW t \in Persistent, Resolved' = Resolved, t \notin Resolved,
               \A i \in DOMAIN Durables(tasks) : Durables(tasks)[i] # t,
               Durables(tasks)' = Append(Durables(tasks), t)
        PROVE  Durable!Accept(t)
    <3>1. t \notin Durable!Queued \cup Resolved
      BY <2>3, Zenon DEF Durable!Queued, Durables, Pending
    <3> QED
      BY <2>3, <3>1, Zenon DEF Durable!Accept, Durables, Pending, Resolved
  <2>4. CASE UNCHANGED vars
    BY <2>1, <2>4, DurableIdleStep
  <2>5. CASE Next
    BY <2>1, <2>2, <2>3, <2>5, DurableStep, Zenon DEF Durable!Next
  <2> QED
    BY <2>4, <2>5
<1> QED
  BY <1>1, <1>2, TypeCorrect, OnceAlways, DurableAlways, PTL DEF Spec, DurableQueue, Durable!Spec
================================================================================
