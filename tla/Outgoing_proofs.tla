---------------------------- MODULE Outgoing_proofs ----------------------------
(***************************************************************************)
(* Proofs, for any messages, conversations and limits, that upload slots   *)
(* are conserved and no wakeup is lost, that no message is stranded, that  *)
(* nothing is uploaded after a cancel, and that messages are sent in the   *)
(* order of enrolling, as far as the clock tells it.                       *)
(***************************************************************************)
EXTENDS Outgoing, OrderedFilter_proofs

Once(s) == \A i, j \in DOMAIN s : s[i] = s[j] => i = j
Working == Stages \ {"none", "queued"}

\* The lane of a conversation has its jobs, each once; who is at work is first.
LaneInv ==
    /\ \A c \in Conversations :
          /\ Once(lane[c])
          /\ \A i \in DOMAIN lane[c] : Conv[lane[c][i]] = c /\ stage[lane[c][i]] # "none"
    /\ \A m \in Messages : stage[m] # "none" => OwnedByLane(m)
    /\ \A m \in Messages : stage[m] \in Working => Head(lane[Conv[m]]) = m

\* The send tasks, each once, are of messages that left the lane.
TaskInv ==
    /\ Once(tasks)
    /\ \A i \in DOMAIN tasks : stage[tasks[i]] = "none"
    /\ wire # "idle" => tasks # <<>>
    /\ \A m \in confirmed : ~Live(m)

\* A message that was not composed yet has left no trace.
Fresh(m) == stage[m] = "none" /\ ~OwnedByTask(m) /\ m \notin confirmed
NewInv ==
    \A m \in Messages : status[m] = "new" =>
        Fresh(m) /\ m \notin row /\ m \notin withdrawn

\* Between two writes, the process is about to persist a message, or to clear the
\* row of one that failed in its job or its send task.
MidInv ==
    /\ mid # None =>
          \/ status[mid] = "absent" /\ Fresh(mid) /\ mid \in row
          \/ /\ status[mid] = "failed"
             /\ stage[mid] = "failing" \/ (tasks # <<>> /\ Head(tasks) = mid)
    /\ \A m \in Messages : stage[m] = "failing" => mid = m /\ status[m] = "failed"
    /\ ~up =>
          /\ mid = None /\ \A c \in Conversations : lane[c] = <<>>
          /\ tasks = <<>> /\ slotWaiters = <<>> /\ running = 0 /\ runningLarge = 0
          /\ wire = "idle" /\ confirmed = {} /\ ~shutdown
          /\ \A m \in Messages : stage[m] = "none" /\ signal[m] = NoSignal /\ result[m] = NoResult
                                 /\ charged[m] = 0

\* An outcome means what it says.
Means(m, outcome) ==
    /\ outcome = "gone" => m \notin row /\ status[m] # "new"
    /\ outcome = "interrupted" => shutdown
SignalInv ==
    \A m \in Messages :
        /\ signal[m]["wait"] # "sibling"
        /\ \A e \in Entries : Means(m, signal[m][e])
        /\ \A b \in {"main", "thumbnail"} : Means(m, result[m][b])

\* A blob that is being uploaded is of a message that is to be sent, or cancelled.
UploadInv ==
    \A m \in Messages : \A b \in Blobs[m] :
        stage[m] = "uploading" /\ result[m][b] = "busy"
        => signal[m][b] # "no" \/ (Live(m) /\ ~shutdown)

\* The waiters wait, each once, and were not cancelled.
WaiterInv ==
    /\ Once(slotWaiters)
    /\ \A i \in DOMAIN slotWaiters :
          stage[slotWaiters[i]] = "waiting" /\ signal[slotWaiters[i]]["wait"] = "no"

\* A message whose scheduling threw is left alone, and it is one that was composed.
OrphanInv ==
    /\ ~up => orphans = {}
    /\ \A m \in orphans :
          /\ stage[m] = "none" /\ ~OwnedByTask(m)
          /\ status[m] # "new" /\ ~(mid = m /\ status[m] = "absent")

\* Jobs and tasks are in the order of enrolling, as far as the clock tells it.
Earlier(m, n) == m < n /\ Conv[m] = Conv[n]
Before(m, n) == Earlier(m, n) /\ createdAt[m] < createdAt[n]
LaneOrder ==
    \A c \in Conversations : \A i, j \in DOMAIN lane[c] :
        i < j => ~Before(lane[c][j], lane[c][i])
NewOrder ==
    \A m, n \in Messages :
        Earlier(m, n) /\ (status[m] = "new" \/ (mid = m /\ status[m] = "absent"))
        => status[n] = "new"
TaskOrder ==
    \A j \in DOMAIN tasks : \A m \in Messages :
        Before(m, tasks[j]) /\ Live(m)
        => m \in orphans \/ \E i \in DOMAIN tasks : i < j /\ tasks[i] = m
Ordered == LaneOrder /\ NewOrder /\ TaskOrder

-----------------------------------------------------------------------------
\* The steps of a job, by what they do to the message and to the slots

\* The job ends: a row is only cleared of a message that is not to be sent, and
\* only a shutdown leaves one that is.
Ends(m, s) ==
    /\ s = "none" /\ Forget(m)
    /\ row' \in {row, row \ {m}} /\ UNCHANGED <<status, mid, tasks, orphans>>
    /\ Live(m) => shutdown /\ row' = row

\* The send task is scheduled, or the scheduling throws.
Hands(m, s) == s = "none" /\ Schedule(m) /\ Live(m) /\ ~shutdown

\* The failure is stored.
Fails(m, s) ==
    /\ s = "failing" /\ Live(m)
    /\ status' = [status EXCEPT ![m] = "failed"] /\ mid' = m
    /\ UNCHANGED <<lane, signal, result, charged, row, tasks, orphans>>

\* The job goes on.
Stays(m, s) ==
    /\ s \in {"asking", "waiting", "granted", "uploading", "backoff"}
    /\ UNCHANGED <<lane, row, status, mid, tasks, orphans>>
    /\ s = "uploading" => Live(m) /\ ~shutdown
    /\ signal' \in {signal, [signal EXCEPT ![m] = NoSignal]}
    /\ \/ result' = result
       \/ \E r \in [{"main", "thumbnail"} -> {"none", "busy"}] : result' = [result EXCEPT ![m] = r]
    /\ charged' = charged \/ \E n \in 0..Budget : charged' = [charged EXCEPT ![m] = n]

Outcome(m, s) == Ends(m, s) \/ Hands(m, s) \/ Fails(m, s) \/ Stays(m, s)

\* The slots are left alone, by a job that neither holds one nor waits for one, or
\* holds one and goes on.
Apart(m, s) ==
    /\ UNCHANGED slots /\ stage' = [stage EXCEPT ![m] = s]
    /\ \/ /\ stage[m] \notin {"granted", "uploading"} /\ s \in {"none", "asking"}
          /\ stage[m] = "waiting" => signal[m]["wait"] # "no"
       \/ stage[m] = "granted" /\ s = "uploading"

\* A free slot is taken, or waited for.
Asks(m, s) ==
    /\ stage[m] = "asking" /\ signal[m]["wait"] = "no" /\ UNCHANGED signal
    /\ stage' = [stage EXCEPT ![m] = s]
    /\ \/ /\ CanStart(m \in Large, running, runningLarge) /\ s = "granted"
          /\ running' = running + 1 /\ runningLarge' = runningLarge + Weight(m)
          /\ UNCHANGED slotWaiters
       \/ /\ ~CanStart(m \in Large, running, runningLarge) /\ s = "waiting"
          /\ slotWaiters' = Append(slotWaiters, m) /\ UNCHANGED <<running, runningLarge>>

\* A slot is given back, and passed on to the waiter w at position i.
GivesBack(m, s) ==
    /\ running' = running - 1 /\ runningLarge' = runningLarge - Weight(m)
    /\ UNCHANGED slotWaiters /\ stage' = [stage EXCEPT ![m] = s]
    /\ \A i \in DOMAIN slotWaiters :
          ~CanStart(slotWaiters[i] \in Large, running - 1, runningLarge - Weight(m))
PassesOn(m, s, i, w) ==
    /\ i \in DOMAIN slotWaiters /\ w = slotWaiters[i]
    /\ CanStart(w \in Large, running - 1, runningLarge - Weight(m))
    /\ running' = running - 1 + 1 /\ runningLarge' = runningLarge - Weight(m) + Weight(w)
    /\ slotWaiters' = Without(slotWaiters, i)
    /\ stage' = [[stage EXCEPT ![m] = s] EXCEPT ![w] = "granted"]
Frees(m, s) ==
    /\ stage[m] \in {"granted", "uploading"} /\ s \in {"none", "failing", "backoff"}
    /\ GivesBack(m, s) \/ \E i, w : PassesOn(m, s, i, w)

JobStep(m, s) ==
    /\ Idle /\ stage[m] \notin {"none", "failing"} /\ Head(lane[Conv[m]]) = m
    /\ Outcome(m, s) /\ (Apart(m, s) \/ Asks(m, s) \/ Frees(m, s))
    /\ UNCHANGED jobRest

JobAction(m) ==
    StartJob(m) \/ AskForSlot(m) \/ WaitAborted(m) \/ StartUpload(m) \/ AttemptEnds(m)
        \/ BackoffElapsed(m)

\* Of the waiters that are able, there is a first one.
LEMMA FirstAble ==
    ASSUME NEW T, NEW q \in Seq(T), NEW A \in SUBSET DOMAIN q, A # {}
    PROVE  \E i \in A : \A j \in A : i <= j
<1>1. Len(q) \in Nat /\ DOMAIN q = 1..Len(q)
  OBVIOUS
<1>2. A \in SUBSET (1..Len(q))
  BY <1>1
<1>3. Cardinality(A) \in Nat /\ \E e : Enumerates(e, Cardinality(A), A)
  BY <1>1, <1>2, EnumerationExists
<1> DEFINE n == Cardinality(A)
<1>4. PICK e : Enumerates(e, n, A)
  BY <1>3
<1> HIDE DEF n
<1>5. n \in Nat /\ A \in SUBSET Nat
  BY <1>3, <1>2 DEF n
<1>6. /\ \A j \in 1..n : e[j] \in A
      /\ \A j, k \in 1..n : j < k => e[j] < e[k]
      /\ \A i \in A : \E j \in 1..n : e[j] = i
  BY <1>4 DEF Enumerates, Increasing
<1>7. 1 \in 1..n
  BY <1>5, <1>6
<1>8. \A j \in 1..n : e[1] <= e[j]
  BY <1>5, <1>6, <1>7
<1>9. \A j \in A : e[1] <= j
  BY <1>6, <1>8
<1> QED
  BY <1>6, <1>7, <1>9

\* What giving a slot back does
LEMMA ReleaseForm ==
    ASSUME TypeOK, NEW m \in Messages, NEW s, Release(m, [stage EXCEPT ![m] = s])
    PROVE  GivesBack(m, s) \/ \E i, w : PassesOn(m, s, i, w)
<1> DEFINE r == running - 1
           rl == runningLarge - Weight(m)
           A == Able(r, rl)
<1>1. A = {i \in DOMAIN slotWaiters : CanStart(slotWaiters[i] \in Large, r, rl)}
  BY Zenon DEF Able
<1>2. CASE A = {}
  <2>1. /\ running' = r /\ runningLarge' = rl /\ UNCHANGED slotWaiters
        /\ stage' = [stage EXCEPT ![m] = s]
    BY <1>2, Zenon DEF Release
  <2>2. \A i \in DOMAIN slotWaiters : ~CanStart(slotWaiters[i] \in Large, r, rl)
    BY <1>1, <1>2, Zenon
  <2> QED
    BY <2>1, <2>2, Zenon DEF GivesBack
<1>3. CASE A # {}
  <2> DEFINE i == CHOOSE i \in A : \A j \in A : i <= j
             w == slotWaiters[i]
  <2>1. /\ running' = r + 1 /\ runningLarge' = rl + Weight(w)
        /\ slotWaiters' = Without(slotWaiters, i)
        /\ stage' = [[stage EXCEPT ![m] = s] EXCEPT ![w] = "granted"]
    BY <1>3, Zenon DEF Release
  <2>2. i \in A
    <3>1. slotWaiters \in Seq(Messages) /\ A \in SUBSET DOMAIN slotWaiters
      BY <1>1, Zenon DEF TypeOK
    <3> HIDE DEF A
    <3>2. \E k \in A : \A j \in A : k <= j
      BY <3>1, <1>3, FirstAble, Zenon
    <3> QED
      BY <3>2, Zenon
  <2> HIDE DEF i
  <2>3. i \in DOMAIN slotWaiters /\ CanStart(w \in Large, r, rl)
    BY <1>1, <2>2, Zenon
  <2>4. PassesOn(m, s, i, w)
    BY <2>1, <2>3, Zenon DEF PassesOn
  <2> QED
    BY <2>4, Zenon
<1> QED
  BY <1>2, <1>3, Zenon

\* Ends of a job
LEMMA EndForm ==
    ASSUME TypeOK, NEW m \in Messages, NEW clear \in BOOLEAN, EndJob(m, clear),
           Live(m) => ~clear /\ shutdown
    PROVE  Ends(m, "none")
BY Zenon DEF EndJob, Ends

\* An outcome that means what it says ends the job.
LEMMA EndWithForm ==
    ASSUME TypeOK, NEW m \in Messages, NEW o \in {"gone", "interrupted"}, Means(m, o), EndWith(m, o)
    PROVE  Ends(m, "none")
<1>1. EndJob(m, o = "gone") /\ (o = "gone") \in BOOLEAN
  BY Zenon DEF EndWith
<1>2. Live(m) => o # "gone" /\ shutdown
  BY DEF Means, Live
<1> QED
  BY <1>1, <1>2, EndForm, Zenon

\* The cancel of a wait, by its reason
LEMMA WaitReason ==
    ASSUME TypeOK, SignalInv, NEW m \in Messages, signal[m]["wait"] # "no"
    PROVE  signal[m]["wait"] \in {"gone", "interrupted"} /\ Means(m, signal[m]["wait"])
<1>1. "wait" \in Entries
  BY DEF Entries
<1>2. signal[m]["wait"] \in Signals
  BY <1>1 DEF TypeOK
<1> QED
  BY <1>1, <1>2 DEF Signals, SignalInv

\* The hand-over to the send task
LEMMA HandOverForm ==
    ASSUME TypeOK, NEW m \in Messages, HandOver(m)
    PROVE  Ends(m, "none") \/ Hands(m, "none")
<1>1. CASE shutdown \/ ~Live(m)
  <2>1. EndJob(m, ~shutdown) /\ (~shutdown) \in BOOLEAN
    BY <1>1, Zenon DEF HandOver, TypeOK
  <2>2. Live(m) => ~(~shutdown) /\ shutdown
    BY <1>1
  <2> QED
    BY <2>1, <2>2, EndForm, Zenon
<1>2. CASE ~(shutdown \/ ~Live(m))
  BY <1>2, Zenon DEF HandOver, Hands
<1> QED
  BY <1>1, <1>2, Zenon

\* The start of a round
LEMMA NextRoundForm ==
    ASSUME TypeOK, NEW m \in Messages, NextRound(m)
    PROVE  \E s \in {"none", "asking"} : Outcome(m, s) /\ stage' = [stage EXCEPT ![m] = s]
<1>1. CASE ~Live(m)
  <2>1. EndJob(m, TRUE) /\ stage' = Ended(m)
    BY <1>1, Zenon DEF NextRound
  <2>2. Ends(m, "none")
    BY <1>1, <2>1, EndForm, Zenon
  <2> QED
    BY <2>1, <2>2, Zenon DEF Outcome, Ended
<1>2. CASE Live(m) /\ Pending(m) = {}
  <2>1. HandOver(m) /\ stage' = Ended(m)
    BY <1>2, Zenon DEF NextRound
  <2> QED
    BY <2>1, HandOverForm, Zenon DEF Outcome, Ended
<1>3. CASE Live(m) /\ Pending(m) # {}
  <2>1. /\ stage' = [stage EXCEPT ![m] = "asking"]
        /\ signal' = [signal EXCEPT ![m] = NoSignal]
        /\ result' = [result EXCEPT ![m] = NoResult]
        /\ UNCHANGED <<charged, lane, row, status, mid, tasks, orphans>>
    BY <1>3, Zenon DEF NextRound
  <2>2. NoResult \in [{"main", "thumbnail"} -> {"none", "busy"}]
    BY DEF NoResult
  <2>3. Stays(m, "asking")
    BY <2>1, <2>2 DEF Stays
  <2> QED
    BY <2>1, <2>3, Zenon DEF Outcome
<1> QED
  BY <1>1, <1>2, <1>3, Zenon

\* Where a job that acts stands
LEMMA JobPlace ==
    ASSUME LaneInv, NEW m \in Messages, JobAction(m)
    PROVE  Idle /\ stage[m] \notin {"none", "failing"} /\ Head(lane[Conv[m]]) = m
           /\ UNCHANGED jobRest
<1>1. CASE StartJob(m)
  BY <1>1 DEF StartJob
<1>2. CASE JobAction(m) /\ ~StartJob(m)
  <2>1. /\ Idle /\ stage[m] \in {"asking", "waiting", "granted", "uploading", "backoff"}
        /\ UNCHANGED jobRest
    BY <1>2 DEF JobAction, AskForSlot, WaitAborted, StartUpload, AttemptEnds, BackoffElapsed, Event
  <2>2. Head(lane[Conv[m]]) = m
    BY <2>1 DEF LaneInv, Working, Stages
  <2> QED
    BY <2>1, <2>2
<1> QED
  BY <1>1, <1>2, Zenon

\* The first step of a job is a job step.
LEMMA StartForm ==
    ASSUME TypeOK, LaneInv, NEW m \in Messages, StartJob(m)
    PROVE  \E s \in Stages : JobStep(m, s)
<1>1. PICK s \in {"none", "asking"} : Outcome(m, s) /\ stage' = [stage EXCEPT ![m] = s]
  BY NextRoundForm, Zenon DEF StartJob
<1>2. Apart(m, s)
  BY <1>1 DEF StartJob, Apart
<1>3. s \in Stages
  BY DEF Stages
<1> QED
  BY <1>1, <1>2, <1>3, JobPlace, Zenon DEF JobStep, JobAction

\* The end of a job whose wait was aborted is a job step.
LEMMA WaitAbortedForm ==
    ASSUME TypeOK, LaneInv, SignalInv, NEW m \in Messages, WaitAborted(m)
    PROVE  \E s \in Stages : JobStep(m, s)
<1>1. /\ stage[m] \in {"waiting", "backoff"} /\ signal[m]["wait"] # "no"
      /\ EndWith(m, signal[m]["wait"]) /\ stage' = Ended(m) /\ UNCHANGED slots
  BY DEF WaitAborted
<1>2. Ends(m, "none")
  BY <1>1, WaitReason, EndWithForm, Zenon
<1>3. Apart(m, "none")
  BY <1>1 DEF Apart, Ended
<1>4. "none" \in Stages
  BY DEF Stages
<1> QED
  BY <1>2, <1>3, <1>4, JobPlace, Zenon DEF JobStep, JobAction, Outcome

\* So is a further round after a delay.
LEMMA BackoffForm ==
    ASSUME TypeOK, LaneInv, NEW m \in Messages, BackoffElapsed(m)
    PROVE  \E s \in Stages : JobStep(m, s)
<1>1. \E s \in {"none", "asking"} : Outcome(m, s) /\ stage' = [stage EXCEPT ![m] = s]
  <2>1. CASE shutdown
    <3>1. EndJob(m, FALSE) /\ stage' = Ended(m)
      BY <2>1, Zenon DEF BackoffElapsed
    <3>2. Ends(m, "none")
      BY <2>1, <3>1, EndForm, Zenon
    <3> QED
      BY <3>1, <3>2, Zenon DEF Outcome, Ended
  <2>2. CASE ~shutdown
    BY <2>2, NextRoundForm, Zenon DEF BackoffElapsed
  <2> QED
    BY <2>1, <2>2, Zenon
<1>2. PICK s \in {"none", "asking"} : Outcome(m, s) /\ stage' = [stage EXCEPT ![m] = s]
  BY <1>1
<1>3. Apart(m, s)
  BY <1>2 DEF BackoffElapsed, Apart
<1>4. s \in Stages
  BY DEF Stages
<1> QED
  BY <1>2, <1>3, <1>4, JobPlace, Zenon DEF JobStep, JobAction

\* So is asking for a slot, which takes one, waits for one or ends the job.
LEMMA AskForm ==
    ASSUME TypeOK, LaneInv, SignalInv, NEW m \in Messages, AskForSlot(m)
    PROVE  \E s \in Stages : JobStep(m, s)
<1>1. {"none", "granted", "waiting"} \subseteq Stages
  BY DEF Stages
<1>2. CASE signal[m]["wait"] # "no"
  <2>1. /\ stage[m] = "asking" /\ EndWith(m, signal[m]["wait"]) /\ stage' = Ended(m)
        /\ UNCHANGED slots
    BY <1>2, Zenon DEF AskForSlot
  <2>2. Ends(m, "none")
    BY <1>2, <2>1, WaitReason, EndWithForm, Zenon
  <2>3. Apart(m, "none")
    BY <2>1 DEF Apart, Ended
  <2> QED
    BY <2>2, <2>3, <1>1, JobPlace, Zenon DEF JobStep, JobAction, Outcome
<1>3. CASE signal[m]["wait"] = "no"
  <2>1. /\ stage[m] = "asking"
        /\ UNCHANGED <<lane, signal, result, charged, row, status, mid, tasks, orphans>>
    BY <1>3, Zenon DEF AskForSlot
  <2>2. \E s \in {"granted", "waiting"} : Asks(m, s)
    BY <1>3, <2>1, Zenon DEF AskForSlot, Asks
  <2>3. PICK s \in {"granted", "waiting"} : Asks(m, s)
    BY <2>2
  <2>4. Stays(m, s)
    BY <2>1, <2>3 DEF Stays
  <2> QED
    BY <2>3, <2>4, <1>1, JobPlace, Zenon DEF JobStep, JobAction, Outcome
<1> QED
  BY <1>2, <1>3, Zenon

\* A slot is given back together with the end of the round.
LEMMA FreeForm ==
    ASSUME TypeOK, LaneInv, NEW m \in Messages, NEW s, JobAction(m),
           stage[m] \in {"granted", "uploading"}, s \in {"none", "failing", "backoff"},
           Outcome(m, s), Release(m, [stage EXCEPT ![m] = s])
    PROVE  \E t \in Stages : JobStep(m, t)
<1>1. Frees(m, s)
  BY ReleaseForm, Zenon DEF Frees
<1>2. s \in Stages
  BY DEF Stages
<1> QED
  BY <1>1, <1>2, JobPlace, Zenon DEF JobStep

\* So is the step of a job that was granted a slot: it uploads, or gives the
\* slot back.
LEMMA UploadForm ==
    ASSUME TypeOK, LaneInv, SignalInv, NEW m \in Messages, StartUpload(m)
    PROVE  \E s \in Stages : JobStep(m, s)
<1>1. JobAction(m) /\ stage[m] = "granted"
  BY Zenon DEF JobAction, StartUpload
<1>2. CASE signal[m]["wait"] # "no"
  <2>1. EndWith(m, signal[m]["wait"]) /\ Release(m, Ended(m))
    BY <1>2, Zenon DEF StartUpload, GiveSlotBack
  <2>2. Outcome(m, "none")
    BY <1>2, <2>1, WaitReason, EndWithForm, Zenon DEF Outcome
  <2> QED
    BY <1>1, <2>1, <2>2, FreeForm, Zenon DEF Ended
<1>3. CASE signal[m]["wait"] = "no" /\ Attempt(m) # "started"
  <2>1. EndWith(m, Attempt(m)) /\ Release(m, Ended(m))
    BY <1>3, Zenon DEF StartUpload
  <2>2. Outcome(m, "none")
    <3>1. CASE shutdown
      <4>1. EndJob(m, FALSE)
        BY <2>1, <3>1 DEF EndWith, Attempt
      <4> QED
        BY <4>1, <3>1, EndForm, Zenon DEF Outcome
    <3>2. CASE ~shutdown
      <4>1. EndJob(m, TRUE) /\ ~Live(m)
        BY <1>3, <2>1, <3>2 DEF EndWith, Attempt, AttemptIfLive
      <4> QED
        BY <4>1, EndForm, Zenon DEF Outcome
    <3> QED
      BY <3>1, <3>2, Zenon
  <2> QED
    BY <1>1, <2>1, <2>2, FreeForm, Zenon DEF Ended
<1>4. CASE signal[m]["wait"] = "no" /\ Attempt(m) = "started"
  <2>1. /\ stage' = [stage EXCEPT ![m] = "uploading"]
        /\ result' = [result EXCEPT ![m] =
              [b \in DOMAIN @ |-> IF b \in Pending(m) THEN "busy" ELSE "none"]]
        /\ UNCHANGED <<slots, signal, charged, lane, row, status, mid, tasks, orphans>>
    BY <1>4, Zenon DEF StartUpload
  <2>2. Live(m) /\ ~shutdown
    BY <1>4 DEF Attempt, AttemptIfLive
  <2> DEFINE r == [b \in DOMAIN result[m] |-> IF b \in Pending(m) THEN "busy" ELSE "none"]
  <2>3. r \in [{"main", "thumbnail"} -> {"none", "busy"}]
    BY DEF TypeOK
  <2>4. result' = [result EXCEPT ![m] = r]
    BY <2>1
  <2> HIDE DEF r
  <2>5. Stays(m, "uploading")
    BY <2>1, <2>2, <2>3, <2>4 DEF Stays
  <2>6. Apart(m, "uploading") /\ "uploading" \in Stages
    BY <1>1, <2>1 DEF Apart, Stages
  <2> QED
    BY <1>1, <2>5, <2>6, JobPlace, Zenon DEF JobStep, Outcome
<1> QED
  BY <1>2, <1>3, <1>4, Zenon

\* An outcome that ends the job is that of a blob.
LEMMA PrimaryMeans ==
    ASSUME NEW failures
    PROVE  /\ Primary(failures) = "gone" => "gone" \in failures
           /\ Primary(failures) = "interrupted" => "interrupted" \in failures
BY DEF Primary

\* So is the end of an attempt, whatever its outcome.
LEMMA AttemptForm ==
    ASSUME TypeOK, LaneInv, SignalInv, NEW m \in Messages, AttemptEnds(m)
    PROVE  \E s \in Stages : JobStep(m, s)
<1> DEFINE failures == {result[m][b] : b \in Blobs[m]} \ {"ok", "none"}
           outcome == Primary(failures)
<1>1. JobAction(m) /\ stage[m] = "uploading"
  BY Zenon DEF JobAction, AttemptEnds
<1>2. "gone" \in failures => Means(m, "gone")
  BY OutgoingAssumption DEF SignalInv
<1>3. "interrupted" \in failures => Means(m, "interrupted")
  BY OutgoingAssumption DEF SignalInv
<1>4. /\ outcome = "gone" => Means(m, "gone")
      /\ outcome = "interrupted" => Means(m, "interrupted")
  BY <1>2, <1>3, PrimaryMeans, Zenon
<1>5. IF outcome = "ok"
      THEN HandOver(m) /\ Release(m, Ended(m))
      ELSE IF outcome \in {"gone", "interrupted"}
      THEN EndWith(m, outcome) /\ Release(m, Ended(m))
      ELSE IF outcome = "terminal" \/ (outcome = "answered" /\ OverBudget(m))
      THEN GiveUp(m) /\ Release(m, IF Live(m) THEN [stage EXCEPT ![m] = "failing"] ELSE Ended(m))
      ELSE IF ~Live(m)
      THEN EndJob(m, TRUE) /\ Release(m, Ended(m))
      ELSE /\ charged' = [charged EXCEPT ![m] = IF outcome = "answered" THEN @ + 1 ELSE @]
           /\ Backoff(m)
  BY Zenon DEF AttemptEnds
<1> HIDE DEF outcome, failures
<1>6. CASE outcome = "ok"
  BY <1>1, <1>5, <1>6, HandOverForm, FreeForm, Zenon DEF Outcome, Ended
<1>7. CASE outcome \in {"gone", "interrupted"}
  <2>1. EndWith(m, outcome) /\ Release(m, Ended(m))
    BY <1>5, <1>7
  <2>2. Means(m, outcome)
    BY <1>4, <1>7
  <2>3. Ends(m, "none")
    BY <1>7, <2>1, <2>2, EndWithForm, Zenon
  <2> QED
    BY <1>1, <2>1, <2>3, FreeForm, Zenon DEF Outcome, Ended
<1> DEFINE over == outcome = "terminal" \/ (outcome = "answered" /\ OverBudget(m))
<1>8. CASE outcome \notin {"ok", "gone", "interrupted"} /\ over
  <2>1. GiveUp(m) /\ Release(m, IF Live(m) THEN [stage EXCEPT ![m] = "failing"] ELSE Ended(m))
    BY <1>5, <1>8
  <2>2. CASE Live(m)
    <3>1. Release(m, [stage EXCEPT ![m] = "failing"]) /\ Fails(m, "failing")
      BY <2>1, <2>2, Zenon DEF GiveUp, Fails
    <3> QED
      BY <1>1, <3>1, FreeForm, Zenon DEF Outcome
  <2>3. CASE ~Live(m)
    <3>1. Release(m, Ended(m)) /\ EndJob(m, TRUE)
      BY <2>1, <2>3, Zenon DEF GiveUp
    <3>2. Ends(m, "none")
      BY <2>3, <3>1, EndForm, Zenon
    <3> QED
      BY <1>1, <3>1, <3>2, FreeForm, Zenon DEF Outcome, Ended
  <2> QED
    BY <2>2, <2>3, Zenon
<1>9. CASE outcome \notin {"ok", "gone", "interrupted"} /\ ~over /\ ~Live(m)
  <2>1. EndJob(m, TRUE) /\ Release(m, Ended(m))
    BY <1>5, <1>9
  <2>2. Ends(m, "none")
    BY <1>9, <2>1, EndForm, Zenon
  <2> QED
    BY <1>1, <2>1, <2>2, FreeForm, Zenon DEF Outcome, Ended
<1>10. CASE outcome \notin {"ok", "gone", "interrupted"} /\ ~over /\ Live(m)
  <2>1. /\ charged' = [charged EXCEPT ![m] = IF outcome = "answered" THEN @ + 1 ELSE @]
        /\ Backoff(m)
    BY <1>5, <1>10
  <2> DEFINE n == IF outcome = "answered" THEN charged[m] + 1 ELSE charged[m]
  <2>2. charged' = [charged EXCEPT ![m] = n]
    BY <2>1
  <2>3. n \in 0..Budget
    BY <1>10, OutgoingAssumption DEF OverBudget, TypeOK
  <2> HIDE DEF n
  <2>4. Stays(m, "backoff")
    BY <2>1, <2>2, <2>3 DEF Stays, Backoff
  <2>5. Release(m, [stage EXCEPT ![m] = "backoff"])
    BY <2>1, Zenon DEF Backoff
  <2> QED
    BY <1>1, <2>4, <2>5, FreeForm, Zenon DEF Outcome
<1> QED
  BY <1>6, <1>7, <1>8, <1>9, <1>10, Zenon

\* Every action of a job is such a step.
LEMMA JobForm ==
    ASSUME TypeOK, LaneInv, SignalInv, NEW m \in Messages, JobAction(m)
    PROVE  \E s \in Stages : JobStep(m, s)
BY StartForm, AskForm, WaitAbortedForm, UploadForm, AttemptForm, BackoffForm, Zenon DEF JobAction

-----------------------------------------------------------------------------
\* Upload slots

\* A sequence without its element at i
LEMMA WithoutElements ==
    ASSUME NEW T, NEW q \in Seq(T), NEW i \in DOMAIN q
    PROVE  /\ Without(q, i) \in Seq(T)
           /\ \A j \in DOMAIN Without(q, i) : \E k \in DOMAIN q : k # i /\ Without(q, i)[j] = q[k]
           /\ \A k \in DOMAIN q : k # i => \E j \in DOMAIN Without(q, i) : Without(q, i)[j] = q[k]
           /\ Once(q) => Once(Without(q, i))
<1> DEFINE W == Without(q, i)
           n == Len(q)
<1>1. n \in Nat /\ i \in 1..n /\ DOMAIN q = 1..n
  OBVIOUS
<1>2. W \in Seq(T) /\ Len(W) = n - 1 /\ DOMAIN W = 1..(n - 1)
  BY <1>1 DEF Without
<1>3. \A j \in 1..(n - 1) : W[j] = IF j < i THEN q[j] ELSE q[j + 1]
  <2> DEFINE p == SubSeq(q, 1, i - 1)
             s == SubSeq(q, i + 1, n)
  <2>1. p \in Seq(T) /\ Len(p) = i - 1 /\ \A j \in 1..(i - 1) : p[j] = q[j]
    BY <1>1
  <2>2. s \in Seq(T) /\ Len(s) = n - i /\ \A j \in 1..(n - i) : s[j] = q[i + j]
    BY <1>1
  <2>3. W = p \o s
    BY DEF Without
  <2> HIDE DEF W, p, s, n
  <2> SUFFICES ASSUME NEW j \in 1..(n - 1) PROVE W[j] = IF j < i THEN q[j] ELSE q[j + 1]
    OBVIOUS
  <2>4. CASE j < i
    BY <1>1, <2>1, <2>2, <2>3, <2>4
  <2>5. CASE ~(j < i)
    <3>1. W[j] = s[j - (i - 1)] /\ j - (i - 1) \in 1..(n - i) /\ i + (j - (i - 1)) = j + 1
      BY <1>1, <2>1, <2>2, <2>3, <2>5
    <3> QED
      BY <2>2, <2>5, <3>1
  <2> QED
    BY <2>4, <2>5
<1> HIDE DEF W, n
<1>4. \A j \in DOMAIN W : \E k \in DOMAIN q : k # i /\ W[j] = q[k]
  <2> SUFFICES ASSUME NEW j \in 1..(n - 1) PROVE \E k \in 1..n : k # i /\ W[j] = q[k]
    BY <1>1, <1>2
  <2>1. CASE j < i
    BY <1>1, <1>3, <2>1
  <2>2. CASE ~(j < i)
    <3>1. j + 1 \in 1..n /\ j + 1 # i /\ W[j] = q[j + 1]
      BY <1>1, <1>3, <2>2
    <3> QED
      BY <3>1
  <2> QED
    BY <2>1, <2>2
<1>5. \A k \in DOMAIN q : k # i => \E j \in DOMAIN W : W[j] = q[k]
  <2> SUFFICES ASSUME NEW k \in 1..n, k # i PROVE \E j \in 1..(n - 1) : W[j] = q[k]
    BY <1>1, <1>2
  <2>1. CASE k < i
    <3>1. k \in 1..(n - 1) /\ W[k] = q[k]
      BY <1>1, <1>3, <2>1
    <3> QED
      BY <3>1
  <2>2. CASE ~(k < i)
    <3>1. k - 1 \in 1..(n - 1) /\ ~(k - 1 < i) /\ k - 1 + 1 = k
      BY <1>1, <2>2
    <3>2. W[k - 1] = q[k]
      BY <1>3, <3>1
    <3> QED
      BY <3>1, <3>2
  <2> QED
    BY <2>1, <2>2
<1>6. Once(q) => Once(W)
  <2> SUFFICES ASSUME Once(q), NEW j \in 1..(n - 1), NEW k \in 1..(n - 1), W[j] = W[k]
               PROVE  j = k
    BY <1>2 DEF Once
  <2> DEFINE at(x) == IF x < i THEN x ELSE x + 1
  <2>1. at(j) \in 1..n /\ at(k) \in 1..n /\ q[at(j)] = W[j] /\ q[at(k)] = W[k]
    BY <1>1, <1>3
  <2>2. at(j) = at(k)
    BY <1>1, <2>1 DEF Once
  <2> QED
    BY <1>1, <2>2
<1> QED
  BY <1>2, <1>4, <1>5, <1>6 DEF W

\* A filtered sequence has every element at most as often.
LEMMA FilterOnce ==
    ASSUME NEW T, NEW q \in Seq(T), NEW S, Once(q)
    PROVE  Once(FilterSeq(q, S))
<1>1. PICK n \in Nat : \E e : /\ Enumerates(e, n, KeptAt(q, S))
                              /\ FilterSeq(q, S) = [j \in 1..n |-> q[e[j]]]
  BY FilterEnumeration
<1>2. PICK e : /\ Enumerates(e, n, KeptAt(q, S))
               /\ FilterSeq(q, S) = [j \in 1..n |-> q[e[j]]]
  BY <1>1
<1>3. KeptAt(q, S) \in SUBSET Nat /\ KeptAt(q, S) \subseteq DOMAIN q
  BY DEF KeptAt
<1>4. \A j, k \in 1..n : j # k => e[j] # e[k]
  BY <1>2, <1>3, EnumerationOrder
<1>5. \A j \in 1..n : e[j] \in DOMAIN q
  BY <1>2, <1>3 DEF Enumerates
<1>6. DOMAIN FilterSeq(q, S) = 1..n
  BY <1>2
<1> SUFFICES ASSUME NEW j \in 1..n, NEW k \in 1..n, q[e[j]] = q[e[k]] PROVE j = k
  BY <1>2, <1>6 DEF Once
<1>7. e[j] = e[k]
  BY <1>5 DEF Once
<1> QED
  BY <1>4, <1>7

\* The number of holders, and of large ones, with one more or less
LEMMA AddHolder ==
    ASSUME NEW H, IsFiniteSet(H), NEW m, m \notin H
    PROVE  /\ IsFiniteSet(H \cup {m}) /\ Cardinality(H \cup {m}) = Cardinality(H) + 1
           /\ Cardinality((H \cup {m}) \cap Large) = Cardinality(H \cap Large) + Weight(m)
           /\ Cardinality(H) \in Nat /\ Cardinality(H \cap Large) \in Nat
<1>1. IsFiniteSet(H \cap Large)
  BY FS_Intersection
<1>2. Cardinality(H) \in Nat /\ Cardinality(H \cap Large) \in Nat
  BY <1>1, FS_CardinalityType
<1>3. IsFiniteSet(H \cup {m}) /\ Cardinality(H \cup {m}) = Cardinality(H) + 1
  BY FS_AddElement
<1>4. CASE m \in Large
  <2>1. (H \cup {m}) \cap Large = (H \cap Large) \cup {m} /\ m \notin H \cap Large
    BY <1>4
  <2>2. Cardinality((H \cap Large) \cup {m}) = Cardinality(H \cap Large) + 1
    BY <1>1, <2>1, FS_AddElement
  <2> QED
    BY <1>2, <1>3, <1>4, <2>1, <2>2 DEF Weight
<1>5. CASE m \notin Large
  <2>1. (H \cup {m}) \cap Large = H \cap Large
    BY <1>5
  <2>2. Cardinality((H \cup {m}) \cap Large) = Cardinality(H \cap Large)
    BY <2>1, Zenon
  <2>3. Weight(m) = 0
    BY <1>5 DEF Weight
  <2> QED
    BY <1>2, <1>3, <2>2, <2>3
<1> QED
  BY <1>4, <1>5

\* One slot fewer is held.
LEMMA RemoveHolder ==
    ASSUME NEW H, IsFiniteSet(H), NEW m \in H
    PROVE  /\ IsFiniteSet(H \ {m}) /\ Cardinality(H \ {m}) = Cardinality(H) - 1
           /\ Cardinality((H \ {m}) \cap Large) = Cardinality(H \cap Large) - Weight(m)
           /\ Cardinality(H \ {m}) \in Nat /\ Cardinality((H \ {m}) \cap Large) \in Nat
<1> DEFINE G == H \ {m}
<1>1. IsFiniteSet(G) /\ m \notin G /\ G \cup {m} = H
  BY FS_Difference
<1> HIDE DEF G
<1>2. /\ Cardinality(H) = Cardinality(G) + 1
      /\ Cardinality(H \cap Large) = Cardinality(G \cap Large) + Weight(m)
      /\ Cardinality(G) \in Nat /\ Cardinality(G \cap Large) \in Nat
  BY <1>1, AddHolder
<1>3. Weight(m) \in Nat
  BY DEF Weight
<1> QED
  BY <1>1, <1>2, <1>3 DEF G

\* A job's step leaves the cancels of other jobs alone.
LEMMA SignalElsewhere ==
    ASSUME TypeOK, NEW m \in Messages, NEW s, Outcome(m, s)
    PROVE  /\ \A x \in Messages \ {m} : signal'[x] = signal[x]
           /\ signal'[m] \in {signal[m], NoSignal}
<1>1. signal' \in {signal, [signal EXCEPT ![m] = NoSignal]}
  BY Zenon DEF Outcome, Ends, Hands, Fails, Stays, Schedule, Forget
<1> QED
  BY <1>1 DEF TypeOK

\* The jobs that hold slots are finitely many.
LEMMA FiniteHolders ==
    ASSUME TRUE
    PROVE  IsFiniteSet(Holders) /\ Holders \subseteq Messages
BY OutgoingAssumption, FS_Subset DEF Holders

\* Apart from the slots: the waiters and their cancels, and the holders, stay.
LEMMA SlotsApart ==
    ASSUME TypeOK, WaiterInv, SlotsConserved, NoStartableWaiter,
           NEW m \in Messages, NEW s, Outcome(m, s), Apart(m, s)
    PROVE  WaiterInv' /\ SlotsConserved' /\ NoStartableWaiter'
<1>1. /\ slotWaiters' = slotWaiters /\ running' = running /\ runningLarge' = runningLarge
      /\ stage' = [stage EXCEPT ![m] = s]
  BY DEF Apart, slots
<1>2. /\ stage'[m] = s /\ \A x \in Messages \ {m} : stage'[x] = stage[x] /\ signal'[x] = signal[x]
      /\ s # "waiting"
  BY <1>1, SignalElsewhere DEF TypeOK, Apart
<1>3. Holders' = Holders
  BY <1>1, <1>2 DEF Holders, Apart
<1>4. SlotsConserved'
  BY <1>1, <1>3 DEF SlotsConserved
<1>5. \A i \in DOMAIN slotWaiters : slotWaiters[i] \in Messages \ {m}
  BY DEF WaiterInv, Apart, TypeOK
<1>6. WaiterInv'
  BY <1>1, <1>2, <1>5 DEF WaiterInv
<1>7. NoStartableWaiter'
  BY <1>1, <1>2 DEF NoStartableWaiter, CanStart
<1> QED
  BY <1>4, <1>6, <1>7

\* A slot is taken.
LEMMA SlotTaken ==
    ASSUME TypeOK, WaiterInv, SlotsConserved, NoStartableWaiter,
           NEW m \in Messages, NEW s, Asks(m, s), s = "granted"
    PROVE  WaiterInv' /\ SlotsConserved' /\ NoStartableWaiter'
<1>1. /\ slotWaiters' = slotWaiters /\ running' = running + 1
      /\ runningLarge' = runningLarge + Weight(m)
      /\ stage' = [stage EXCEPT ![m] = "granted"] /\ signal' = signal /\ stage[m] = "asking"
      /\ CanStart(m \in Large, running, runningLarge)
  BY DEF Asks
<1>2. stage'[m] = "granted" /\ \A x \in Messages \ {m} : stage'[x] = stage[x]
  BY <1>1 DEF TypeOK
<1>3. Holders' = Holders \cup {m} /\ m \notin Holders
  BY <1>1, <1>2 DEF Holders
<1>4. /\ Cardinality(Holders') = Cardinality(Holders) + 1
      /\ Cardinality(Holders' \cap Large) = Cardinality(Holders \cap Large) + Weight(m)
  BY <1>3, FiniteHolders, AddHolder
<1>5. running \in Nat /\ runningLarge \in Nat /\ MaxUploads \in Nat /\ MaxLarge \in Nat
  BY OutgoingAssumption DEF TypeOK
<1>6. running + 1 <= MaxUploads /\ runningLarge + Weight(m) <= MaxLarge
  BY <1>1, <1>5 DEF CanStart, Weight, SlotsConserved
<1>7. SlotsConserved'
  BY <1>1, <1>4, <1>6 DEF SlotsConserved
<1>8. \A i \in DOMAIN slotWaiters : slotWaiters[i] \in Messages \ {m}
  BY <1>1 DEF WaiterInv, TypeOK
<1>9. WaiterInv'
  BY <1>1, <1>2, <1>8 DEF WaiterInv
<1>10. NoStartableWaiter'
  <2>1. \A large \in BOOLEAN : CanStart(large, running + 1, runningLarge + Weight(m))
                                  => CanStart(large, running, runningLarge)
    BY <1>5 DEF CanStart, Weight
  <2> QED
    BY <1>1, <1>2, <2>1 DEF NoStartableWaiter, CanStart
<1> QED
  BY <1>7, <1>9, <1>10

\* A slot is waited for.
LEMMA SlotAwaited ==
    ASSUME TypeOK, WaiterInv, SlotsConserved, NoStartableWaiter,
           NEW m \in Messages, NEW s, Asks(m, s), s = "waiting"
    PROVE  WaiterInv' /\ SlotsConserved' /\ NoStartableWaiter'
<1>1. /\ slotWaiters' = Append(slotWaiters, m) /\ running' = running
      /\ runningLarge' = runningLarge
      /\ stage' = [stage EXCEPT ![m] = "waiting"] /\ signal' = signal /\ stage[m] = "asking"
      /\ signal[m]["wait"] = "no" /\ ~CanStart(m \in Large, running, runningLarge)
  BY DEF Asks
<1>2. stage'[m] = "waiting" /\ \A x \in Messages \ {m} : stage'[x] = stage[x]
  BY <1>1 DEF TypeOK
<1>3. Holders' = Holders
  BY <1>1, <1>2 DEF Holders
<1>4. SlotsConserved'
  BY <1>1, <1>3 DEF SlotsConserved
<1> DEFINE n == Len(slotWaiters)
<1>5. /\ slotWaiters \in Seq(Messages) /\ n \in Nat /\ DOMAIN slotWaiters = 1..n
      /\ slotWaiters' \in Seq(Messages) /\ DOMAIN slotWaiters' = 1..(n + 1)
      /\ \A i \in 1..n : slotWaiters'[i] = slotWaiters[i] /\ slotWaiters[i] \in Messages
      /\ slotWaiters'[n + 1] = m
  BY <1>1 DEF TypeOK
<1> HIDE DEF n
<1>6. \A i \in 1..(n + 1) : i \in 1..n \/ i = n + 1
  BY <1>5
<1>7. \A i \in 1..n : slotWaiters[i] # m
  BY <1>1, <1>5 DEF WaiterInv
<1>8. Once(slotWaiters')
  BY <1>5, <1>6, <1>7 DEF WaiterInv, Once
<1>9. \A i \in DOMAIN slotWaiters' :
          stage'[slotWaiters'[i]] = "waiting" /\ signal'[slotWaiters'[i]]["wait"] = "no"
  BY <1>1, <1>2, <1>5, <1>6, <1>7 DEF WaiterInv
<1>10. WaiterInv'
  BY <1>8, <1>9 DEF WaiterInv, Once
<1>11. \A i \in DOMAIN slotWaiters' : ~CanStart(slotWaiters'[i] \in Large, running', runningLarge')
  BY <1>1, <1>5, <1>6 DEF NoStartableWaiter, CanStart
<1>12. \A x \in Messages : stage'[x] = "waiting" /\ signal'[x]["wait"] = "no"
           => \E i \in DOMAIN slotWaiters' : slotWaiters'[i] = x
  <2> SUFFICES ASSUME NEW x \in Messages, stage'[x] = "waiting", signal'[x]["wait"] = "no"
               PROVE  \E i \in 1..(n + 1) : slotWaiters'[i] = x
    BY <1>5
  <2>1. CASE x = m
    <3>1. n + 1 \in 1..(n + 1)
      BY <1>5
    <3> QED
      BY <1>5, <2>1, <3>1
  <2>2. CASE x # m
    <3>1. PICK i \in 1..n : slotWaiters[i] = x
      BY <1>1, <1>2, <1>5, <2>2 DEF NoStartableWaiter
    <3>2. i \in 1..(n + 1)
      BY <1>5
    <3> QED
      BY <1>5, <3>1, <3>2
  <2> QED
    BY <2>1, <2>2
<1>13. NoStartableWaiter'
  BY <1>11, <1>12, Zenon DEF NoStartableWaiter, CanStart
<1> QED
  BY <1>4, <1>10, <1>13

\* A slot is given back, and nobody can take it.
LEMMA SlotGivenBack ==
    ASSUME TypeOK, WaiterInv, SlotsConserved, NoStartableWaiter,
           NEW m \in Messages, NEW s \in {"none", "failing", "backoff"},
           Outcome(m, s), stage[m] \in {"granted", "uploading"}, GivesBack(m, s)
    PROVE  WaiterInv' /\ SlotsConserved' /\ NoStartableWaiter' /\ running' \in Nat
           /\ runningLarge' \in Nat
<1>1. /\ slotWaiters' = slotWaiters /\ running' = running - 1
      /\ runningLarge' = runningLarge - Weight(m) /\ stage' = [stage EXCEPT ![m] = s]
      /\ \A i \in DOMAIN slotWaiters :
            ~CanStart(slotWaiters[i] \in Large, running - 1, runningLarge - Weight(m))
  BY DEF GivesBack
<1>2. stage'[m] = s /\ \A x \in Messages \ {m} : stage'[x] = stage[x] /\ signal'[x] = signal[x]
  BY <1>1, SignalElsewhere DEF TypeOK
<1>3. Holders' = Holders \ {m} /\ m \in Holders
  BY <1>1, <1>2 DEF Holders
<1>4. /\ Cardinality(Holders') = Cardinality(Holders) - 1
      /\ Cardinality(Holders' \cap Large) = Cardinality(Holders \cap Large) - Weight(m)
      /\ Cardinality(Holders') \in Nat /\ Cardinality(Holders' \cap Large) \in Nat
  BY <1>3, FiniteHolders, RemoveHolder
<1>5. /\ running \in Nat /\ runningLarge \in Nat /\ MaxUploads \in Nat /\ MaxLarge \in Nat
      /\ Weight(m) \in Nat
  BY OutgoingAssumption DEF TypeOK, Weight
<1>6. SlotsConserved' /\ running' \in Nat /\ runningLarge' \in Nat
  BY <1>1, <1>4, <1>5 DEF SlotsConserved
<1>7. \A i \in DOMAIN slotWaiters : slotWaiters[i] \in Messages \ {m}
  BY DEF WaiterInv, TypeOK
<1>8. WaiterInv'
  BY <1>1, <1>2, <1>7 DEF WaiterInv
<1>9. NoStartableWaiter'
  BY <1>1, <1>2 DEF NoStartableWaiter, CanStart
<1> QED
  BY <1>6, <1>8, <1>9

\* Of the waiters that could not start before, none can once one of them has got
\* the slot of m: the loop over the waiters needs no second round.
LEMMA NobodyElse ==
    ASSUME NEW r \in Nat, NEW rl \in Nat, NEW m, NEW w,
           ~CanStart(w \in Large, r, rl), CanStart(w \in Large, r - 1, rl - Weight(m)),
           NEW large \in BOOLEAN, ~CanStart(large, r, rl)
    PROVE  ~CanStart(large, r - 1 + 1, rl - Weight(m) + Weight(w))
<1>1. MaxUploads \in Nat /\ MaxLarge \in Nat
  BY OutgoingAssumption
<1> QED
  BY <1>1 DEF CanStart, Weight

\* A slot is given back and passed on.
LEMMA SlotPassedOn ==
    ASSUME TypeOK, WaiterInv, SlotsConserved, NoStartableWaiter,
           NEW m \in Messages, NEW s \in {"none", "failing", "backoff"}, NEW i, NEW w,
           Outcome(m, s), stage[m] \in {"granted", "uploading"}, PassesOn(m, s, i, w)
    PROVE  WaiterInv' /\ SlotsConserved' /\ NoStartableWaiter' /\ running' \in Nat
           /\ runningLarge' \in Nat
<1>1. /\ i \in DOMAIN slotWaiters /\ w = slotWaiters[i]
      /\ CanStart(w \in Large, running - 1, runningLarge - Weight(m))
      /\ running' = running - 1 + 1 /\ runningLarge' = runningLarge - Weight(m) + Weight(w)
      /\ slotWaiters' = Without(slotWaiters, i)
      /\ stage' = [[stage EXCEPT ![m] = s] EXCEPT ![w] = "granted"]
  BY Zenon DEF PassesOn
<1>2. /\ w \in Messages /\ w # m /\ stage[w] = "waiting" /\ slotWaiters \in Seq(Messages)
      /\ ~CanStart(w \in Large, running, runningLarge)
  BY <1>1 DEF WaiterInv, TypeOK, NoStartableWaiter
<1>3. /\ stage'[m] = s /\ stage'[w] = "granted"
      /\ \A x \in Messages \ {m, w} : stage'[x] = stage[x]
      /\ \A x \in Messages \ {m} : signal'[x] = signal[x]
  BY <1>1, <1>2, SignalElsewhere DEF TypeOK
<1> DEFINE H == Holders \ {m}
<1>4. Holders' = H \cup {w} /\ m \in Holders /\ w \notin H
  BY <1>1, <1>2, <1>3 DEF Holders
<1>5. /\ Cardinality(H) = Cardinality(Holders) - 1 /\ IsFiniteSet(H)
      /\ Cardinality(H \cap Large) = Cardinality(Holders \cap Large) - Weight(m)
      /\ Cardinality(H) \in Nat /\ Cardinality(H \cap Large) \in Nat
  BY <1>4, FiniteHolders, RemoveHolder
<1> HIDE DEF H
<1>6. /\ Cardinality(Holders') = Cardinality(H) + 1
      /\ Cardinality(Holders' \cap Large) = Cardinality(H \cap Large) + Weight(w)
  BY <1>4, <1>5, AddHolder
<1>7. /\ running \in Nat /\ runningLarge \in Nat /\ MaxUploads \in Nat /\ MaxLarge \in Nat
      /\ Weight(w) \in Nat /\ Weight(m) \in Nat
  BY OutgoingAssumption DEF TypeOK, Weight
<1>8. runningLarge' <= MaxLarge
  BY <1>1, <1>5, <1>6, <1>7 DEF CanStart, Weight, SlotsConserved
<1>9. SlotsConserved' /\ running' \in Nat /\ runningLarge' \in Nat
  BY <1>1, <1>5, <1>6, <1>7, <1>8 DEF SlotsConserved
<1>10. /\ \A j \in DOMAIN slotWaiters' : \E k \in DOMAIN slotWaiters :
              k # i /\ slotWaiters'[j] = slotWaiters[k]
       /\ \A k \in DOMAIN slotWaiters : k # i
              => \E j \in DOMAIN slotWaiters' : slotWaiters'[j] = slotWaiters[k]
       /\ Once(slotWaiters')
  BY <1>1, <1>2, WithoutElements DEF WaiterInv
<1>11. \A k \in DOMAIN slotWaiters : k # i => slotWaiters[k] \in Messages \ {m, w}
  <2>1. ASSUME NEW k \in DOMAIN slotWaiters, k # i PROVE slotWaiters[k] # w
    BY <1>1, <2>1 DEF WaiterInv, Once
  <2>2. \A k \in DOMAIN slotWaiters : slotWaiters[k] \in Messages /\ slotWaiters[k] # m
    BY DEF WaiterInv, TypeOK
  <2> QED
    BY <2>1, <2>2
<1>12. \A j \in DOMAIN slotWaiters' :
           stage'[slotWaiters'[j]] = "waiting" /\ signal'[slotWaiters'[j]]["wait"] = "no"
  BY <1>3, <1>10, <1>11 DEF WaiterInv
<1>13. WaiterInv'
  BY <1>10, <1>12 DEF WaiterInv, Once
<1>14. \A j \in DOMAIN slotWaiters' : ~CanStart(slotWaiters'[j] \in Large, running', runningLarge')
  <2> SUFFICES ASSUME NEW j \in DOMAIN slotWaiters'
               PROVE  ~CanStart(slotWaiters'[j] \in Large, running', runningLarge')
    OBVIOUS
  <2>1. PICK k \in DOMAIN slotWaiters : k # i /\ slotWaiters'[j] = slotWaiters[k]
    BY <1>10
  <2> DEFINE large == slotWaiters[k] \in Large
  <2>2. large \in BOOLEAN /\ ~CanStart(large, running, runningLarge)
    BY DEF NoStartableWaiter
  <2> HIDE DEF large
  <2>3. ~CanStart(large, running - 1 + 1, runningLarge - Weight(m) + Weight(w))
    BY <1>1, <1>2, <1>7, <2>2, NobodyElse
  <2> QED
    BY <1>1, <2>1, <2>3 DEF large
<1>15. \A x \in Messages : stage'[x] = "waiting" /\ signal'[x]["wait"] = "no"
           => \E j \in DOMAIN slotWaiters' : slotWaiters'[j] = x
  <2> SUFFICES ASSUME NEW x \in Messages, stage'[x] = "waiting", signal'[x]["wait"] = "no"
               PROVE  \E j \in DOMAIN slotWaiters' : slotWaiters'[j] = x
    OBVIOUS
  <2>1. x \notin {m, w}
    BY <1>3
  <2>2. PICK k \in DOMAIN slotWaiters : slotWaiters[k] = x
    BY <1>3, <2>1 DEF NoStartableWaiter
  <2> QED
    BY <1>1, <1>10, <2>1, <2>2
<1>16. NoStartableWaiter'
  BY <1>14, <1>15, Zenon DEF NoStartableWaiter, CanStart
<1> QED
  BY <1>9, <1>13, <1>16

\* The slots, over the steps of a job
LEMMA SlotJob ==
    ASSUME TypeOK, WaiterInv, SlotsConserved, NoStartableWaiter,
           NEW m \in Messages, NEW s \in Stages, JobStep(m, s)
    PROVE  /\ WaiterInv' /\ SlotsConserved' /\ NoStartableWaiter'
           /\ running' \in Nat /\ runningLarge' \in Nat
<1>1. Outcome(m, s)
  BY DEF JobStep
<1>2. CASE Apart(m, s)
  <2>1. running' \in Nat /\ runningLarge' \in Nat
    BY <1>2 DEF Apart, slots, TypeOK
  <2> QED
    BY <1>1, <1>2, <2>1, SlotsApart
<1>3. CASE Asks(m, s)
  <2>1. s \in {"granted", "waiting"} /\ running' \in Nat /\ runningLarge' \in Nat
    BY <1>3 DEF Asks, TypeOK, Weight
  <2> QED
    BY <1>3, <2>1, SlotTaken, SlotAwaited
<1>4. CASE Frees(m, s)
  <2>1. stage[m] \in {"granted", "uploading"} /\ s \in {"none", "failing", "backoff"}
    BY <1>4 DEF Frees
  <2>2. CASE GivesBack(m, s)
    BY <1>1, <2>1, <2>2, SlotGivenBack
  <2>3. CASE \E i, w : PassesOn(m, s, i, w)
    BY <1>1, <2>1, <2>3, SlotPassedOn
  <2> QED
    BY <1>4, <2>2, <2>3, Zenon DEF Frees
<1> QED
  BY <1>2, <1>3, <1>4, Zenon DEF JobStep

\* A step that leaves the slots and who waits for them alone
LEMMA SlotCalm ==
    ASSUME TypeOK, WaiterInv, SlotsConserved, NoStartableWaiter, UNCHANGED slots,
           \A x \in Messages :
               \/ stage'[x] = stage[x]
               \/ {stage[x], stage'[x]} \cap {"waiting", "granted", "uploading"} = {},
           \A x \in Messages : stage[x] = "waiting" => signal'[x]["wait"] = signal[x]["wait"]
    PROVE  WaiterInv' /\ SlotsConserved' /\ NoStartableWaiter'
<1>1. slotWaiters' = slotWaiters /\ running' = running /\ runningLarge' = runningLarge
  BY DEF slots
<1>2. \A x \in Messages :
          /\ stage[x] \in {"waiting", "granted", "uploading"} => stage'[x] = stage[x]
          /\ stage'[x] \in {"waiting", "granted", "uploading"} => stage'[x] = stage[x]
  BY Zenon
<1>3. Holders' = Holders
  BY <1>2 DEF Holders
<1>4. \A i \in DOMAIN slotWaiters : slotWaiters[i] \in Messages
  BY DEF TypeOK
<1>5. SlotsConserved'
  BY <1>1, <1>3 DEF SlotsConserved
<1>6. WaiterInv'
  BY <1>1, <1>2, <1>4 DEF WaiterInv
<1>7. NoStartableWaiter'
  BY <1>1, <1>2 DEF NoStartableWaiter, CanStart
<1> QED
  BY <1>5, <1>6, <1>7

\* What a cancel does to the entries of the coordinator
LEMMA AbortSignals ==
    ASSUME TypeOK, NEW ms \in SUBSET Messages, NEW reason \in Signals \ {"no"}, Abort(ms, reason)
    PROVE  /\ signal' \in [Messages -> [Entries -> Signals]]
           /\ \A x \in Messages, e \in Entries :
                 signal'[x][e] = IF x \in ms /\ e \in InFlight(x) /\ signal[x][e] = "no"
                                 THEN reason ELSE signal[x][e]
<1>1. signal' = [m \in Messages |-> [e \in Entries |->
           IF m \in ms /\ e \in InFlight(m) \cap Entries /\ signal[m][e] = "no"
           THEN reason ELSE signal[m][e]]]
  BY Zenon DEF Abort, AbortEntries
<1> HIDE DEF Abort
<1>2. signal \in [Messages -> [Entries -> Signals]]
  BY DEF TypeOK
<1>3. \A x \in Messages, e \in Entries :
         /\ signal'[x][e] = IF x \in ms /\ e \in InFlight(x) /\ signal[x][e] = "no"
                            THEN reason ELSE signal[x][e]
         /\ signal'[x][e] \in Signals
  BY <1>1, <1>2
<1>4. signal' \in [Messages -> [Entries -> Signals]]
  <2>1. signal' = [m \in Messages |-> [e \in Entries |-> signal'[m][e]]]
    BY <1>1
  <2> QED
    BY <1>3, <2>1
<1> QED
  BY <1>3, <1>4

\* The waiters after a cancel
LEMMA AbortWaiters ==
    ASSUME TypeOK, NEW ms \in SUBSET Messages, NEW reason, Abort(ms, reason)
    PROVE  /\ slotWaiters' \in Seq(Messages)
           /\ Once(slotWaiters) => Once(slotWaiters')
           /\ \A j \in DOMAIN slotWaiters' :
                 slotWaiters'[j] \notin ms /\ \E i \in DOMAIN slotWaiters :
                     slotWaiters[i] = slotWaiters'[j]
           /\ \A i \in DOMAIN slotWaiters :
                 slotWaiters[i] \notin ms
                     => \E j \in DOMAIN slotWaiters' : slotWaiters'[j] = slotWaiters[i]
<1>1. slotWaiters \in Seq(Messages)
  BY DEF TypeOK
<1> DEFINE r == FilterSeq(slotWaiters, Messages \ ms)
<1>2. slotWaiters' = r
  BY Zenon DEF Abort, AbortEntries
<1>3. r \in Filtered(slotWaiters, Messages \ ms)
  BY <1>1, FilterIsFiltered
<1>4. Once(slotWaiters) => Once(r)
  BY <1>1, FilterOnce
<1> HIDE DEF r
<1>5. /\ r \in Seq(Messages)
      /\ \A j \in DOMAIN r : r[j] \in Messages \ ms /\ \E i \in DOMAIN slotWaiters :
             slotWaiters[i] = r[j]
      /\ \A i \in DOMAIN slotWaiters : slotWaiters[i] \in Messages \ ms
             => \E j \in DOMAIN r : r[j] = slotWaiters[i]
  BY <1>1, <1>3, FilteredElements
<1>6. \A i \in DOMAIN slotWaiters : slotWaiters[i] \in Messages
  BY <1>1
<1> QED
  BY <1>2, <1>4, <1>5, <1>6

\* A cancel takes waiters out of the queue, never a slot.
LEMMA SlotAbort ==
    ASSUME TypeOK, WaiterInv, SlotsConserved, NoStartableWaiter,
           NEW ms \in SUBSET Messages, NEW reason \in Signals \ {"no"}, Abort(ms, reason),
           UNCHANGED <<stage, running, runningLarge>>
    PROVE  WaiterInv' /\ SlotsConserved' /\ NoStartableWaiter'
<1>1. stage' = stage /\ running' = running /\ runningLarge' = runningLarge
  OBVIOUS
<1>2. SlotsConserved'
  BY <1>1 DEF SlotsConserved, Holders
<1>3. "wait" \in Entries
  BY DEF Entries
<1>4. \A x \in Messages :
          /\ x \notin ms => signal'[x]["wait"] = signal[x]["wait"]
          /\ stage[x] = "waiting" /\ x \in ms => signal'[x]["wait"] # "no"
  BY <1>3, AbortSignals DEF InFlight
<1>5. /\ Once(slotWaiters')
      /\ \A j \in DOMAIN slotWaiters' : /\ slotWaiters'[j] \in Messages \ ms
                                        /\ \E i \in DOMAIN slotWaiters :
                                               slotWaiters[i] = slotWaiters'[j]
      /\ \A i \in DOMAIN slotWaiters :
            slotWaiters[i] \notin ms
                => \E j \in DOMAIN slotWaiters' : slotWaiters'[j] = slotWaiters[i]
  <2>1. slotWaiters' \in Seq(Messages)
    BY AbortWaiters
  <2>2. \A j \in DOMAIN slotWaiters' : slotWaiters'[j] \in Messages
    BY <2>1
  <2> QED
    BY <2>2, AbortWaiters DEF WaiterInv
<1>6. \A j \in DOMAIN slotWaiters' :
          stage'[slotWaiters'[j]] = "waiting" /\ signal'[slotWaiters'[j]]["wait"] = "no"
  BY <1>1, <1>4, <1>5 DEF WaiterInv
<1>7. WaiterInv'
  BY <1>5, <1>6 DEF WaiterInv, Once
<1>8. NoStartableWaiter'
  <2>1. \A j \in DOMAIN slotWaiters' : ~CanStart(slotWaiters'[j] \in Large, running', runningLarge')
    BY <1>1, <1>5 DEF NoStartableWaiter, CanStart
  <2>2. \A x \in Messages : stage'[x] = "waiting" /\ signal'[x]["wait"] = "no"
           => \E j \in DOMAIN slotWaiters' : slotWaiters'[j] = x
    <3> SUFFICES ASSUME NEW x \in Messages, stage'[x] = "waiting", signal'[x]["wait"] = "no"
                 PROVE  \E j \in DOMAIN slotWaiters' : slotWaiters'[j] = x
      OBVIOUS
    <3>1. x \notin ms /\ stage[x] = "waiting" /\ signal[x]["wait"] = "no"
      BY <1>1, <1>4
    <3>2. PICK i \in DOMAIN slotWaiters : slotWaiters[i] = x
      BY <3>1 DEF NoStartableWaiter
    <3> QED
      BY <1>5, <3>1, <3>2
  <2> QED
    BY <2>1, <2>2, Zenon DEF NoStartableWaiter, CanStart
<1> QED
  BY <1>2, <1>7, <1>8

-----------------------------------------------------------------------------
\* The steps of the system, job steps in their form

BlobStep(m, b) == BlobUploaded(m, b) \/ BlobFailed(m, b) \/ BlobRefused(m, b) \/ BlobCancelled(m, b)
SendStep(m) == TaskRuns(m) \/ TaskWrites(m) \/ TaskAcked(m) \/ ClearRow(m)

MessageStep(m) ==
    \/ Enroll(m) \/ Persist(m) \/ ClearFailed(m) \/ SendStep(m) \/ Remove(m)
    \/ \E s \in Stages : JobStep(m, s)
    \/ \E b \in Blobs[m] : BlobStep(m, b)
Reconnects == ConnectionBreaks \/ Replaced
OtherStep ==
    \/ \E c \in Conversations : SoftClear(c) \/ Leave(c)
    \/ Reconnects \/ Stop \/ Crash \/ Recover

\* Every step is a step of a message, job steps in their form, or one of the
\* others.
LEMMA NextForm ==
    ASSUME TypeOK, LaneInv, SignalInv, Next
    PROVE  (\E m \in Messages : MessageStep(m)) \/ OtherStep
<1>1. CASE OtherStep
  BY <1>1
<1>2. CASE \E m \in Messages :
          Enroll(m) \/ Continue(m) \/ Settle(m) \/ BackoffElapsed(m) \/ Send(m) \/ Remove(m)
  <2>1. PICK m \in Messages :
          Enroll(m) \/ Continue(m) \/ Settle(m) \/ BackoffElapsed(m) \/ Send(m) \/ Remove(m)
    BY <1>2
  <2>2. CASE JobAction(m)
    BY <2>2, JobForm, Zenon DEF MessageStep
  <2>3. CASE ~JobAction(m)
    BY <2>1, <2>3, Zenon DEF JobAction, Continue, Settle, Send, SendStep, BlobStep, MessageStep
  <2> QED
    BY <2>2, <2>3, Zenon
<1> QED
  BY <1>1, <1>2, Zenon DEF Next, OtherStep, Reconnects

\* What the settling of a blob's upload changes
LEMMA BlobForm ==
    ASSUME TypeOK, SignalInv, NEW m \in Messages, NEW b \in Blobs[m], BlobStep(m, b)
    PROVE  /\ stage[m] = "uploading" /\ result[m][b] = "busy" /\ b \in {"main", "thumbnail"}
           /\ UNCHANGED uploadRest
           /\ \E x \in Results \ {"busy"} : /\ result' = [result EXCEPT ![m][b] = x] /\ Means(m, x)
           /\ signal' \in [Messages -> [Entries -> Signals]]
           /\ \A n \in Messages, e \in Entries :
                 \/ signal'[n][e] = signal[n][e]
                 \/ signal[n][e] = "no" /\ signal'[n][e] = "sibling" /\ n = m
                        /\ e \in {"main", "thumbnail"}
<1>1. b \in {"main", "thumbnail"} /\ b \in Entries
  BY OutgoingAssumption DEF Entries
<1>2. stage[m] = "uploading" /\ b \in InFlight(m) /\ UNCHANGED uploadRest
  BY DEF BlobStep, BlobUploaded, BlobFailed, BlobRefused, BlobCancelled, Uploading
<1>3. InFlight(m) = {e \in Blobs[m] : result[m][e] = "busy"}
  BY <1>2 DEF InFlight
<1>4. result[m][b] = "busy"
  BY <1>2, <1>3
<1>5. \E x \in Results \ {"busy"} : result' = [result EXCEPT ![m][b] = x] /\ Means(m, x)
  <2>1. CASE BlobUploaded(m, b)
    <3>1. result' = [result EXCEPT ![m][b] = "ok"]
      BY <2>1 DEF BlobUploaded
    <3>2. "ok" \in Results \ {"busy"} /\ Means(m, "ok")
      BY DEF Results, Means
    <3> QED
      BY <3>1, <3>2, Zenon
  <2>2. CASE BlobFailed(m, b)
    <3>1. \E x \in {"answered", "transport"} : result' = [result EXCEPT ![m][b] = x]
      BY <2>2, Zenon DEF BlobFailed
    <3>2. \A x \in {"answered", "transport"} : x \in Results \ {"busy"} /\ Means(m, x)
      BY DEF Results, Means
    <3> QED
      BY <3>1, <3>2, Zenon
  <2>3. CASE BlobRefused(m, b)
    <3>1. result' = [result EXCEPT ![m][b] = "terminal"]
      BY <2>3 DEF BlobRefused
    <3>2. "terminal" \in Results \ {"busy"} /\ Means(m, "terminal")
      BY DEF Results, Means
    <3> QED
      BY <3>1, <3>2, Zenon
  <2>4. CASE BlobCancelled(m, b)
    <3>1. signal[m][b] # "no" /\ result' = [result EXCEPT ![m][b] = signal[m][b]]
      BY <2>4 DEF BlobCancelled
    <3>2. signal[m][b] \in Results \ {"busy"}
      BY <3>1, <1>1 DEF TypeOK, Results, Signals
    <3>3. Means(m, signal[m][b])
      BY <1>1 DEF SignalInv
    <3> QED
      BY <3>1, <3>2, <3>3, Zenon
  <2> QED
    BY <2>1, <2>2, <2>3, <2>4, Zenon DEF BlobStep
<1>6. CASE BlobRefused(m, b)
  <2>1. signal' = [signal EXCEPT ![m] =
          [e \in Entries |-> IF e \in InFlight(m) \ {b} /\ @[e] = "no" THEN "sibling" ELSE @[e]]]
    BY <1>6 DEF BlobRefused
  <2>2. signal \in [Messages -> [Entries -> Signals]] /\ "sibling" \in Signals
    BY DEF TypeOK, Signals
  <2>3. \A e \in InFlight(m) : e \in {"main", "thumbnail"}
    BY <1>3, OutgoingAssumption
  <2>4. \A n \in Messages, e \in Entries :
          signal'[n][e] = IF n = m /\ e \in InFlight(m) \ {b} /\ signal[m][e] = "no"
                          THEN "sibling" ELSE signal[n][e]
    BY <2>1, <2>2
  <2>5. signal' \in [Messages -> [Entries -> Signals]]
    BY <2>1, <2>2
  <2>6. \A n \in Messages, e \in Entries :
            \/ signal'[n][e] = signal[n][e]
            \/ signal[n][e] = "no" /\ signal'[n][e] = "sibling" /\ n = m
                   /\ e \in {"main", "thumbnail"}
    BY <2>3, <2>4
  <2> QED
    BY <1>1, <1>2, <1>4, <1>5, <2>5, <2>6, Zenon
<1>7. CASE ~BlobRefused(m, b)
  <2>1. signal' = signal
    BY <1>7 DEF BlobStep, BlobUploaded, BlobFailed, BlobCancelled
  <2> QED
    BY <1>1, <1>2, <1>4, <1>5, <2>1 DEF TypeOK
<1> QED
  BY <1>6, <1>7

-----------------------------------------------------------------------------
\* Type correctness

DataTypes ==
    /\ row \subseteq Messages /\ createdAt \in [Messages -> Nat]
    /\ status \in [Messages -> Statuses]
    /\ uploaded \in [Messages -> SUBSET {"main", "thumbnail"}] /\ left \subseteq Groups
FlagTypes ==
    up \in BOOLEAN /\ mid \in Messages \cup {None} /\ shutdown \in BOOLEAN /\ erred \in BOOLEAN
LaneTypes == lane \in [Conversations -> Seq(Messages)] /\ stage \in [Messages -> Stages]
JobTypes ==
    /\ signal \in [Messages -> [Entries -> Signals]]
    /\ result \in [Messages -> [{"main", "thumbnail"} -> Results]]
    /\ charged \in [Messages -> 0..Budget]
SlotTypes == slotWaiters \in Seq(Messages) /\ running \in Nat /\ runningLarge \in Nat
SendTypes ==
    tasks \in Seq(Messages) /\ wire \in {"idle", "reflected", "written"}
        /\ confirmed \subseteq Messages
HistoryTypes ==
    /\ withdrawn \subseteq Messages /\ orphans \subseteq Messages
    /\ crashes \in 0..MaxCrashes /\ reconnects \in 0..MaxReconnects /\ meddling \in 0..MaxMeddling

\* The types, variable by variable
LEMMA TypeParts ==
    /\ TypeOK <=> /\ DataTypes /\ FlagTypes /\ LaneTypes /\ JobTypes /\ SlotTypes /\ SendTypes
                  /\ HistoryTypes
    /\ TypeOK' <=> /\ DataTypes' /\ FlagTypes' /\ LaneTypes' /\ JobTypes' /\ SlotTypes'
           /\ SendTypes'
                   /\ HistoryTypes'
BY Zenon DEF TypeOK, DataTypes, FlagTypes, LaneTypes, JobTypes, SlotTypes, SendTypes, HistoryTypes

\* The literals
LEMMA Literals ==
    /\ {"none", "queued", "asking", "waiting", "granted", "uploading", "backoff",
           "failing"} = Stages
    /\ {"new", "absent", "unsent", "sent", "failed"} = Statuses
    /\ {"none", "busy"} \subseteq Results /\ {"gone", "interrupted", "sibling", "no"} = Signals
    /\ NoSignal \in [Entries -> Signals] /\ NoResult \in [{"main", "thumbnail"} -> Results]
    /\ Entries = {"main", "thumbnail", "wait"}
BY DEF Stages, Statuses, Results, Signals, NoSignal, NoResult, Entries

\* How a job's step moves the jobs
LEMMA JobStage ==
    ASSUME TypeOK, WaiterInv, NEW m \in Messages, NEW s \in Stages, JobStep(m, s)
    PROVE  /\ stage' \in [Messages -> Stages] /\ stage'[m] = s
           /\ \A x \in Messages \ {m} :
                 \/ stage'[x] = stage[x]
                 \/ stage[x] = "waiting" /\ stage'[x] = "granted" /\ signal[x]["wait"] = "no"
<1>1. stage \in [Messages -> Stages] /\ "granted" \in Stages
  BY Literals DEF TypeOK
<1>2. CASE stage' = [stage EXCEPT ![m] = s]
  BY <1>1, <1>2
<1>3. CASE Frees(m, s) /\ \E i, w : PassesOn(m, s, i, w)
  <2>1. PICK i, w : PassesOn(m, s, i, w)
    BY <1>3
  <2>2. w \in Messages /\ w # m /\ stage[w] = "waiting" /\ signal[w]["wait"] = "no"
    <3>1. i \in DOMAIN slotWaiters /\ w = slotWaiters[i] /\ stage[m] \in {"granted", "uploading"}
      BY <1>3, <2>1, Zenon DEF PassesOn, Frees
    <3> QED
      BY <3>1 DEF WaiterInv, TypeOK
  <2>3. stage' = [[stage EXCEPT ![m] = s] EXCEPT ![w] = "granted"]
    BY <2>1 DEF PassesOn
  <2> QED
    BY <1>1, <2>2, <2>3
<1> QED
  BY <1>2, <1>3, Zenon DEF JobStep, Apart, Asks, Frees, GivesBack

\* The lane loses its head.
LEMMA LaneTail ==
    ASSUME TypeOK, LaneInv, NEW m \in Messages, stage[m] # "none"
    PROVE  /\ Conv[m] \in Conversations /\ lane[Conv[m]] \in Seq(Messages) /\ lane[Conv[m]] # <<>>
           /\ Tail(lane[Conv[m]]) \in Seq(Messages)
<1>1. Conv[m] \in Conversations
  BY OutgoingAssumption
<1>2. lane[Conv[m]] \in Seq(Messages) /\ OwnedByLane(m)
  BY <1>1 DEF TypeOK, LaneInv
<1> QED
  BY <1>1, <1>2 DEF OwnedByLane

\* Job steps keep the types.
LEMMA TypeJob ==
    ASSUME TypeOK, LaneInv, WaiterInv, SlotsConserved, NoStartableWaiter,
           NEW m \in Messages, NEW s \in Stages, JobStep(m, s)
    PROVE  TypeOK'
<1>1. Outcome(m, s) /\ UNCHANGED jobRest /\ stage[m] # "none"
  BY DEF JobStep
<1>2. DataTypes'
  <2>1. row' \subseteq row /\ status' \in {status, [status EXCEPT ![m] = "failed"]}
    BY <1>1 DEF Outcome, Ends, Hands, Fails, Stays, Schedule
  <2> QED
    BY <1>1, <2>1, TypeParts, Literals DEF DataTypes, jobRest
<1>3. FlagTypes'
  <2>1. mid' \in {mid, m}
    BY <1>1 DEF Outcome, Ends, Hands, Fails, Stays, Schedule
  <2> QED
    BY <1>1, <2>1, TypeParts DEF FlagTypes, jobRest
<1>4. LaneTypes'
  <2>1. lane' \in {lane, [lane EXCEPT ![Conv[m]] = Tail(@)]}
    BY <1>1 DEF Outcome, Ends, Hands, Fails, Stays, Schedule, Forget
  <2> QED
    BY <1>1, <2>1, LaneTail, JobStage, TypeParts DEF LaneTypes
<1>5. JobTypes'
  <2>1. signal' \in {signal, [signal EXCEPT ![m] = NoSignal]}
    BY <1>1, Zenon DEF Outcome, Ends, Hands, Fails, Stays, Schedule, Forget
  <2>2. \/ result' = result \/ result' = [result EXCEPT ![m] = NoResult]
        \/ \E r \in [{"main", "thumbnail"} -> {"none", "busy"}] : result' = [result EXCEPT ![m] = r]
    BY <1>1, Zenon DEF Outcome, Ends, Hands, Fails, Stays, Schedule, Forget
  <2>3. charged' = charged \/ \E n \in 0..Budget : charged' = [charged EXCEPT ![m] = n]
    <3>1. 0 \in 0..Budget
      BY OutgoingAssumption
    <3> QED
      BY <1>1, <3>1, Zenon DEF Outcome, Ends, Hands, Fails, Stays, Schedule, Forget
  <2>4. \A r \in [{"main", "thumbnail"} -> {"none", "busy"}] :
            r \in [{"main", "thumbnail"} -> Results]
    BY Literals
  <2>5. signal' \in [Messages -> [Entries -> Signals]]
    BY <2>1, Literals DEF TypeOK
  <2>6. result' \in [Messages -> [{"main", "thumbnail"} -> Results]]
    BY <2>2, <2>4, Literals DEF TypeOK
  <2>7. charged' \in [Messages -> 0..Budget]
    BY <2>3 DEF TypeOK
  <2> QED
    BY <2>5, <2>6, <2>7 DEF JobTypes
<1>6. SlotTypes'
  <2>1. slotWaiters' \in Seq(Messages)
    <3>1. CASE \E i, w : PassesOn(m, s, i, w)
      <4>1. PICK i \in DOMAIN slotWaiters : slotWaiters' = Without(slotWaiters, i)
        BY <3>1, Zenon DEF PassesOn
      <4>2. slotWaiters \in Seq(Messages)
        BY DEF TypeOK
      <4> QED
        BY <4>1, <4>2, WithoutElements
    <3>2. CASE slotWaiters' \in {slotWaiters, Append(slotWaiters, m)}
      <4>1. slotWaiters \in Seq(Messages)
        BY DEF TypeOK
      <4>2. Append(slotWaiters, m) \in Seq(Messages)
        BY <4>1
      <4> QED
        BY <3>2, <4>1, <4>2, Zenon
    <3>3. Apart(m, s) => slotWaiters' = slotWaiters
      BY DEF Apart, slots
    <3>4. Asks(m, s) => slotWaiters' \in {slotWaiters, Append(slotWaiters, m)}
      BY DEF Asks
    <3>5. GivesBack(m, s) => slotWaiters' = slotWaiters
      BY DEF GivesBack
    <3> QED
      BY <3>1, <3>2, <3>3, <3>4, <3>5, Zenon DEF JobStep, Frees
  <2> QED
    BY <2>1, SlotJob DEF SlotTypes
<1>7. SendTypes'
  <2>1. tasks' \in {tasks, Append(tasks, m)}
    BY <1>1 DEF Outcome, Ends, Hands, Fails, Stays, Schedule
  <2> QED
    BY <1>1, <2>1, TypeParts DEF SendTypes, jobRest
<1>8. HistoryTypes'
  <2>1. orphans' \in {orphans, orphans \cup {m}}
    BY <1>1 DEF Outcome, Ends, Hands, Fails, Stays, Schedule
  <2> QED
    BY <1>1, <2>1, TypeParts DEF HistoryTypes, jobRest, history
<1> QED
  BY <1>2, <1>3, <1>4, <1>5, <1>6, <1>7, <1>8, TypeParts, Zenon

\* What an abort leaves to be typed
LEMMA TypeAbort ==
    ASSUME TypeOK, NEW ms \in SUBSET Messages, NEW reason \in {"gone", "interrupted"},
           Abort(ms, reason),
           UNCHANGED <<running, runningLarge, result, charged>>
    PROVE  JobTypes' /\ SlotTypes'
<1>1. reason \in Signals \ {"no"}
  BY Literals
<1>2. slotWaiters' \in Seq(Messages) /\ signal' \in [Messages -> [Entries -> Signals]]
  BY <1>1, AbortWaiters, AbortSignals
<1> QED
  BY <1>2, TypeParts DEF JobTypes, SlotTypes

\* The first write of composing
LEMMA TypeEnroll ==
    ASSUME TypeOK, NEW m \in Messages, Enroll(m)
    PROVE  TypeOK'
<1>1. Clock[m] \subseteq Nat
  BY OutgoingAssumption
<1>2. PICK at \in Clock[m] : createdAt' = [createdAt EXCEPT ![m] = at]
  BY Zenon DEF Enroll
<1>3. at \in Nat
  BY <1>1, <1>2
<1>4. DataTypes' /\ FlagTypes'
  BY <1>2, <1>3, TypeParts, Literals DEF Enroll, DataTypes, FlagTypes, sending
<1>5. LaneTypes' /\ JobTypes' /\ SlotTypes' /\ SendTypes' /\ HistoryTypes'
  BY TypeParts DEF Enroll, LaneTypes, JobTypes, SlotTypes, SendTypes, HistoryTypes, slots, job,
     sending, history
<1> QED
  BY <1>4, <1>5, TypeParts, Zenon

\* The second write, and the dispatch
LEMMA TypePersist ==
    ASSUME TypeOK, NEW m \in Messages, Persist(m)
    PROVE  TypeOK'
<1>1. Conv[m] \in Conversations
  BY OutgoingAssumption
<1>2. DataTypes' /\ FlagTypes'
  BY TypeParts, Literals DEF Persist, DataTypes, FlagTypes, sending
<1>3. LaneTypes'
  <2>1. \/ UNCHANGED <<lane, stage>>
        \/ /\ lane' = [lane EXCEPT ![Conv[m]] = Append(@, m)]
           /\ stage' = [stage EXCEPT ![m] = "queued"]
    BY Zenon DEF Persist
  <2>2. lane \in [Conversations -> Seq(Messages)] /\ stage \in [Messages -> Stages]
    BY DEF TypeOK
  <2>3. Append(lane[Conv[m]], m) \in Seq(Messages)
    BY <1>1, <2>2
  <2> QED
    BY <1>1, <2>1, <2>2, <2>3, Literals DEF LaneTypes
<1>4. JobTypes' /\ SlotTypes' /\ SendTypes' /\ HistoryTypes'
  BY TypeParts DEF Persist, JobTypes, SlotTypes, SendTypes, HistoryTypes, slots, sending, history
<1> QED
  BY <1>2, <1>3, <1>4, TypeParts, Zenon

\* The end of an upload
LEMMA TypeBlob ==
    ASSUME TypeOK, SignalInv, NEW m \in Messages, NEW b \in Blobs[m], BlobStep(m, b)
    PROVE  TypeOK'
<1>1. UNCHANGED uploadRest /\ b \in {"main", "thumbnail"}
  BY BlobForm
<1>2. uploaded' \in {uploaded, [uploaded EXCEPT ![m] = @ \cup {b}]}
  BY DEF BlobStep, BlobUploaded, BlobFailed, BlobRefused, BlobCancelled
<1>3. DataTypes'
  BY <1>1, <1>2, TypeParts DEF DataTypes, uploadRest
<1>4. JobTypes'
  <2>1. PICK x \in Results : result' = [result EXCEPT ![m][b] = x]
    BY BlobForm
  <2>2. result' \in [Messages -> [{"main", "thumbnail"} -> Results]]
    BY <1>1, <2>1 DEF TypeOK
  <2> QED
    BY <1>1, <2>2, BlobForm, TypeParts DEF JobTypes, uploadRest
<1>5. FlagTypes' /\ LaneTypes' /\ SlotTypes' /\ SendTypes' /\ HistoryTypes'
  BY <1>1, TypeParts DEF FlagTypes, LaneTypes, SlotTypes, SendTypes, HistoryTypes, uploadRest,
     slots, sending, history
<1> QED
  BY <1>3, <1>4, <1>5, TypeParts, Zenon

\* The tasks lose their head.
LEMMA TasksTail ==
    ASSUME TypeOK, tasks # <<>>
    PROVE  Tail(tasks) \in Seq(Messages) /\ Head(tasks) \in Messages
BY DEF TypeOK

\* The second write of a failure
LEMMA TypeClearFailed ==
    ASSUME TypeOK, LaneInv, MidInv, NEW m \in Messages, ClearFailed(m)
    PROVE  TypeOK'
<1>1. /\ up /\ mid = m /\ status[m] = "failed" /\ row' = row \ {m} /\ mid' = None
      /\ UNCHANGED <<createdAt, status, uploaded, left, slots, history, up, shutdown, erred,
                     orphans>>
  BY DEF ClearFailed, sending
<1>2. DataTypes' /\ FlagTypes' /\ SlotTypes' /\ HistoryTypes'
  BY <1>1, TypeParts DEF DataTypes, FlagTypes, SlotTypes, HistoryTypes, slots, history
<1>3. CASE stage[m] = "failing"
  <2>1. /\ Forget(m) /\ stage' = Ended(m) /\ UNCHANGED sending
    BY <1>3 DEF ClearFailed
  <2>2. LaneTypes'
    BY <1>3, <2>1, LaneTail, TypeParts, Literals DEF LaneTypes, Forget, Ended
  <2>3. JobTypes'
    <3>1. 0 \in 0..Budget
      BY OutgoingAssumption
    <3> QED
      BY <2>1, <3>1, TypeParts, Literals DEF JobTypes, Forget
  <2>4. SendTypes'
    BY <2>1, TypeParts DEF SendTypes, sending
  <2> QED
    BY <1>2, <2>2, <2>3, <2>4, TypeParts, Zenon
<1>4. CASE stage[m] # "failing"
  <2>1. /\ tasks' = Tail(tasks) /\ wire' = "idle" /\ confirmed' = confirmed \cup {m}
        /\ UNCHANGED <<lane, job>>
    BY <1>4 DEF ClearFailed
  <2>2. tasks # <<>>
    <3>1. mid # None
      BY <1>1, OutgoingAssumption DEF None
    <3> QED
      BY <1>1, <1>4, <3>1 DEF MidInv
  <2>3. SendTypes'
    BY <2>1, <2>2, TasksTail, TypeParts DEF SendTypes
  <2>4. LaneTypes' /\ JobTypes'
    BY <2>1, TypeParts DEF LaneTypes, JobTypes, job
  <2> QED
    BY <1>2, <2>3, <2>4, TypeParts, Zenon
<1> QED
  BY <1>3, <1>4

\* The steps of the send task
LEMMA TypeSend ==
    ASSUME TypeOK, NEW m \in Messages, SendStep(m)
    PROVE  TypeOK'
<1>1. /\ UNCHANGED sendRest
      /\ row' \in {row, row \ {m}}
      /\ status' = status \/ \E x \in Statuses : status' = [status EXCEPT ![m] = x]
      /\ mid' \in {mid, m}
  <2>1. CASE TaskRuns(m)
    BY <2>1, Literals DEF TaskRuns, Dismiss, TaskEnds, sending
  <2>2. CASE TaskWrites(m)
    BY <2>2, Literals DEF TaskWrites, Dismiss, TaskEnds, sending
  <2>3. CASE TaskAcked(m)
    <3>1. status' = [status EXCEPT ![m] = IF @ = "absent" THEN @ ELSE "sent"]
      BY <2>3, Zenon DEF TaskAcked
    <3>2. (IF status[m] = "absent" THEN "absent" ELSE "sent") \in Statuses
      BY Literals
    <3>3. status' = [status EXCEPT ![m] = IF status[m] = "absent" THEN "absent" ELSE "sent"]
      BY <3>1
    <3> QED
      BY <2>3, <3>2, <3>3 DEF TaskAcked, TaskEnds
  <2>4. CASE ClearRow(m)
    BY <2>4 DEF ClearRow
  <2> QED
    BY <2>1, <2>2, <2>3, <2>4, Zenon DEF SendStep
<1>2. DataTypes'
  BY <1>1, TypeParts DEF DataTypes, sendRest
<1>3. FlagTypes' /\ LaneTypes' /\ JobTypes' /\ SlotTypes' /\ HistoryTypes'
  BY <1>1, TypeParts DEF FlagTypes, LaneTypes, JobTypes, SlotTypes, HistoryTypes, sendRest, slots,
     job, history
<1>4. SendTypes'
  <2>1. CASE tasks' = tasks /\ wire' \in {wire, "reflected", "written"}
                 /\ confirmed' \in {confirmed, confirmed \ {m}}
    BY <2>1, TypeParts DEF SendTypes
  <2>2. CASE Sender(m) /\ tasks' = Tail(tasks) /\ wire' = "idle" /\ confirmed' = confirmed \cup {m}
    BY <2>2, TasksTail, TypeParts DEF SendTypes, Sender
  <2> QED
    BY <2>1, <2>2 DEF SendStep, TaskRuns, TaskWrites, TaskAcked, ClearRow, Dismiss, TaskEnds,
       sending
<1> QED
  BY <1>2, <1>3, <1>4, TypeParts, Zenon

\* What the user does
LEMMA TypeMeddle ==
    ASSUME TypeOK,
           \/ \E m \in Messages : Remove(m)
           \/ \E c \in Conversations : SoftClear(c) \/ Leave(c)
           \/ Stop
    PROVE  TypeOK'
<1>1. meddling' \in 0..MaxMeddling
  <2>1. meddling < MaxMeddling /\ meddling' = meddling + 1
    BY Zenon DEF Remove, SoftClear, Leave, Stop, Meddle
  <2>2. meddling \in 0..MaxMeddling /\ MaxMeddling \in Nat
    BY OutgoingAssumption DEF TypeOK
  <2> QED
    BY <2>1, <2>2
<1>2. ASSUME NEW m \in Messages, Remove(m) PROVE TypeOK'
  <2>1. JobTypes' /\ SlotTypes'
    BY <1>2, TypeAbort DEF Remove
  <2>2. DataTypes' /\ FlagTypes' /\ LaneTypes' /\ SendTypes' /\ HistoryTypes'
    BY <1>1, <1>2, TypeParts, Literals
       DEF Remove, DataTypes, FlagTypes, LaneTypes, SendTypes, HistoryTypes, sending
  <2> QED
    BY <2>1, <2>2, TypeParts, Zenon
<1>3. ASSUME NEW c \in Conversations, SoftClear(c) PROVE TypeOK'
  <2> DEFINE ofC == {m \in Messages : Conv[m] = c}
  <2>1. /\ row' = row \ ofC /\ Abort(ofC, "gone")
        /\ withdrawn' = withdrawn \cup {m \in ofC : status[m] = "unsent"}
        /\ UNCHANGED <<createdAt, status, uploaded, left, running, runningLarge, stage, result,
                       charged, sending, crashes, reconnects, up, mid, lane, shutdown, orphans>>
    BY <1>3, Zenon DEF SoftClear
  <2>2. ofC \in SUBSET Messages
    OBVIOUS
  <2> HIDE DEF ofC
  <2>3. JobTypes' /\ SlotTypes'
    BY <2>1, <2>2, TypeAbort
  <2>4. DataTypes' /\ FlagTypes' /\ LaneTypes' /\ SendTypes' /\ HistoryTypes'
    BY <1>1, <2>1, <2>2, TypeParts
       DEF DataTypes, FlagTypes, LaneTypes, SendTypes, HistoryTypes, sending
  <2> QED
    BY <2>3, <2>4, TypeParts, Zenon
<1>4. ASSUME NEW c \in Conversations, Leave(c) PROVE TypeOK'
  BY <1>1, <1>4, TypeParts
     DEF Leave, DataTypes, FlagTypes, LaneTypes, JobTypes, SlotTypes, SendTypes, HistoryTypes,
         slots, job, sending
<1>5. ASSUME Stop PROVE TypeOK'
  <2>1. JobTypes' /\ SlotTypes'
    BY <1>5, TypeAbort DEF Stop
  <2>2. DataTypes' /\ FlagTypes' /\ LaneTypes' /\ SendTypes' /\ HistoryTypes'
    BY <1>1, <1>5, TypeParts
       DEF Stop, DataTypes, FlagTypes, LaneTypes, SendTypes, HistoryTypes, durable, sending
  <2> QED
    BY <2>1, <2>2, TypeParts, Zenon
<1> QED
  BY <1>2, <1>3, <1>4, <1>5, Zenon

\* The jobs that are recovered are those of the messages that are to be sent.
LEMMA RecoveredLanes ==
    ASSUME TypeOK, Recover, NEW c \in Conversations
    PROVE  /\ lane'[c] \in Seq(Kept(c)) /\ Sorted(lane'[c]) /\ Once(lane'[c])
           /\ Kept(c) = {lane'[c][i] : i \in DOMAIN lane'[c]}
<1> DEFINE K == Kept(c)
           n == Cardinality(K)
           q == lane'[c]
<1>1. q \in [1..n -> K] /\ Sorted(q) /\ K = {q[i] : i \in DOMAIN q}
  BY DEF Recover, OldestFirst
<1>2. IsFiniteSet(K) /\ n \in Nat
  <2>1. K \in SUBSET Messages
    BY DEF Kept, TypeOK
  <2> QED
    BY <2>1, OutgoingAssumption, FS_Subset, FS_CardinalityType
<1>3. IsFiniteSet(1..n) /\ Cardinality(1..n) = n
  BY <1>2, FS_Interval
<1> HIDE DEF q, K
<1>4. q \in Surjection(1..n, K)
  BY <1>1 DEF Surjection
<1>5. q \in Injection(1..n, K)
  BY <1>3, <1>4, FS_SurjSameCardinalityImpliesInj DEF n
<1>6. Once(q)
  BY <1>1, <1>5 DEF Once, Injection, IsInjective
<1> HIDE DEF n
<1>7. q \in Seq(K)
  BY <1>1, <1>2
<1> QED
  BY <1>1, <1>6, <1>7 DEF q, K

\* Connections that break, crashes and restarts
LEMMA TypeRest ==
    ASSUME TypeOK, Reconnects \/ Crash \/ Recover
    PROVE  TypeOK'
<1>1. CASE Reconnects
  <2>1. reconnects' \in 0..MaxReconnects
    <3>1. reconnects' = reconnects \/ (reconnects < MaxReconnects /\ reconnects' = reconnects + 1)
      BY <1>1, Zenon DEF Reconnects, ConnectionBreaks, Replaced, history
    <3>2. reconnects \in 0..MaxReconnects /\ MaxReconnects \in Nat
      BY OutgoingAssumption DEF TypeOK
    <3> QED
      BY <3>1, <3>2
  <2> QED
    BY <1>1, <2>1, TypeParts
       DEF Reconnects, ConnectionBreaks, Replaced, DataTypes, FlagTypes, LaneTypes, JobTypes,
           SlotTypes, SendTypes, HistoryTypes, durable, slots, job, history
<1>2. CASE Crash
  <2>1. crashes' \in 0..MaxCrashes
    <3>1. crashes < MaxCrashes /\ crashes' = crashes + 1
      BY <1>2, Zenon DEF Crash
    <3>2. crashes \in 0..MaxCrashes /\ MaxCrashes \in Nat
      BY OutgoingAssumption DEF TypeOK
    <3> QED
      BY <3>1, <3>2
  <2>2. DataTypes' /\ FlagTypes' /\ HistoryTypes'
    BY <1>2, <2>1, TypeParts DEF Crash, DataTypes, FlagTypes, HistoryTypes, durable
  <2>3. LaneTypes' /\ JobTypes' /\ SlotTypes' /\ SendTypes'
    BY <1>2, Literals, OutgoingAssumption DEF Crash, LaneTypes, JobTypes, SlotTypes, SendTypes
  <2> QED
    BY <2>2, <2>3, TypeParts, Zenon
<1>3. CASE Recover
  <2>1. DataTypes' /\ FlagTypes' /\ JobTypes' /\ SlotTypes' /\ SendTypes' /\ HistoryTypes'
    BY <1>3, TypeParts DEF Recover, DataTypes, FlagTypes, JobTypes, SlotTypes, SendTypes,
       HistoryTypes, slots, sending, history
  <2>2. LaneTypes'
    <3>1. \A c \in Conversations : lane'[c] \in Seq(Messages)
      <4> SUFFICES ASSUME NEW c \in Conversations PROVE lane'[c] \in Seq(Messages)
        OBVIOUS
      <4>1. lane'[c] \in Seq(Kept(c)) /\ Kept(c) \subseteq Messages
        BY <1>3, RecoveredLanes DEF Kept, TypeOK
      <4> QED
        BY <4>1
    <3>2. lane' \in [Conversations -> Seq(Messages)]
      BY <1>3, <3>1 DEF Recover
    <3>3. stage' \in [Messages -> Stages]
      BY <1>3, Literals DEF Recover
    <3> QED
      BY <3>2, <3>3 DEF LaneTypes
  <2> QED
    BY <2>1, <2>2, TypeParts, Zenon
<1> QED
  BY <1>1, <1>2, <1>3

-----------------------------------------------------------------------------
\* The slots, over the other steps

\* Steps that do not touch jobs, lanes and slots
Quiet == UNCHANGED <<slots, job, up, lane, shutdown>>

\* Enrolling, the send task, a broken connection and leaving a group are quiet.
LEMMA QuietSteps ==
    ASSUME NEW m \in Messages,
           \/ Enroll(m) \/ SendStep(m) \/ Reconnects
           \/ \E c \in Conversations : Leave(c)
    PROVE  Quiet
<1>1. CASE SendStep(m)
  BY <1>1 DEF SendStep, TaskRuns, TaskWrites, TaskAcked, ClearRow, sendRest, Quiet
<1>2. CASE ~SendStep(m)
  BY <1>2 DEF Enroll, Leave, Reconnects, ConnectionBreaks, Replaced, Quiet
<1> QED
  BY <1>1, <1>2

\* The steps that abort, with what they abort
Aborts(ms, reason) ==
    /\ Abort(ms, reason) /\ Idle
    /\ UNCHANGED <<createdAt, uploaded, left, running, runningLarge, stage, result, charged,
                   sending, up, mid, lane, orphans>>

\* Removing, clearing and stopping abort.
LEMMA AbortSteps ==
    /\ \A m \in Messages : Remove(m) => Aborts({m}, "gone")
    /\ \A c \in Conversations : SoftClear(c) => Aborts({m \in Messages : Conv[m] = c}, "gone")
    /\ Stop => Aborts(Messages, "interrupted")
<1>1. ASSUME NEW m \in Messages, Remove(m) PROVE Aborts({m}, "gone")
  BY <1>1 DEF Remove, Aborts, Meddle
<1>2. ASSUME NEW c \in Conversations, SoftClear(c)
      PROVE  Aborts({m \in Messages : Conv[m] = c}, "gone")
  BY <1>2 DEF SoftClear, Aborts, Meddle
<1>3. ASSUME Stop PROVE Aborts(Messages, "interrupted")
  BY <1>3 DEF Stop, Aborts, Meddle, durable
<1> QED
  BY <1>1, <1>2, <1>3

\* No slot is taken or waited for.
LEMMA SlotsEmpty ==
    ASSUME slotWaiters' = <<>>, running' = 0, runningLarge' = 0,
           \A x \in Messages : stage'[x] \notin {"waiting", "granted", "uploading"}
    PROVE  WaiterInv' /\ SlotsConserved' /\ NoStartableWaiter'
<1>1. Holders' = {}
  BY DEF Holders
<1>2. Cardinality(Holders') = 0 /\ Cardinality(Holders' \cap Large) = 0
  <2>1. Holders' \cap Large = {}
    BY <1>1
  <2> QED
    BY <1>1, <2>1, FS_EmptySet, Zenon
<1>3. SlotsConserved'
  BY <1>2, OutgoingAssumption DEF SlotsConserved
<1> QED
  BY <1>3 DEF WaiterInv, NoStartableWaiter, Once

\* A job that has ended or is to begin: its stage is none of those with a slot.
LEMMA SlotMessage ==
    ASSUME TypeOK, MidInv, SignalInv, WaiterInv, SlotsConserved, NoStartableWaiter,
           NEW m \in Messages, MessageStep(m)
    PROVE  WaiterInv' /\ SlotsConserved' /\ NoStartableWaiter'
<1>1. CASE Enroll(m) \/ SendStep(m)
  <2>1. Quiet
    BY <1>1, QuietSteps
  <2> QED
    BY <2>1, SlotCalm DEF Quiet, job
<1>2. CASE Persist(m)
  <2>1. UNCHANGED slots /\ signal' = signal
    BY <1>2 DEF Persist
  <2>2. stage[m] = "none"
    <3>1. mid = m /\ mid # None /\ status[m] = "absent"
      BY <1>2, OutgoingAssumption DEF Persist, None
    <3> QED
      BY <3>1 DEF MidInv, Fresh
  <2>3. stage' \in {stage, [stage EXCEPT ![m] = "queued"]}
    BY <1>2 DEF Persist
  <2>4. \A x \in Messages :
            \/ stage'[x] = stage[x]
            \/ {stage[x], stage'[x]} \cap {"waiting", "granted", "uploading"} = {}
    BY <2>2, <2>3 DEF TypeOK
  <2> QED
    BY <2>1, <2>4, SlotCalm
<1>3. CASE ClearFailed(m)
  <2>1. UNCHANGED slots
    BY <1>3 DEF ClearFailed
  <2>2. \/ UNCHANGED <<stage, signal>>
        \/ /\ stage[m] = "failing" /\ stage' = [stage EXCEPT ![m] = "none"]
           /\ signal' = [signal EXCEPT ![m] = NoSignal]
    BY <1>3 DEF ClearFailed, job, Forget, Ended
  <2>3. \A x \in Messages :
            \/ stage'[x] = stage[x]
            \/ {stage[x], stage'[x]} \cap {"waiting", "granted", "uploading"} = {}
    BY <2>2 DEF TypeOK
  <2>4. \A x \in Messages : stage[x] = "waiting" => signal'[x]["wait"] = signal[x]["wait"]
    BY <2>2 DEF TypeOK
  <2> QED
    BY <2>1, <2>3, <2>4, SlotCalm
<1>4. CASE Remove(m)
  <2>1. Aborts({m}, "gone") /\ "gone" \in Signals \ {"no"}
    BY <1>4, AbortSteps, Literals
  <2> QED
    BY <2>1, SlotAbort DEF Aborts
<1>5. CASE \E s \in Stages : JobStep(m, s)
  BY <1>5, SlotJob
<1>6. CASE \E b \in Blobs[m] : BlobStep(m, b)
  <2>1. PICK b \in Blobs[m] : BlobStep(m, b)
    BY <1>6
  <2>2. UNCHANGED uploadRest
    BY <2>1, BlobForm
  <2>3. \A x \in Messages : signal'[x]["wait"] = signal[x]["wait"]
    <3>1. "wait" \in Entries
      BY Literals
    <3> QED
      BY <2>1, <3>1, BlobForm
  <2> QED
    BY <2>2, <2>3, SlotCalm DEF uploadRest
<1> QED
  BY <1>1, <1>2, <1>3, <1>4, <1>5, <1>6, Zenon DEF MessageStep

\* The slots over the steps that are not of one message
LEMMA SlotOther ==
    ASSUME TypeOK, MidInv, WaiterInv, SlotsConserved, NoStartableWaiter, OtherStep
    PROVE  WaiterInv' /\ SlotsConserved' /\ NoStartableWaiter'
<1>1. ASSUME NEW ms \in SUBSET Messages, NEW reason \in {"gone", "interrupted"}, Aborts(ms, reason)
      PROVE  WaiterInv' /\ SlotsConserved' /\ NoStartableWaiter'
  <2>1. reason \in Signals \ {"no"}
    BY Literals
  <2> QED
    BY <1>1, <2>1, SlotAbort DEF Aborts
<1>2. CASE \E c \in Conversations : SoftClear(c)
  <2>1. PICK c \in Conversations : SoftClear(c)
    BY <1>2
  <2>2. {m \in Messages : Conv[m] = c} \in SUBSET Messages
    OBVIOUS
  <2> QED
    BY <1>1, <2>1, <2>2, AbortSteps
<1>3. CASE (\E c \in Conversations : Leave(c)) \/ Reconnects
  <2>1. Quiet
    BY <1>3 DEF Leave, Reconnects, ConnectionBreaks, Replaced, Quiet
  <2> QED
    BY <2>1, SlotCalm DEF Quiet, job
<1>4. CASE Stop
  BY <1>1, <1>4, AbortSteps
<1>5. CASE Crash
  BY <1>5, SlotsEmpty DEF Crash
<1>6. CASE Recover
  <2>1. \A x \in Messages : stage'[x] \in {"queued", "none"}
    BY <1>6 DEF Recover
  <2> QED
    BY <1>6, <2>1, SlotsEmpty DEF Recover, MidInv, slots
<1> QED
  BY <1>2, <1>3, <1>4, <1>5, <1>6, Zenon DEF OtherStep

-----------------------------------------------------------------------------
\* Lanes

\* A sequence without its head, and one with another element
LEMMA TailElements ==
    ASSUME NEW T, NEW q \in Seq(T), q # <<>>
    PROVE  /\ Tail(q) \in Seq(T)
           /\ \A j \in DOMAIN Tail(q) : j \in Nat /\ j + 1 \in DOMAIN q /\ Tail(q)[j] = q[j + 1]
           /\ \A i \in DOMAIN q : q[i] # Head(q)
                  => \E j \in DOMAIN Tail(q) : i = j + 1 /\ Tail(q)[j] = q[i]
           /\ Once(q) => Once(Tail(q)) /\ \A j \in DOMAIN Tail(q) : Tail(q)[j] # Head(q)
<1> DEFINE r == Tail(q)
           n == Len(q)
<1>1. n \in Nat /\ 1 \in 1..n /\ DOMAIN q = 1..n /\ Head(q) = q[1]
  OBVIOUS
<1>2. r \in Seq(T) /\ DOMAIN r = 1..(n - 1) /\ \A j \in 1..(n - 1) : r[j] = q[j + 1]
  BY <1>1
<1> HIDE DEF r, n
<1>3. \A j \in DOMAIN r : j \in Nat /\ j + 1 \in DOMAIN q /\ r[j] = q[j + 1] /\ j + 1 # 1
  BY <1>1, <1>2
<1>4. \A i \in DOMAIN q : q[i] # Head(q) => \E j \in DOMAIN r : i = j + 1 /\ r[j] = q[i]
  <2> SUFFICES ASSUME NEW i \in 1..n, q[i] # q[1]
               PROVE  \E j \in 1..(n - 1) : i = j + 1 /\ r[j] = q[i]
    BY <1>1, <1>2
  <2>1. i - 1 \in 1..(n - 1) /\ i = i - 1 + 1
    BY <1>1
  <2>2. r[i - 1] = q[i]
    BY <1>2, <2>1
  <2> QED
    BY <2>1, <2>2
<1>5. Once(q) => Once(r) /\ \A j \in DOMAIN r : r[j] # Head(q)
  <2> SUFFICES ASSUME Once(q) PROVE Once(r) /\ \A j \in DOMAIN r : r[j] # Head(q)
    OBVIOUS
  <2>1. \A j \in DOMAIN r : r[j] # Head(q)
    BY <1>1, <1>3 DEF Once
  <2>2. \A j, k \in DOMAIN r : r[j] = r[k] => j + 1 = k + 1
    BY <1>3 DEF Once
  <2>3. Once(r)
    BY <1>3, <2>2 DEF Once
  <2> QED
    BY <2>1, <2>3
<1> QED
  BY <1>2, <1>3, <1>4, <1>5 DEF r

\* The elements of a sequence with one more at its end
LEMMA AppendElements ==
    ASSUME NEW T, NEW q \in Seq(T), NEW x \in T
    PROVE  /\ Append(q, x) \in Seq(T) /\ DOMAIN q \subseteq DOMAIN Append(q, x)
           /\ \A i \in DOMAIN q : Append(q, x)[i] = q[i] /\ i < Len(q) + 1
           /\ \A j \in DOMAIN Append(q, x) :
                  j \in DOMAIN q \/ (j = Len(q) + 1 /\ Append(q, x)[j] = x)
           /\ Len(q) + 1 \in DOMAIN Append(q, x) /\ Append(q, x)[Len(q) + 1] = x
           /\ (Once(q) /\ \A i \in DOMAIN q : q[i] # x) => Once(Append(q, x))
           /\ q # <<>> => Head(Append(q, x)) = Head(q)
<1> DEFINE r == Append(q, x)
           n == Len(q)
<1>1. /\ n \in Nat /\ DOMAIN q = 1..n /\ r \in Seq(T) /\ DOMAIN r = 1..(n + 1)
      /\ \A i \in 1..n : r[i] = q[i]
      /\ r[n + 1] = x
      /\ q # <<>> => Head(r) = Head(q)
  OBVIOUS
<1> HIDE DEF r, n
<1>2. \A j \in DOMAIN r : j \in DOMAIN q \/ j = n + 1
  BY <1>1
<1>3. (Once(q) /\ \A i \in DOMAIN q : q[i] # x) => Once(r)
  BY <1>1, <1>2 DEF Once
<1>4. DOMAIN q \subseteq DOMAIN r /\ n + 1 \in DOMAIN r /\ \A i \in DOMAIN q : i < n + 1
  BY <1>1
<1> QED
  BY <1>1, <1>2, <1>3, <1>4 DEF r, n

\* A job leaves its lane when it ends, and only then.
LEMMA OutcomeLane ==
    ASSUME NEW m \in Messages, NEW s, Outcome(m, s)
    PROVE  \/ s = "none" /\ lane' = [lane EXCEPT ![Conv[m]] = Tail(@)]
           \/ s \notin {"none", "queued"} /\ lane' = lane
BY DEF Outcome, Ends, Hands, Fails, Stays, Schedule, Forget

\* The first job of a lane leaves it.
LEMMA LaneLeft ==
    ASSUME TypeOK, LaneInv, NEW m \in Messages, stage[m] # "none", Head(lane[Conv[m]]) = m,
           lane' = [lane EXCEPT ![Conv[m]] = Tail(@)],
           stage'[m] = "none", \A x \in Messages \ {m} :
               stage'[x] = stage[x] \/ (stage[x] \in Working /\ stage'[x] \in Working)
    PROVE  LaneInv'
<1> DEFINE k == Conv[m]
           q == lane[k]
           r == Tail(q)
<1>1. k \in Conversations /\ q \in Seq(Messages) /\ q # <<>> /\ Head(q) = m /\ Once(q)
  BY LaneTail DEF LaneInv
<1>2. lane'[k] = r /\ \A c \in Conversations \ {k} : lane'[c] = lane[c]
  BY <1>1 DEF TypeOK
<1> HIDE DEF k, q, r
<1>3. /\ Once(r)
      /\ \A j \in DOMAIN r : r[j] # m /\ \E i \in DOMAIN q : r[j] = q[i]
      /\ \A i \in DOMAIN q : q[i] # m => \E j \in DOMAIN r : r[j] = q[i]
  <2>1. r \in Seq(Messages) /\ Once(r) /\ \A j \in DOMAIN r : r[j] # m
    BY <1>1, TailElements DEF r
  <2>2. \A j \in DOMAIN r : \E i \in DOMAIN q : r[j] = q[i]
    BY <1>1, TailElements DEF r
  <2>3. \A i \in DOMAIN q : q[i] # m => \E j \in DOMAIN r : r[j] = q[i]
    BY <1>1, TailElements DEF r
  <2> QED
    BY <2>1, <2>2, <2>3
<1>4. \A x \in Messages : x # m => /\ stage'[x] # "none" <=> stage[x] # "none"
                                   /\ stage'[x] \in Working => stage[x] \in Working
  BY DEF Working
<1>5. \A c \in Conversations :
          /\ Once(lane[c])
          /\ \A i \in DOMAIN lane[c] : /\ lane[c][i] \in Messages /\ Conv[lane[c][i]] = c
                                       /\ stage[lane[c][i]] # "none"
  BY DEF LaneInv, TypeOK
<1>6. \A c \in Conversations : Once(lane'[c])
  BY <1>2, <1>3, <1>5
<1>7. \A c \in Conversations : \A i \in DOMAIN lane'[c] :
          Conv[lane'[c][i]] = c /\ stage'[lane'[c][i]] # "none"
  <2> SUFFICES ASSUME NEW c \in Conversations, NEW i \in DOMAIN lane'[c]
               PROVE  Conv[lane'[c][i]] = c /\ stage'[lane'[c][i]] # "none"
    OBVIOUS
  <2>1. CASE c = k
    <3>1. lane'[c] = r /\ i \in DOMAIN r
      BY <1>2, <2>1
    <3>2. PICK j \in DOMAIN q : r[i] = q[j]
      BY <1>3, <3>1
    <3>3. q[j] \in Messages /\ Conv[q[j]] = k /\ stage[q[j]] # "none" /\ q[j] # m
      BY <1>1, <1>3, <1>5, <3>1, <3>2 DEF q
    <3> QED
      BY <1>4, <2>1, <3>1, <3>2, <3>3
  <2>2. CASE c # k
    <3>1. lane'[c] = lane[c] /\ i \in DOMAIN lane[c]
      BY <1>2, <2>2
    <3> DEFINE x == lane[c][i]
    <3>2. x \in Messages /\ Conv[x] = c /\ stage[x] # "none"
      BY <1>5, <3>1
    <3> HIDE DEF x
    <3>3. x # m
      BY <2>2, <3>2 DEF k
    <3>4. stage'[x] # "none"
      BY <1>4, <3>2, <3>3
    <3> QED
      BY <3>1, <3>2, <3>4 DEF x
  <2> QED
    BY <2>1, <2>2
<1>8. \A x \in Messages : stage'[x] # "none"
          => \E i \in DOMAIN lane'[Conv[x]] : lane'[Conv[x]][i] = x
  <2> SUFFICES ASSUME NEW x \in Messages, stage'[x] # "none"
               PROVE  \E i \in DOMAIN lane'[Conv[x]] : lane'[Conv[x]][i] = x
    OBVIOUS
  <2>1. x # m /\ Conv[x] \in Conversations
    BY OutgoingAssumption
  <2>2. PICK i \in DOMAIN lane[Conv[x]] : lane[Conv[x]][i] = x
    BY <1>4, <2>1 DEF LaneInv, OwnedByLane
  <2>3. CASE Conv[x] = k
    <3>1. i \in DOMAIN q /\ q[i] = x
      BY <2>2, <2>3 DEF q
    <3>2. PICK j \in DOMAIN r : r[j] = x
      BY <1>3, <2>1, <3>1
    <3>3. lane'[Conv[x]] = r
      BY <1>2, <2>3
    <3> QED
      BY <3>2, <3>3
  <2>4. CASE Conv[x] # k
    BY <1>2, <2>1, <2>2, <2>4
  <2> QED
    BY <2>3, <2>4
<1>9. \A x \in Messages : stage'[x] \in Working => Head(lane'[Conv[x]]) = x
  <2> SUFFICES ASSUME NEW x \in Messages, stage'[x] \in Working PROVE Head(lane'[Conv[x]]) = x
    OBVIOUS
  <2>1. x # m /\ Conv[x] \in Conversations
    BY OutgoingAssumption DEF Working
  <2>2. Head(lane[Conv[x]]) = x
    BY <1>4, <2>1 DEF LaneInv
  <2>3. Conv[x] # k
    BY <1>1, <2>1, <2>2 DEF q
  <2> QED
    BY <1>2, <2>1, <2>2, <2>3
<1> QED
  BY <1>6, <1>7, <1>8, <1>9 DEF LaneInv, OwnedByLane, Once

\* The lanes stay, and nobody starts to work but the first of a lane.
LEMMA LaneStays ==
    ASSUME TypeOK, LaneInv, lane' = lane,
           \A x \in Messages :
               /\ stage'[x] = "none" <=> stage[x] = "none"
               /\ stage'[x] \in Working => stage[x] \in Working \/ Head(lane[Conv[x]]) = x
    PROVE  LaneInv'
<1>1. \A c \in Conversations : \A i \in DOMAIN lane[c] : lane[c][i] \in Messages
  BY DEF TypeOK
<1>2. \A c \in Conversations : Once(lane'[c])
  BY DEF LaneInv
<1>3. \A c \in Conversations : \A i \in DOMAIN lane'[c] :
          Conv[lane'[c][i]] = c /\ stage'[lane'[c][i]] # "none"
  BY <1>1 DEF LaneInv
<1>4. \A x \in Messages : stage'[x] # "none" => OwnedByLane(x)'
  BY DEF LaneInv, OwnedByLane
<1>5. \A x \in Messages : stage'[x] \in Working => Head(lane'[Conv[x]]) = x
  BY DEF LaneInv
<1> QED
  BY <1>2, <1>3, <1>4, <1>5 DEF LaneInv, Once

\* Job steps keep the lanes, as the job that ends is the first of its lane.
LEMMA LaneJob ==
    ASSUME TypeOK, LaneInv, WaiterInv, NEW m \in Messages, NEW s \in Stages, JobStep(m, s)
    PROVE  LaneInv'
<1>1. Outcome(m, s) /\ stage[m] # "none" /\ Head(lane[Conv[m]]) = m
  BY DEF JobStep
<1>2. {"waiting", "granted"} \subseteq Working
  BY DEF Working, Stages
<1>3. /\ stage'[m] = s
      /\ \A x \in Messages \ {m} :
            stage'[x] = stage[x] \/ (stage[x] \in Working /\ stage'[x] \in Working)
  BY <1>2, JobStage
<1>4. CASE s = "none" /\ lane' = [lane EXCEPT ![Conv[m]] = Tail(@)]
  BY <1>1, <1>3, <1>4, LaneLeft
<1>5. CASE s \notin {"none", "queued"} /\ lane' = lane
  <2>1. \A x \in Messages : /\ stage'[x] = "none" <=> stage[x] = "none"
                            /\ stage'[x] \in Working
                                   => stage[x] \in Working \/ Head(lane[Conv[x]]) = x
    BY <1>1, <1>3, <1>5 DEF Working
  <2> QED
    BY <1>5, <2>1, LaneStays
<1> QED
  BY <1>1, <1>4, <1>5, OutcomeLane

\* A message is put at the end of its lane.
LEMMA LaneEntered ==
    ASSUME TypeOK, LaneInv, NEW m \in Messages, stage[m] = "none",
           lane' = [lane EXCEPT ![Conv[m]] = Append(@, m)],
           stage' = [stage EXCEPT ![m] = "queued"]
    PROVE  LaneInv'
<1> DEFINE k == Conv[m]
           q == lane[k]
           r == Append(q, m)
<1>1. k \in Conversations /\ q \in Seq(Messages) /\ Once(q)
  BY OutgoingAssumption DEF LaneInv, TypeOK
<1>2. lane'[k] = r /\ \A c \in Conversations \ {k} : lane'[c] = lane[c]
  BY <1>1 DEF TypeOK
<1>3. stage'[m] = "queued" /\ \A x \in Messages \ {m} : stage'[x] = stage[x]
  BY DEF TypeOK
<1>4. \A c \in Conversations : \A i \in DOMAIN lane[c] :
          lane[c][i] \in Messages \ {m} /\ Conv[lane[c][i]] = c /\ stage[lane[c][i]] # "none"
  BY DEF LaneInv, TypeOK
<1>5. \A i \in DOMAIN q : q[i] \in Messages \ {m} /\ Conv[q[i]] = k /\ stage[q[i]] # "none"
  BY <1>1, <1>4
<1> HIDE DEF k, q, r
<1>6. Once(r)
  BY <1>1, <1>5, AppendElements DEF r
<1>7. \A i \in DOMAIN r : r[i] = m \/ \E j \in DOMAIN q : r[i] = q[j]
  BY <1>1, AppendElements DEF r
<1>8. (\E i \in DOMAIN r : r[i] = m) /\ \A j \in DOMAIN q : \E i \in DOMAIN r : r[i] = q[j]
  BY <1>1, AppendElements DEF r
<1>9. q # <<>> => Head(r) = Head(q)
  BY <1>1, AppendElements DEF r
<1>10. \A c \in Conversations : Once(lane'[c])
  BY <1>2, <1>6 DEF LaneInv
<1>11. \A c \in Conversations : \A i \in DOMAIN lane'[c] :
           Conv[lane'[c][i]] = c /\ stage'[lane'[c][i]] # "none"
  <2> SUFFICES ASSUME NEW c \in Conversations, NEW i \in DOMAIN lane'[c]
               PROVE  Conv[lane'[c][i]] = c /\ stage'[lane'[c][i]] # "none"
    OBVIOUS
  <2>1. CASE c = k
    <3>1. lane'[c] = r /\ i \in DOMAIN r
      BY <1>2, <2>1
    <3>2. CASE r[i] = m
      BY <1>3, <2>1, <3>1, <3>2 DEF k
    <3>3. CASE \E j \in DOMAIN q : r[i] = q[j]
      BY <1>3, <1>5, <2>1, <3>1, <3>3
    <3> QED
      BY <1>7, <3>1, <3>2, <3>3
  <2>2. CASE c # k
    <3>1. lane'[c] = lane[c] /\ i \in DOMAIN lane[c]
      BY <1>2, <2>2
    <3> QED
      BY <1>3, <1>4, <3>1
  <2> QED
    BY <2>1, <2>2
<1>12. \A x \in Messages : stage'[x] # "none"
           => \E i \in DOMAIN lane'[Conv[x]] : lane'[Conv[x]][i] = x
  <2> SUFFICES ASSUME NEW x \in Messages, stage'[x] # "none"
               PROVE  \E i \in DOMAIN lane'[Conv[x]] : lane'[Conv[x]][i] = x
    OBVIOUS
  <2>1. CASE x = m
    <3>1. lane'[Conv[x]] = r
      BY <1>2, <2>1 DEF k
    <3> QED
      BY <1>8, <2>1, <3>1
  <2>2. CASE x # m
    <3>1. Conv[x] \in Conversations /\ \E i \in DOMAIN lane[Conv[x]] : lane[Conv[x]][i] = x
      BY <1>3, <2>2, OutgoingAssumption DEF LaneInv, OwnedByLane
    <3>2. CASE Conv[x] = k
      <4>1. lane'[Conv[x]] = r
        BY <1>2, <3>2
      <4>2. PICK j \in DOMAIN q : q[j] = x
        BY <3>1, <3>2 DEF q
      <4>3. \E i \in DOMAIN r : r[i] = x
        BY <1>8, <4>2
      <4> QED
        BY <4>1, <4>3
    <3>3. CASE Conv[x] # k
      <4>1. lane'[Conv[x]] = lane[Conv[x]]
        BY <1>2, <3>1, <3>3
      <4> QED
        BY <3>1, <4>1
    <3> QED
      BY <3>2, <3>3
  <2> QED
    BY <2>1, <2>2
<1>13. \A x \in Messages : stage'[x] \in Working => Head(lane'[Conv[x]]) = x
  <2> SUFFICES ASSUME NEW x \in Messages, stage'[x] \in Working PROVE Head(lane'[Conv[x]]) = x
    OBVIOUS
  <2>1. x # m /\ stage[x] \in Working
    BY <1>3 DEF Working
  <2>2. /\ Conv[x] \in Conversations /\ Head(lane[Conv[x]]) = x
        /\ \E i \in DOMAIN lane[Conv[x]] : lane[Conv[x]][i] = x
    BY <2>1, OutgoingAssumption DEF LaneInv, Working, OwnedByLane
  <2>3. CASE Conv[x] = k
    <3>1. lane'[Conv[x]] = r /\ q # <<>> /\ Head(q) = x
      BY <1>2, <2>2, <2>3 DEF q
    <3> QED
      BY <1>9, <3>1
  <2>4. CASE Conv[x] # k
    BY <1>2, <2>2, <2>4
  <2> QED
    BY <2>3, <2>4
<1> QED
  BY <1>10, <1>11, <1>12, <1>13 DEF LaneInv, OwnedByLane, Once

\* A message whose two writes are under way
LEMMA MidNotNone ==
    ASSUME NEW m \in Messages, mid = m
    PROVE  mid # None
BY OutgoingAssumption DEF None

\* The lanes over the steps of a message
LEMMA LaneMessage ==
    ASSUME TypeOK, LaneInv, MidInv, WaiterInv, SignalInv, NEW m \in Messages, MessageStep(m)
    PROVE  LaneInv'
<1>1. CASE Enroll(m) \/ SendStep(m)
  <2>1. Quiet
    BY <1>1, QuietSteps
  <2> QED
    BY <2>1, LaneStays DEF Quiet, job
<1>2. CASE Persist(m)
  <2>1. stage[m] = "none"
    BY <1>2, MidNotNone DEF Persist, MidInv, Fresh
  <2>2. \/ UNCHANGED <<lane, stage>>
        \/ /\ lane' = [lane EXCEPT ![Conv[m]] = Append(@, m)]
           /\ stage' = [stage EXCEPT ![m] = "queued"]
    BY <1>2, Zenon DEF Persist
  <2>3. UNCHANGED <<lane, stage>> => LaneInv'
    BY LaneStays
  <2> QED
    BY <2>1, <2>2, <2>3, LaneEntered, Zenon
<1>3. CASE ClearFailed(m)
  <2>1. CASE stage[m] = "failing"
    <3>1. lane' = [lane EXCEPT ![Conv[m]] = Tail(@)] /\ stage' = [stage EXCEPT ![m] = "none"]
      BY <1>3, <2>1, Zenon DEF ClearFailed, Forget, Ended
    <3>2. Head(lane[Conv[m]]) = m
      BY <2>1 DEF LaneInv, Working, Stages
    <3>3. stage'[m] = "none" /\ \A x \in Messages \ {m} : stage'[x] = stage[x]
      BY <3>1 DEF TypeOK
    <3> QED
      BY <2>1, <3>1, <3>2, <3>3, LaneLeft
  <2>2. CASE stage[m] # "failing"
    <3>1. UNCHANGED <<lane, stage>>
      BY <1>3, <2>2 DEF ClearFailed, job
    <3> QED
      BY <3>1, LaneStays
  <2> QED
    BY <2>1, <2>2
<1>4. CASE Remove(m)
  BY <1>4, LaneStays DEF Remove
<1>5. CASE \E s \in Stages : JobStep(m, s)
  BY <1>5, LaneJob
<1>6. CASE \E b \in Blobs[m] : BlobStep(m, b)
  <2>1. UNCHANGED uploadRest
    BY <1>6, BlobForm
  <2> QED
    BY <2>1, LaneStays DEF uploadRest
<1> QED
  BY <1>1, <1>2, <1>3, <1>4, <1>5, <1>6, Zenon DEF MessageStep

\* The lanes over the other steps
LEMMA LaneOther ==
    ASSUME TypeOK, LaneInv, OtherStep
    PROVE  LaneInv'
<1>1. CASE (\E c \in Conversations : SoftClear(c) \/ Leave(c)) \/ Reconnects \/ Stop
  <2>1. UNCHANGED <<lane, stage>>
    BY <1>1 DEF SoftClear, Leave, Reconnects, ConnectionBreaks, Replaced, Stop, job
  <2> QED
    BY <2>1, LaneStays
<1>2. CASE Crash
  <2>1. /\ \A c \in Conversations : lane'[c] = <<>>
        /\ \A x \in Messages : stage'[x] = "none"
    BY <1>2 DEF Crash
  <2> QED
    BY <2>1 DEF LaneInv, Working, Once
<1>3. CASE Recover
  <2>1. \A c \in Conversations : /\ Once(lane'[c])
                                 /\ Kept(c) = {lane'[c][i] : i \in DOMAIN lane'[c]}
    BY <1>3, RecoveredLanes
  <2>2. \A x \in Messages : stage'[x] = IF x \in row /\ Live(x) THEN "queued" ELSE "none"
    BY <1>3 DEF Recover
  <2>3. \A c \in Conversations : \A i \in DOMAIN lane'[c] :
            Conv[lane'[c][i]] = c /\ stage'[lane'[c][i]] # "none"
    <3>1. \A c \in Conversations : \A i \in DOMAIN lane'[c] : lane'[c][i] \in Kept(c)
      BY <2>1
    <3>2. \A c \in Conversations : \A x \in Kept(c) : Conv[x] = c /\ stage'[x] # "none"
      BY <2>2 DEF Kept, TypeOK
    <3> QED
      BY <3>1, <3>2
  <2>4. \A x \in Messages : stage'[x] # "none" => OwnedByLane(x)'
    <3> SUFFICES ASSUME NEW x \in Messages, stage'[x] # "none"
                 PROVE  \E i \in DOMAIN lane'[Conv[x]] : lane'[Conv[x]][i] = x
      BY DEF OwnedByLane
    <3>1. x \in Kept(Conv[x]) /\ Conv[x] \in Conversations
      BY <2>2, OutgoingAssumption DEF Kept
    <3> QED
      BY <2>1, <3>1
  <2>5. \A x \in Messages : stage'[x] \notin Working
    BY <2>2 DEF Working
  <2> QED
    BY <2>1, <2>3, <2>4, <2>5 DEF LaneInv, Once
<1> QED
  BY <1>1, <1>2, <1>3, Zenon DEF OtherStep

-----------------------------------------------------------------------------
\* Messages, tasks and what becomes of them

\* Nothing but the two writes of composing makes a message one that is to be sent.
OnlyLess ==
    /\ row' \subseteq row
    /\ \A x \in Messages : /\ status'[x] = "unsent" => status[x] = "unsent"
                           /\ status'[x] = "new" <=> status[x] = "new"

\* The job changes the row and the status of its own message only.
LEMMA JobData ==
    ASSUME TypeOK, NEW m \in Messages, NEW s, Outcome(m, s)
    PROVE  OnlyLess /\ row \ row' \subseteq {m} /\ \A x \in Messages \ {m} : status'[x] = status[x]
<1>1. CASE Ends(m, s)
  BY <1>1 DEF Ends, OnlyLess
<1>2. CASE Hands(m, s)
  BY <1>2 DEF Hands, Schedule, OnlyLess
<1>3. CASE Fails(m, s)
  <2>1. row' = row /\ status[m] = "unsent" /\ status' = [status EXCEPT ![m] = "failed"]
    BY <1>3 DEF Fails, Live
  <2> QED
    BY <2>1 DEF OnlyLess, TypeOK
<1>4. CASE Stays(m, s)
  BY <1>4 DEF Stays, OnlyLess
<1> QED
  BY <1>1, <1>2, <1>3, <1>4 DEF Outcome

\* A send task is of a message that was composed.
LEMMA SenderPlace ==
    ASSUME TypeOK, NewInv, NEW m \in Messages, Sender(m)
    PROVE  tasks # <<>> /\ Head(tasks) = m /\ OwnedByTask(m) /\ status[m] # "new"
<1>1. tasks # <<>> /\ Head(tasks) = m
  BY DEF Sender
<1>2. 1 \in DOMAIN tasks /\ tasks[1] = m
  BY <1>1 DEF TypeOK
<1>3. OwnedByTask(m)
  BY <1>2, Zenon DEF OwnedByTask
<1> QED
  BY <1>1, <1>3 DEF NewInv, Fresh

\* What a step of the send task does: the task goes on, its message fails, the
\* task resolves, or the row of one that resolved is cleared.
GoesOn(m) ==
    /\ Sender(m) /\ wire' \in {"reflected", "written"}
    /\ UNCHANGED <<tasks, confirmed, row, status, mid>>
    /\ wire' = "reflected" \/ (wire = "reflected" /\ Live(m))
Dismisses(m) ==
    /\ Sender(m) /\ Live(m) /\ status' = [status EXCEPT ![m] = "failed"] /\ mid' = m
    /\ UNCHANGED <<row, sending>>
Resolves(m) ==
    /\ Sender(m) /\ ~Live(m)' /\ UNCHANGED <<row, mid>>
    /\ tasks' = Tail(tasks) /\ wire' = "idle" /\ confirmed' = confirmed \cup {m}
    /\ \/ status' = status
       \/ wire = "written" /\ \E t \in {"absent", "sent"} : status' = [status EXCEPT ![m] = t]
Clears(m) ==
    /\ Idle /\ m \in confirmed /\ row' = row \ {m} /\ confirmed' = confirmed \ {m}
    /\ UNCHANGED <<status, mid, tasks, wire>>

\* Every step of the send task is one of these.
LEMMA SendForm ==
    ASSUME TypeOK, NEW m \in Messages, SendStep(m)
    PROVE  UNCHANGED sendRest /\ (GoesOn(m) \/ Dismisses(m) \/ Resolves(m) \/ Clears(m))
<1>1. UNCHANGED sendRest
  BY Zenon DEF SendStep, TaskRuns, TaskWrites, TaskAcked, ClearRow
<1>2. ASSUME Sender(m), Dismiss(m) PROVE Dismisses(m) \/ Resolves(m)
  <2>1. CASE Live(m)
    BY <1>2, <2>1 DEF Dismiss, Dismisses
  <2>2. CASE ~Live(m)
    BY <1>2, <2>2 DEF Dismiss, TaskEnds, Live, Resolves
  <2> QED
    BY <2>1, <2>2
<1>3. ASSUME TaskRuns(m) PROVE GoesOn(m) \/ Dismisses(m) \/ Resolves(m)
  <2>1. CASE MayWrite(m) /\ Pending(m) = {}
    BY <1>3, <2>1 DEF TaskRuns, GoesOn
  <2>2. CASE ~(MayWrite(m) /\ Pending(m) = {})
    <3>1. Sender(m) /\ Dismiss(m)
      BY <1>3, <2>2, Zenon DEF TaskRuns
    <3> QED
      BY <1>2, <3>1
  <2> QED
    BY <2>1, <2>2
<1>4. ASSUME TaskWrites(m) PROVE GoesOn(m) \/ Dismisses(m) \/ Resolves(m)
  <2>1. CASE MayWrite(m)
    BY <1>4, <2>1 DEF TaskWrites, MayWrite, GoesOn
  <2>2. CASE ~MayWrite(m)
    <3>1. Sender(m) /\ Dismiss(m)
      BY <1>4, <2>2, Zenon DEF TaskWrites
    <3> QED
      BY <1>2, <3>1
  <2> QED
    BY <2>1, <2>2
<1>5. ASSUME TaskAcked(m) PROVE Resolves(m)
  <2>1. /\ Sender(m) /\ TaskEnds(m) /\ wire = "written"
        /\ status' = [status EXCEPT ![m] = IF @ = "absent" THEN @ ELSE "sent"]
    BY <1>5, Zenon DEF TaskAcked
  <2> DEFINE t == IF status[m] = "absent" THEN "absent" ELSE "sent"
  <2>2. status' = [status EXCEPT ![m] = t] /\ t \in {"absent", "sent"}
    BY <2>1
  <2> HIDE DEF t
  <2>3. ~Live(m)'
    BY <2>2 DEF TypeOK, Live
  <2> QED
    BY <2>1, <2>2, <2>3 DEF TaskEnds, Resolves
<1>6. ASSUME ClearRow(m) PROVE Clears(m)
  BY <1>6 DEF ClearRow, Clears
<1> QED
  BY <1>1, <1>3, <1>4, <1>5, <1>6 DEF SendStep

\* Nothing but the two writes of composing adds a row, or makes a message one that is
\* to be sent; and only the first row is that of a new message.
LEMMA DataMessage ==
    ASSUME TypeOK, NewInv, NEW m \in Messages, MessageStep(m), ~Enroll(m), ~Persist(m)
    PROVE  OnlyLess /\ row \ row' \subseteq {m} /\ \A x \in Messages \ {m} : status'[x] = status[x]
<1>1. CASE ClearFailed(m)
  <2>1. row' = row \ {m} /\ status' = status
    BY <1>1, Zenon DEF ClearFailed
  <2> QED
    BY <2>1 DEF OnlyLess
<1>2. CASE SendStep(m)
  <2>1. CASE GoesOn(m) \/ Clears(m)
    BY <2>1 DEF GoesOn, Clears, OnlyLess
  <2>2. CASE Dismisses(m)
    BY <2>2 DEF Dismisses, OnlyLess, Live, TypeOK
  <2>3. CASE Resolves(m)
    <3>1. status[m] # "new" /\ row' = row
      BY <2>3, SenderPlace DEF Resolves
    <3>2. CASE status' = status
      BY <3>1, <3>2 DEF OnlyLess
    <3>3. CASE \E t \in {"absent", "sent"} : status' = [status EXCEPT ![m] = t]
      BY <3>1, <3>3 DEF OnlyLess, TypeOK
    <3> QED
      BY <2>3, <3>2, <3>3 DEF Resolves
  <2> QED
    BY <1>2, <2>1, <2>2, <2>3, SendForm
<1>3. CASE Remove(m)
  <2>1. /\ row' = row \ {m} /\ status' = [status EXCEPT ![m] = "absent"]
        /\ status[m] \in {"unsent", "sent", "failed"}
    BY <1>3, Zenon DEF Remove
  <2> QED
    BY <2>1 DEF OnlyLess, TypeOK
<1>4. CASE \E s \in Stages : JobStep(m, s)
  BY <1>4, JobData DEF JobStep
<1>5. CASE \E b \in Blobs[m] : BlobStep(m, b)
  <2>1. UNCHANGED uploadRest
    BY <1>5, Zenon DEF BlobStep, BlobUploaded, BlobFailed, BlobRefused, BlobCancelled
  <2> QED
    BY <2>1 DEF uploadRest, OnlyLess
<1> QED
  BY <1>1, <1>2, <1>3, <1>4, <1>5, Zenon DEF MessageStep

\* Nor do the other steps.
LEMMA DataOther ==
    ASSUME TypeOK, OtherStep
    PROVE  row' \subseteq row /\ status' = status /\ OnlyLess
<1>1. status' = status
  BY DEF OtherStep, SoftClear, Leave, Reconnects, ConnectionBreaks, Replaced, Stop, Crash,
     Recover, durable
<1>2. row' \subseteq row
  BY DEF OtherStep, SoftClear, Leave, Reconnects, ConnectionBreaks, Replaced, Stop, Crash,
     Recover, durable
<1> QED
  BY <1>1, <1>2 DEF OnlyLess

-----------------------------------------------------------------------------
\* The send tasks

\* The tasks stay as they are, or the first one resolves.
LEMMA TaskStays ==
    ASSUME TypeOK, TaskInv, tasks' = tasks, wire' # "idle" => tasks # <<>>,
           confirmed' \subseteq confirmed, \A x \in confirmed : ~Live(x)',
           \A x \in Messages : OwnedByTask(x) => stage'[x] = "none"
    PROVE  TaskInv'
<1>1. \A i \in DOMAIN tasks : tasks[i] \in Messages /\ OwnedByTask(tasks[i])
  BY DEF TypeOK, OwnedByTask
<1> QED
  BY <1>1 DEF TaskInv, Once

\* The first task ends.
LEMMA TaskLeft ==
    ASSUME TypeOK, TaskInv, NEW m \in Messages, tasks # <<>>, Head(tasks) = m, tasks' = Tail(tasks),
           wire' = "idle", confirmed' = confirmed \cup {m}, \A x \in confirmed \cup {m} : ~Live(x)',
           UNCHANGED stage
    PROVE  TaskInv'
<1>1. tasks \in Seq(Messages) /\ Once(tasks)
  BY DEF TypeOK, TaskInv
<1>2. Once(tasks')
  BY <1>1, TailElements
<1>3. \A j \in DOMAIN tasks' : \E i \in DOMAIN tasks : tasks'[j] = tasks[i]
  BY <1>1, TailElements
<1>4. \A j \in DOMAIN tasks' : stage'[tasks'[j]] = "none"
  BY <1>3 DEF TaskInv
<1> QED
  BY <1>2, <1>4 DEF TaskInv, Once

\* A further task is scheduled, of a message that has none.
LEMMA TaskEntered ==
    ASSUME TypeOK, TaskInv, NEW m \in Messages, tasks' = Append(tasks, m), ~OwnedByTask(m),
           UNCHANGED <<wire, confirmed>>, \A x \in confirmed : ~Live(x)',
           stage'[m] = "none", \A x \in Messages : OwnedByTask(x) => stage'[x] = "none"
    PROVE  TaskInv'
<1>1. tasks \in Seq(Messages) /\ Once(tasks) /\ \A i \in DOMAIN tasks : tasks[i] \in Messages
  BY DEF TypeOK, TaskInv
<1>2. \A i \in DOMAIN tasks : tasks[i] # m
  BY DEF OwnedByTask
<1>3. Once(tasks')
  BY <1>1, <1>2, AppendElements
<1>4. \A j \in DOMAIN tasks' : tasks'[j] = m \/ \E i \in DOMAIN tasks : tasks'[j] = tasks[i]
  BY <1>1, AppendElements
<1>5. tasks' # <<>>
  BY <1>1
<1>6. \A i \in DOMAIN tasks : OwnedByTask(tasks[i])
  BY DEF OwnedByTask
<1>7. \A j \in DOMAIN tasks' : stage'[tasks'[j]] = "none"
  BY <1>1, <1>4, <1>6
<1> QED
  BY <1>3, <1>5, <1>7 DEF TaskInv, Once

\* The only message that can begin to be one that is to be sent is a new one.
LEMMA LiveMessage ==
    ASSUME TypeOK, NewInv, MidInv, NEW m \in Messages, MessageStep(m)
    PROVE  /\ \A x \in Messages : Live(x)' => Live(x) \/ (x = m /\ Persist(m))
           /\ Persist(m) => Fresh(m) /\ status[m] = "absent" /\ m \in row
<1>1. CASE Enroll(m)
  <2>1. row' = row \cup {m} /\ status' = [status EXCEPT ![m] = "absent"] /\ ~Persist(m)
    BY <1>1, MidNotNone DEF Enroll, Event, Idle, Persist
  <2> QED
    BY <2>1 DEF TypeOK, Live
<1>2. CASE Persist(m)
  <2>1. /\ status[m] = "absent" /\ status' = [status EXCEPT ![m] = "unsent"] /\ row' = row
        /\ mid = m
    BY <1>2, Zenon DEF Persist
  <2>2. Fresh(m) /\ m \in row
    BY <2>1, MidNotNone DEF MidInv
  <2>3. \A x \in Messages : Live(x)' => Live(x) \/ x = m
    BY <2>1 DEF Live, TypeOK
  <2> QED
    BY <1>2, <2>1, <2>2, <2>3
<1>3. CASE ~Enroll(m) /\ ~Persist(m)
  <2>1. OnlyLess
    BY <1>3, DataMessage
  <2> QED
    BY <1>3, <2>1 DEF OnlyLess, Live
<1> QED
  BY <1>1, <1>2, <1>3

\* The tasks over the steps of a message
LEMMA TaskMessage ==
    ASSUME TypeOK, LaneInv, TaskInv, NewInv, MidInv, SignalInv, WaiterInv,
           NEW m \in Messages, MessageStep(m)
    PROVE  TaskInv'
<1>1. /\ \A x \in Messages : Live(x)' => Live(x) \/ (x = m /\ Persist(m))
      /\ Persist(m) => Fresh(m)
  BY LiveMessage
<1>2. \A x \in confirmed : ~Live(x)'
  BY <1>1 DEF TaskInv, Fresh, TypeOK
<1>3. \A x \in Messages : OwnedByTask(x) => stage[x] = "none"
  BY DEF TaskInv, OwnedByTask
<1>4. CASE Enroll(m) \/ Persist(m)
  <2>1. UNCHANGED sending /\ stage' \in {stage, [stage EXCEPT ![m] = "queued"]}
    BY <1>4 DEF Enroll, Persist, job
  <2>2. stage' # stage => ~OwnedByTask(m)
    BY <1>1, <1>4 DEF Enroll, job, Fresh
  <2>3. \A x \in Messages : OwnedByTask(x) => stage'[x] = "none"
    BY <1>3, <2>1, <2>2 DEF TypeOK
  <2> QED
    BY <1>2, <2>1, <2>3, TaskStays DEF sending, TaskInv
<1>5. CASE ClearFailed(m)
  <2>1. status[m] = "failed" /\ mid = m
    BY <1>5, Zenon DEF ClearFailed
  <2>2. CASE stage[m] = "failing"
    <3>1. UNCHANGED sending /\ stage' = [stage EXCEPT ![m] = "none"]
      BY <1>5, <2>2, Zenon DEF ClearFailed, Ended
    <3>2. \A x \in Messages : OwnedByTask(x) => stage'[x] = "none"
      BY <1>3, <3>1 DEF TypeOK
    <3> QED
      BY <1>2, <3>1, <3>2, TaskStays DEF sending, TaskInv
  <2>3. CASE stage[m] # "failing"
    <3>1. /\ tasks' = Tail(tasks) /\ wire' = "idle" /\ confirmed' = confirmed \cup {m}
          /\ UNCHANGED stage /\ status' = status
      BY <1>5, <2>3, Zenon DEF ClearFailed, job
    <3>2. tasks # <<>> /\ Head(tasks) = m
      BY <2>1, <2>3, MidNotNone DEF MidInv
    <3>3. ~Live(m)'
      BY <2>1, <3>1 DEF Live
    <3> QED
      BY <1>2, <3>1, <3>2, <3>3, TaskLeft
  <2> QED
    BY <2>2, <2>3
<1>6. CASE SendStep(m)
  <2>1. UNCHANGED stage
    BY <1>6, SendForm DEF sendRest, job
  <2>2. CASE GoesOn(m) \/ Dismisses(m) \/ Clears(m)
    <3>1. tasks' = tasks /\ (wire' # "idle" => tasks # <<>>) /\ confirmed' \subseteq confirmed
      BY <2>2 DEF GoesOn, Dismisses, Clears, Sender, sending, TaskInv
    <3> QED
      BY <1>2, <1>3, <2>1, <3>1, TaskStays
  <2>3. CASE Resolves(m)
    <3>1. /\ tasks' = Tail(tasks) /\ wire' = "idle" /\ confirmed' = confirmed \cup {m}
          /\ tasks # <<>> /\ Head(tasks) = m /\ ~Live(m)'
      BY <2>3 DEF Resolves, Sender
    <3> QED
      BY <1>2, <2>1, <3>1, TaskLeft
  <2> QED
    BY <1>6, <2>2, <2>3, SendForm
<1>7. CASE Remove(m)
  <2>1. UNCHANGED <<stage, sending>>
    BY <1>7, AbortSteps DEF Aborts
  <2> QED
    BY <1>2, <1>3, <2>1, TaskStays DEF sending, TaskInv
<1>8. CASE \E s \in Stages : JobStep(m, s)
  <2>1. PICK s \in Stages : JobStep(m, s)
    BY <1>8
  <2>2. /\ Outcome(m, s) /\ stage[m] # "none" /\ UNCHANGED <<wire, confirmed>>
    BY <2>1 DEF JobStep, jobRest
  <2>3. /\ stage'[m] = s
        /\ \A x \in Messages \ {m} :
              stage'[x] = stage[x] \/ (stage[x] = "waiting" /\ stage'[x] = "granted")
    BY <2>1, JobStage
  <2>4. ~OwnedByTask(m) /\ \A x \in Messages : OwnedByTask(x) => stage'[x] = "none"
    BY <1>3, <2>2, <2>3
  <2>5. tasks' = tasks \/ (tasks' = Append(tasks, m) /\ s = "none")
    BY <2>2, Zenon DEF Outcome, Ends, Hands, Fails, Stays, Schedule
  <2>6. CASE tasks' = tasks
    BY <1>2, <2>2, <2>4, <2>6, TaskStays DEF TaskInv
  <2>7. CASE tasks' = Append(tasks, m) /\ s = "none"
    BY <1>2, <2>2, <2>3, <2>4, <2>7, TaskEntered
  <2> QED
    BY <2>5, <2>6, <2>7
<1>9. CASE \E b \in Blobs[m] : BlobStep(m, b)
  <2>1. UNCHANGED uploadRest
    BY <1>9, BlobForm
  <2> QED
    BY <1>2, <1>3, <2>1, TaskStays DEF uploadRest, sending, TaskInv
<1> QED
  BY <1>4, <1>5, <1>6, <1>7, <1>8, <1>9, Zenon DEF MessageStep

\* The tasks over the other steps
LEMMA TaskOther ==
    ASSUME TypeOK, TaskInv, MidInv, OtherStep
    PROVE  TaskInv'
<1>1. \A x \in Messages : Live(x)' => Live(x)
  BY DataOther DEF OnlyLess, Live
<1>2. \A x \in confirmed : ~Live(x)'
  BY <1>1 DEF TaskInv, TypeOK
<1>3. \A x \in Messages : OwnedByTask(x) => stage[x] = "none"
  BY DEF TaskInv, OwnedByTask
<1>4. CASE (\E c \in Conversations : SoftClear(c) \/ Leave(c)) \/ Reconnects \/ Stop
  <2>1. tasks' = tasks /\ wire' \in {wire, "idle"} /\ confirmed' = confirmed /\ stage' = stage
    BY <1>4 DEF SoftClear, Leave, Reconnects, ConnectionBreaks, Replaced, Stop, sending, job
  <2> QED
    BY <1>2, <1>3, <2>1, TaskStays DEF TaskInv
<1>5. CASE Crash
  BY <1>5 DEF Crash, TaskInv, Once
<1>6. CASE Recover
  <2>1. tasks' = <<>> /\ wire' = "idle" /\ confirmed' = {}
    BY <1>6 DEF Recover, MidInv, sending
  <2> QED
    BY <2>1 DEF TaskInv, Once
<1> QED
  BY <1>4, <1>5, <1>6, Zenon DEF OtherStep

-----------------------------------------------------------------------------
\* Composing, and the pairs of writes

\* Every step of a message is one of a running process, between other writes unless
\* it is the second of two.
LEMMA StepIdle ==
    ASSUME TypeOK, SignalInv, NEW m \in Messages, MessageStep(m)
    PROVE  /\ up /\ up' /\ shutdown' = shutdown /\ withdrawn' = withdrawn
           /\ ~Persist(m) /\ ~ClearFailed(m) => Idle
<1>1. CASE SendStep(m)
  BY <1>1, SendForm DEF GoesOn, Dismisses, Resolves, Clears, Sender, Event, Idle, sendRest,
     history
<1>2. CASE \E s \in Stages : JobStep(m, s)
  BY <1>2 DEF JobStep, jobRest, history, Idle
<1>3. CASE \E b \in Blobs[m] : BlobStep(m, b)
  <2>1. Idle
    BY <1>3 DEF BlobStep, BlobUploaded, BlobFailed, BlobRefused, BlobCancelled, Uploading, Event
  <2>2. UNCHANGED uploadRest
    BY <1>3, BlobForm
  <2> QED
    BY <2>1, <2>2 DEF uploadRest, Idle, history
<1>4. CASE Enroll(m) \/ Persist(m)
  BY <1>4 DEF Enroll, Persist, Event, Idle, history
<1>5. CASE ClearFailed(m) \/ Remove(m)
  BY <1>5 DEF ClearFailed, Remove, Meddle, Idle, history
<1> QED
  BY <1>1, <1>2, <1>3, <1>4, <1>5, Zenon DEF MessageStep

\* What becomes of the tasks: nothing, or the first one ends, or one is added.
TaskOver(m) ==
    /\ tasks # <<>> /\ Head(tasks) = m /\ tasks' = Tail(tasks) /\ ~Live(m)'
    /\ UNCHANGED <<stage, lane>>
TaskAdded(m) ==
    /\ tasks' = Append(tasks, m) /\ orphans' = orphans
    /\ Live(m) /\ ~shutdown /\ stage[m] # "none" /\ stage'[m] = "none"
    /\ Head(lane[Conv[m]]) = m /\ lane' = [lane EXCEPT ![Conv[m]] = Tail(@)]
    /\ UNCHANGED <<row, status>>

\* Every step of a message does one of these to the tasks.
LEMMA TasksForm ==
    ASSUME TypeOK, MidInv, WaiterInv, SignalInv, NEW m \in Messages, MessageStep(m)
    PROVE  tasks' = tasks \/ TaskOver(m) \/ TaskAdded(m)
<1>1. CASE SendStep(m)
  BY <1>1, SendForm DEF GoesOn, Dismisses, Resolves, Clears, Sender, sendRest, job, sending,
     TaskOver
<1>2. CASE \E s \in Stages : JobStep(m, s)
  <2>1. PICK s \in Stages : JobStep(m, s)
    BY <1>2
  <2>2. stage[m] # "none" /\ Head(lane[Conv[m]]) = m /\ Outcome(m, s)
    BY <2>1 DEF JobStep, jobRest, history
  <2>3. stage'[m] = s
    BY <2>1, JobStage
  <2>4. CASE Hands(m, s)
    <3>1. /\ s = "none" /\ Live(m) /\ ~shutdown
          /\ lane' = [lane EXCEPT ![Conv[m]] = Tail(@)] /\ UNCHANGED <<row, status>>
          /\ tasks' = tasks \/ (tasks' = Append(tasks, m) /\ orphans' = orphans)
      BY <2>4 DEF Hands, Schedule, Forget
    <3> QED
      BY <2>2, <2>3, <3>1 DEF TaskAdded
  <2>5. CASE ~Hands(m, s)
    BY <2>2, <2>5, Zenon DEF Outcome, Ends, Fails, Stays
  <2> QED
    BY <2>4, <2>5
<1>3. CASE \E b \in Blobs[m] : BlobStep(m, b)
  <2>1. UNCHANGED uploadRest
    BY <1>3, BlobForm
  <2> QED
    BY <2>1 DEF uploadRest, sending
<1>4. CASE Enroll(m) \/ Persist(m) \/ Remove(m)
  BY <1>4 DEF Enroll, Persist, Remove, sending
<1>5. CASE ClearFailed(m)
  <2>1. mid = m /\ status' = status /\ status[m] = "failed"
    BY <1>5, Zenon DEF ClearFailed, history
  <2>2. CASE stage[m] = "failing"
    BY <1>5, <2>2, Zenon DEF ClearFailed, sending
  <2>3. CASE stage[m] # "failing"
    <3>1. tasks' = Tail(tasks) /\ UNCHANGED <<stage, lane>>
      BY <1>5, <2>3, Zenon DEF ClearFailed, job
    <3>2. tasks # <<>> /\ Head(tasks) = m
      BY <2>1, <2>3, MidNotNone DEF MidInv
    <3> QED
      BY <2>1, <3>1, <3>2 DEF TaskOver, Live
  <2> QED
    BY <2>2, <2>3
<1> QED
  BY <1>1, <1>2, <1>3, <1>4, <1>5, Zenon DEF MessageStep

\* The tasks of other messages stay.
LEMMA TasksOf ==
    ASSUME TypeOK, NEW m \in Messages, tasks' = tasks \/ TaskOver(m) \/ TaskAdded(m)
    PROVE  \A x \in Messages \ {m} : OwnedByTask(x)' <=> OwnedByTask(x)
<1>1. tasks \in Seq(Messages)
  BY DEF TypeOK
<1>2. CASE tasks' = tasks
  BY <1>2 DEF OwnedByTask
<1>3. CASE TaskOver(m)
  <2>1. tasks # <<>> /\ Head(tasks) = m /\ tasks' = Tail(tasks)
    BY <1>3 DEF TaskOver
  <2>2. \A j \in DOMAIN tasks' : \E i \in DOMAIN tasks : tasks'[j] = tasks[i]
    BY <1>1, <2>1, TailElements
  <2>3. \A i \in DOMAIN tasks : tasks[i] # m => \E j \in DOMAIN tasks' : tasks'[j] = tasks[i]
    BY <1>1, <2>1, TailElements
  <2> QED
    BY <2>2, <2>3 DEF OwnedByTask
<1>4. CASE TaskAdded(m)
  <2>1. tasks' = Append(tasks, m)
    BY <1>4 DEF TaskAdded
  <2>2. \A j \in DOMAIN tasks' : tasks'[j] = m \/ \E i \in DOMAIN tasks : tasks'[j] = tasks[i]
    BY <1>1, <2>1, AppendElements
  <2>3. \A i \in DOMAIN tasks : \E j \in DOMAIN tasks' : tasks'[j] = tasks[i]
    BY <1>1, <2>1, AppendElements
  <2> QED
    BY <2>2, <2>3 DEF OwnedByTask
<1> QED
  BY <1>2, <1>3, <1>4

\* A message that is still to be composed keeps leaving no trace.
LEMMA NewKeeps ==
    ASSUME TypeOK, NewInv, OnlyLess, NEW m \in Messages, status[m] # "new",
           \A x \in Messages \ {m} : /\ stage[x] = "none" => stage'[x] = "none"
                                     /\ OwnedByTask(x)' <=> OwnedByTask(x),
           confirmed' \subseteq confirmed \cup {m}, withdrawn' = withdrawn
    PROVE  NewInv'
BY DEF NewInv, Fresh, OnlyLess

\* What is to be composed leaves no trace: the steps of a message
LEMMA NewMessage ==
    ASSUME TypeOK, NewInv, MidInv, WaiterInv, SignalInv, NEW m \in Messages, MessageStep(m)
    PROVE  NewInv'
<1>1. CASE Enroll(m) \/ Persist(m)
  <2>1. /\ \A x \in Messages : status'[x] = "new" => x # m /\ status[x] = "new"
        /\ row' \subseteq row \cup {m} /\ UNCHANGED <<tasks, confirmed, withdrawn>>
        /\ \A x \in Messages \ {m} : stage'[x] = stage[x]
    BY <1>1 DEF Enroll, Persist, TypeOK, sending, history, job
  <2> QED
    BY <2>1 DEF NewInv, Fresh, OwnedByTask
<1>2. CASE ~Enroll(m) /\ ~Persist(m)
  <2>1. OnlyLess
    BY <1>2, DataMessage
  <2>2. \A x \in Messages \ {m} : OwnedByTask(x)' <=> OwnedByTask(x)
    BY TasksForm, TasksOf
  <2>3. withdrawn' = withdrawn
    BY StepIdle
  <2>4. CASE SendStep(m)
    <3>1. UNCHANGED stage
      BY <2>4, SendForm DEF sendRest, job
    <3>2. confirmed' \subseteq confirmed \cup {m}
      BY <2>4, SendForm DEF GoesOn, Dismisses, Resolves, Clears, sending
    <3>3. status[m] # "new"
      BY <2>4, SendForm, SenderPlace DEF GoesOn, Dismisses, Resolves, Clears, NewInv, Fresh
    <3> QED
      BY <2>1, <2>2, <2>3, <3>1, <3>2, <3>3, NewKeeps
  <2>5. CASE \E s \in Stages : JobStep(m, s)
    <3>1. PICK s \in Stages : JobStep(m, s)
      BY <2>5
    <3>2. stage[m] # "none" /\ UNCHANGED <<confirmed>>
      BY <3>1 DEF JobStep, jobRest, history
    <3>3. \A x \in Messages \ {m} : stage[x] = "none" => stage'[x] = "none"
      BY <3>1, JobStage
    <3>4. status[m] # "new"
      BY <3>2 DEF NewInv, Fresh
    <3> QED
      BY <2>1, <2>2, <2>3, <3>2, <3>3, <3>4, NewKeeps
  <2>6. CASE \E b \in Blobs[m] : BlobStep(m, b)
    <3>1. UNCHANGED uploadRest /\ stage[m] = "uploading"
      BY <2>6, BlobForm
    <3>2. status[m] # "new"
      BY <3>1 DEF NewInv, Fresh
    <3> QED
      BY <2>1, <2>2, <2>3, <3>1, <3>2, NewKeeps DEF uploadRest, sending, history
  <2>7. CASE ClearFailed(m)
    <3>1. /\ status[m] = "failed" /\ confirmed' \subseteq confirmed \cup {m}
          /\ stage' \in {stage, [stage EXCEPT ![m] = "none"]}
      BY <2>7 DEF ClearFailed, sending, history, job, Ended
    <3>2. \A x \in Messages \ {m} : stage[x] = "none" => stage'[x] = "none"
      BY <3>1 DEF TypeOK
    <3> QED
      BY <2>1, <2>2, <2>3, <3>1, <3>2, NewKeeps
  <2>8. CASE Remove(m)
    <3>1. status[m] # "new" /\ UNCHANGED <<confirmed, stage>>
      BY <2>8 DEF Remove, sending
    <3> QED
      BY <2>1, <2>2, <2>3, <3>1, NewKeeps
  <2> QED
    BY <1>2, <2>4, <2>5, <2>6, <2>7, <2>8, Zenon DEF MessageStep
<1> QED
  BY <1>1, <1>2

\* The other steps
LEMMA NewOther ==
    ASSUME TypeOK, NewInv, MidInv, OtherStep
    PROVE  NewInv'
<1>1. row' \subseteq row /\ status' = status
  BY DataOther
<1>2. CASE (\E c \in Conversations : SoftClear(c) \/ Leave(c)) \/ Reconnects \/ Stop
  <2>1. /\ UNCHANGED <<stage, tasks, confirmed>>
        /\ \A x \in withdrawn' : x \in withdrawn \/ status[x] = "unsent"
    BY <1>2 DEF SoftClear, Leave, Reconnects, ConnectionBreaks, Replaced, Stop, job, sending,
       history
  <2> QED
    BY <1>1, <2>1 DEF NewInv, Fresh, OwnedByTask
<1>3. CASE Crash
  BY <1>1, <1>3 DEF Crash, NewInv, Fresh, OwnedByTask
<1>4. CASE Recover
  <2>1. tasks' = <<>> /\ confirmed' = {} /\ UNCHANGED <<withdrawn>>
    BY <1>4 DEF Recover, MidInv, sending, history
  <2>2. \A x \in Messages : stage'[x] = "none" \/ x \in row
    BY <1>4 DEF Recover
  <2> QED
    BY <1>1, <2>1, <2>2 DEF NewInv, Fresh, OwnedByTask
<1> QED
  BY <1>2, <1>3, <1>4, Zenon DEF OtherStep

\* Between other writes no job is failing.
LEMMA NoneFailing ==
    ASSUME MidInv, Idle, NEW x \in Messages
    PROVE  stage[x] # "failing"
<1>1. mid = None
  BY DEF Idle
<1> QED
  BY <1>1, MidNotNone DEF MidInv

\* The pairs of writes over the steps of a message
LEMMA MidMessage ==
    ASSUME TypeOK, LaneInv, NewInv, MidInv, WaiterInv, SignalInv, NEW m \in Messages, MessageStep(m)
    PROVE  MidInv'
<1>1. up' /\ (~Persist(m) /\ ~ClearFailed(m) => Idle)
  BY StepIdle
<1>2. CASE Enroll(m)
  <2>1. /\ status[m] = "new" /\ status' = [status EXCEPT ![m] = "absent"] /\ row' = row \cup {m}
        /\ mid' = m /\ Idle /\ UNCHANGED <<tasks, confirmed, stage>>
    BY <1>2, Zenon DEF Enroll, Event, sending, job, history
  <2>2. status'[m] = "absent" /\ m \in row'
    BY <2>1 DEF TypeOK
  <2>3. Fresh(m)'
    BY <2>1 DEF NewInv, Fresh, OwnedByTask
  <2>4. \A x \in Messages : stage'[x] # "failing"
    BY <2>1, NoneFailing
  <2> QED
    BY <1>1, <2>1, <2>2, <2>3, <2>4, MidNotNone DEF MidInv, Fresh, OwnedByTask
<1>3. CASE Persist(m)
  <2>1. mid = m /\ mid' = None /\ status[m] = "absent"
            /\ stage' \in {stage, [stage EXCEPT ![m] = "queued"]}
    BY <1>3 DEF Persist
  <2>2. \A x \in Messages : stage[x] # "failing"
    BY <2>1 DEF MidInv
  <2>3. \A x \in Messages : stage'[x] # "failing"
    BY <2>1, <2>2 DEF TypeOK
  <2> QED
    BY <1>1, <2>1, <2>3 DEF MidInv
<1>4. CASE ClearFailed(m)
  <2>1. mid = m /\ mid' = None
    BY <1>4, Zenon DEF ClearFailed
  <2>2. \A x \in Messages \ {m} : stage[x] # "failing"
    BY <2>1 DEF MidInv
  <2>3. \A x \in Messages : stage'[x] # "failing"
    <3>1. CASE stage[m] = "failing"
      <4>1. stage' = [stage EXCEPT ![m] = "none"]
        BY <1>4, <3>1, Zenon DEF ClearFailed, Ended
      <4> QED
        BY <2>2, <4>1 DEF TypeOK
    <3>2. CASE stage[m] # "failing"
      <4>1. stage' = stage
        BY <1>4, <3>2, Zenon DEF ClearFailed, job
      <4> QED
        BY <2>2, <3>2, <4>1
    <3> QED
      BY <3>1, <3>2
  <2> QED
    BY <1>1, <2>1, <2>3 DEF MidInv
<1>5. CASE SendStep(m)
  <2>1. UNCHANGED stage /\ Idle
    BY <1>1, <1>5, SendForm DEF sendRest, job, GoesOn, Dismisses, Resolves, Clears, Sender, Event
  <2>2. \A x \in Messages : stage'[x] # "failing"
    BY <2>1, NoneFailing
  <2>3. \/ mid' = None
        \/ /\ mid' = m /\ status' = [status EXCEPT ![m] = "failed"]
           /\ tasks' # <<>> /\ Head(tasks') = m
    BY <1>5, <2>1, SendForm DEF GoesOn, Dismisses, Resolves, Clears, Sender, Idle, sending
  <2>4. mid' # None => status'[mid'] = "failed" /\ tasks' # <<>> /\ Head(tasks') = mid'
    BY <2>3 DEF TypeOK
  <2> QED
    BY <1>1, <2>2, <2>4 DEF MidInv
<1>6. CASE \E s \in Stages : JobStep(m, s)
  <2>1. PICK s \in Stages : JobStep(m, s)
    BY <1>6
  <2>2. Outcome(m, s) /\ Idle
    BY <2>1 DEF JobStep
  <2>3. /\ stage'[m] = s /\ \A x \in Messages \ {m} : stage'[x] # "failing"
    <3>1. /\ stage'[m] = s
          /\ \A x \in Messages \ {m} : stage'[x] = stage[x] \/ stage'[x] = "granted"
      BY <2>1, JobStage
    <3> QED
      BY <2>2, <3>1, NoneFailing
  <2>4. CASE Fails(m, s)
    <3>1. mid' = m /\ stage'[m] = "failing" /\ status' = [status EXCEPT ![m] = "failed"]
      BY <2>3, <2>4 DEF Fails
    <3>2. status'[m] = "failed"
      BY <3>1 DEF TypeOK
    <3> QED
      BY <1>1, <2>3, <3>1, <3>2, MidNotNone DEF MidInv
  <2>5. CASE ~Fails(m, s)
    <3>1. mid' = mid /\ s # "failing"
      BY <2>2, <2>5 DEF Outcome, Ends, Hands, Stays, Schedule
    <3>2. \A x \in Messages : stage'[x] # "failing"
      BY <2>3, <3>1
    <3> QED
      BY <1>1, <2>2, <3>1, <3>2 DEF MidInv, Idle
  <2> QED
    BY <2>4, <2>5
<1>7. CASE Remove(m) \/ \E b \in Blobs[m] : BlobStep(m, b)
  <2>1. Idle /\ mid' = mid /\ stage' = stage
    <3>1. CASE Remove(m)
      BY <3>1, AbortSteps DEF Aborts
    <3>2. CASE ~Remove(m)
      <4>1. UNCHANGED uploadRest
        BY <1>7, <3>2, BlobForm
      <4> QED
        BY <1>1, <1>7, <3>2, <4>1, Zenon DEF uploadRest, Idle, BlobStep, BlobUploaded, BlobFailed,
           BlobRefused, BlobCancelled, Uploading, Event
    <3> QED
      BY <3>1, <3>2
  <2>2. \A x \in Messages : stage'[x] # "failing"
    BY <2>1, NoneFailing
  <2> QED
    BY <1>1, <2>1, <2>2 DEF MidInv, Idle
<1> QED
  BY <1>2, <1>3, <1>4, <1>5, <1>6, <1>7, Zenon DEF MessageStep

\* The pairs of writes over the other steps
LEMMA MidOther ==
    ASSUME TypeOK, MidInv, OtherStep
    PROVE  MidInv'
<1>1. CASE (\E c \in Conversations : SoftClear(c) \/ Leave(c)) \/ Reconnects \/ Stop
  <2>1. Idle /\ up' = up /\ mid' = mid /\ stage' = stage
    BY <1>1 DEF SoftClear, Leave, Reconnects, ConnectionBreaks, Replaced, Stop, Meddle, Event,
       Idle, job
  <2>2. \A x \in Messages : stage'[x] # "failing"
    BY <2>1, NoneFailing
  <2> QED
    BY <2>1, <2>2 DEF MidInv, Idle
<1>2. CASE Crash
  <2>1. /\ mid' = None /\ tasks' = <<>> /\ slotWaiters' = <<>>
        /\ \A c \in Conversations : lane'[c] = <<>>
        /\ running' = 0 /\ runningLarge' = 0 /\ wire' = "idle" /\ confirmed' = {} /\ ~shutdown'
        /\ \A x \in Messages : /\ stage'[x] = "none" /\ signal'[x] = NoSignal
                               /\ result'[x] = NoResult /\ charged'[x] = 0
    BY <1>2 DEF Crash
  <2> QED
    BY <2>1 DEF MidInv
<1>3. CASE Recover
  <2>1. up' /\ mid' = None
    BY <1>3 DEF Recover, MidInv
  <2>2. \A x \in Messages : stage'[x] # "failing"
    BY <1>3 DEF Recover
  <2> QED
    BY <2>1, <2>2 DEF MidInv
<1> QED
  BY <1>1, <1>2, <1>3, Zenon DEF OtherStep

-----------------------------------------------------------------------------
\* Cancels

\* Whatever is aborted, nothing else is.
LEMMA AbortedBy ==
    ASSUME TypeOK, NEW ms \in SUBSET Messages, NEW reason \in {"gone", "interrupted"},
           Abort(ms, reason)
    PROVE  \A x \in Messages : \A e \in Entries :
               \/ signal'[x][e] = signal[x][e]
               \/ x \in ms /\ signal'[x][e] = reason /\ InFlight(x) # {}
<1>1. reason \in Signals \ {"no"}
  BY DEF Signals
<1>2. \A x \in Messages, e \in Entries :
          signal'[x][e] = IF x \in ms /\ e \in InFlight(x) /\ signal[x][e] = "no"
                          THEN reason ELSE signal[x][e]
  BY <1>1, AbortSignals, Zenon
<1> QED
  BY <1>2

\* What an outcome means after the step
MeansThen(m, outcome) ==
    /\ outcome = "gone" => m \notin row' /\ status'[m] # "new"
    /\ outcome = "interrupted" => shutdown'

\* What an outcome means goes on being true.
LEMMA MeansKept ==
    ASSUME row' \subseteq row, \A x \in Messages : status'[x] = "new" => status[x] = "new",
           shutdown => shutdown'
    PROVE  \A x \in Messages : \A o : Means(x, o) => MeansThen(x, o)
BY DEF Means, MeansThen

\* Reasons and results mean what they say when those that are new do.
LEMMA SignalKept ==
    ASSUME TypeOK, SignalInv, row' \subseteq row,
           \A x \in Messages : status'[x] = "new" => status[x] = "new", shutdown => shutdown',
           \A x \in Messages : /\ signal'[x]["wait"] # "sibling"
                               /\ \A e \in Entries :
                                      signal'[x][e] = signal[x][e] \/ MeansThen(x, signal'[x][e])
                               /\ \A b \in {"main", "thumbnail"} :
                                     result'[x][b] = result[x][b] \/ MeansThen(x, result'[x][b])
    PROVE  SignalInv'
<1>1. \A x \in Messages : \A o : Means(x, o) => MeansThen(x, o)
  BY MeansKept
<1> SUFFICES ASSUME NEW x \in Messages
             PROVE  /\ signal'[x]["wait"] # "sibling"
                    /\ \A e \in Entries : MeansThen(x, signal'[x][e])
                    /\ \A b \in {"main", "thumbnail"} : MeansThen(x, result'[x][b])
  BY DEF SignalInv, Means, MeansThen
<1>2. \A e \in Entries : Means(x, signal[x][e])
  BY DEF SignalInv
<1>3. \A b \in {"main", "thumbnail"} : Means(x, result[x][b])
  BY DEF SignalInv
<1> QED
  BY <1>1, <1>2, <1>3

\* The job changes the results of its own message only, and none of its
\* results ends an upload.
LEMMA ResultElsewhere ==
    ASSUME TypeOK, NEW m \in Messages, NEW s, Outcome(m, s)
    PROVE  /\ \A x \in Messages \ {m} : result'[x] = result[x]
           /\ \A b \in {"main", "thumbnail"} : result'[m][b] \in {result[m][b], "none", "busy"}
<1>1. \/ result' = result
      \/ result' = [result EXCEPT ![m] = NoResult]
      \/ \E r \in [{"main", "thumbnail"} -> {"none", "busy"}] : result' = [result EXCEPT ![m] = r]
  BY Zenon DEF Outcome, Ends, Hands, Fails, Stays, Schedule, Forget
<1>2. CASE result' = result
  BY <1>2
<1>3. CASE result' = [result EXCEPT ![m] = NoResult]
  BY <1>3 DEF TypeOK, NoResult
<1>4. CASE \E r \in [{"main", "thumbnail"} -> {"none", "busy"}] : result' = [result EXCEPT ![m] = r]
  BY <1>4 DEF TypeOK
<1> QED
  BY <1>1, <1>2, <1>3, <1>4

\* The meaning of reasons and results over the steps of a message
LEMMA SignalMessage ==
    ASSUME TypeOK, NewInv, MidInv, SignalInv, NEW m \in Messages, MessageStep(m)
    PROVE  SignalInv'
<1>1. shutdown' = shutdown
  BY StepIdle
<1>2. \A x \in Messages :
          /\ MeansThen(x, "no") /\ MeansThen(x, "none") /\ MeansThen(x, "busy")
          /\ MeansThen(x, "sibling")
  BY DEF Means, MeansThen
<1>3. CASE Enroll(m)
  <2>1. /\ status[m] = "new" /\ row' = row \cup {m} /\ signal' = signal /\ result' = result
        /\ status' = [status EXCEPT ![m] = "absent"]
    BY <1>3 DEF Enroll, job
  <2>2. \A x \in Messages : \A o : Means(x, o) => MeansThen(x, o)
    BY <1>1, <2>1 DEF Means, MeansThen, TypeOK
  <2> QED
    BY <2>1, <2>2 DEF SignalInv, Means, MeansThen
<1>4. CASE Persist(m)
  <2>1. signal' = signal /\ result' = result /\ row' = row
            /\ status' = [status EXCEPT ![m] = "unsent"]
    BY <1>4 DEF Persist
  <2>2. \A x \in Messages : status'[x] = "new" => status[x] = "new"
    BY <2>1 DEF TypeOK
  <2> QED
    BY <1>1, <2>1, <2>2, SignalKept DEF SignalInv
<1>5. CASE ~Enroll(m) /\ ~Persist(m)
  <2>1. OnlyLess
    BY <1>5, DataMessage
  <2>2. row' \subseteq row /\ \A x \in Messages : status'[x] = "new" => status[x] = "new"
    BY <2>1 DEF OnlyLess
  <2>3. CASE SendStep(m)
    <3>1. signal' = signal /\ result' = result
      BY <2>3, QuietSteps DEF Quiet, job
    <3> QED
      BY <1>1, <2>2, <3>1, SignalKept DEF SignalInv
  <2>4. CASE ClearFailed(m)
    <3>1. \/ signal' = signal /\ result' = result
          \/ /\ signal' = [signal EXCEPT ![m] = NoSignal]
             /\ result' = [result EXCEPT ![m] = NoResult]
      BY <2>4 DEF ClearFailed, Forget, job
    <3>2. \A x \in Messages : /\ \A e \in Entries : signal'[x][e] \in {signal[x][e], "no"}
                              /\ \A b \in {"main", "thumbnail"} :
                                     result'[x][b] \in {result[x][b], "none"}
      <4>1. \A x \in Messages \ {m} : signal'[x] = signal[x] /\ result'[x] = result[x]
        BY <3>1 DEF TypeOK
      <4>2. \/ signal'[m] = signal[m] /\ result'[m] = result[m]
            \/ signal'[m] = NoSignal /\ result'[m] = NoResult
        BY <3>1 DEF TypeOK
      <4> QED
        BY <4>1, <4>2 DEF NoSignal, NoResult
    <3>3. \A x \in Messages : signal'[x]["wait"] # "sibling"
      BY <3>2 DEF SignalInv, Entries
    <3> QED
      BY <1>1, <1>2, <2>2, <3>2, <3>3, SignalKept
  <2>5. CASE Remove(m)
    <3>1. Abort({m}, "gone") /\ result' = result /\ row' = row \ {m}
      BY <2>5, AbortSteps DEF Remove, Aborts
    <3>2. \A x \in Messages : \A e \in Entries :
              signal'[x][e] = signal[x][e] \/ (x = m /\ signal'[x][e] = "gone")
      BY <3>1, AbortedBy
    <3>3. status'[m] = "absent"
      BY <2>5 DEF Remove, TypeOK
    <3>4. MeansThen(m, "gone")
      BY <3>1, <3>3 DEF Means, MeansThen
    <3>5. \A x \in Messages : signal'[x]["wait"] # "sibling"
      BY <3>2 DEF SignalInv, Entries
    <3> QED
      BY <1>1, <2>2, <3>1, <3>2, <3>4, <3>5, SignalKept
  <2>6. CASE \E s \in Stages : JobStep(m, s)
    <3>1. PICK s \in Stages : Outcome(m, s)
      BY <2>6 DEF JobStep
    <3>2. \A x \in Messages : \A e \in Entries : signal'[x][e] \in {signal[x][e], "no"}
      BY <3>1, SignalElsewhere DEF NoSignal
    <3>3. \A x \in Messages : signal'[x]["wait"] # "sibling"
      BY <3>2 DEF SignalInv, Entries
    <3>4. \A x \in Messages : \A b \in {"main", "thumbnail"} :
              result'[x][b] \in {result[x][b], "none", "busy"}
      BY <3>1, ResultElsewhere
    <3> QED
      BY <1>1, <1>2, <2>2, <3>2, <3>3, <3>4, SignalKept
  <2>7. CASE \E b \in Blobs[m] : BlobStep(m, b)
    <3>1. PICK b \in Blobs[m] : BlobStep(m, b)
      BY <2>7
    <3>2. PICK r \in Results : result' = [result EXCEPT ![m][b] = r] /\ Means(m, r)
      BY <3>1, BlobForm
    <3>3. \A x \in Messages, e \in Entries :
              signal'[x][e] = signal[x][e]
                  \/ (signal'[x][e] = "sibling" /\ e \in {"main", "thumbnail"})
      BY <3>1, BlobForm
    <3>4. \A x \in Messages : signal'[x]["wait"] # "sibling"
      BY <3>3 DEF SignalInv, Entries
    <3>5. \A x \in Messages : \A a \in {"main", "thumbnail"} :
              result'[x][a] = result[x][a] \/ (x = m /\ result'[x][a] = r)
      BY <3>2 DEF TypeOK
    <3>6. MeansThen(m, r)
      BY <1>1, <2>2, <3>2, MeansKept
    <3> QED
      BY <1>1, <1>2, <2>2, <3>3, <3>4, <3>5, <3>6, SignalKept
  <2> QED
    BY <1>5, <2>3, <2>4, <2>5, <2>6, <2>7, Zenon DEF MessageStep
<1> QED
  BY <1>3, <1>4, <1>5

\* A message with an upload in flight was composed.
LEMMA InFlightOld ==
    ASSUME NewInv, NEW x \in Messages, InFlight(x) # {}
    PROVE  status[x] # "new"
BY DEF NewInv, Fresh, InFlight

\* The meaning of reasons and results over the other steps
LEMMA SignalOther ==
    ASSUME TypeOK, NewInv, MidInv, SignalInv, OtherStep
    PROVE  SignalInv'
<1>1. row' \subseteq row /\ status' = status
  BY DataOther
<1>2. \A x \in Messages : MeansThen(x, "no") /\ MeansThen(x, "none")
  BY DEF Means, MeansThen
<1>3. ASSUME NEW c \in Conversations, SoftClear(c) PROVE SignalInv'
  <2> DEFINE ofC == {x \in Messages : Conv[x] = c}
  <2>1. Abort(ofC, "gone") /\ result' = result /\ row' = row \ ofC /\ shutdown' = shutdown
    BY <1>3, AbortSteps, Zenon DEF SoftClear, Aborts
  <2> HIDE DEF ofC
  <2>2. ofC \in SUBSET Messages
    BY DEF ofC
  <2>3. \A x \in Messages : \A e \in Entries :
            \/ signal'[x][e] = signal[x][e]
            \/ x \in ofC /\ signal'[x][e] = "gone" /\ InFlight(x) # {}
    BY <2>1, <2>2, AbortedBy
  <2>4. \A x \in ofC : InFlight(x) # {} => MeansThen(x, "gone")
    BY <1>1, <2>1, <2>2, InFlightOld DEF Means, MeansThen
  <2>5. \A x \in Messages : signal'[x]["wait"] # "sibling"
    BY <2>3 DEF SignalInv, Entries
  <2>6. \A x \in Messages : \A e \in Entries :
            signal'[x][e] = signal[x][e] \/ MeansThen(x, signal'[x][e])
    BY <2>3, <2>4
  <2> QED
    BY <1>1, <2>1, <2>5, <2>6, SignalKept
<1>4. CASE Stop
  <2>1. Abort(Messages, "interrupted") /\ result' = result /\ shutdown'
    BY <1>4, AbortSteps DEF Stop, Aborts
  <2>2. \A x \in Messages : \A e \in Entries :
            signal'[x][e] = signal[x][e] \/ signal'[x][e] = "interrupted"
    BY <2>1, AbortedBy
  <2>3. \A x \in Messages : MeansThen(x, "interrupted")
    BY <2>1 DEF Means, MeansThen
  <2>4. \A x \in Messages : signal'[x]["wait"] # "sibling"
    BY <2>2 DEF SignalInv, Entries
  <2> QED
    BY <1>1, <2>1, <2>2, <2>3, <2>4, SignalKept
<1>5. CASE Reconnects \/ \E c \in Conversations : Leave(c)
  <2>1. signal' = signal /\ result' = result /\ shutdown' = shutdown
    BY <1>5 DEF Reconnects, ConnectionBreaks, Replaced, Leave, job
  <2> QED
    BY <1>1, <2>1, SignalKept DEF SignalInv
<1>6. CASE Crash \/ Recover
  <2>1. \A x \in Messages : signal'[x] = NoSignal /\ result'[x] = NoResult
    BY <1>6 DEF Crash, Recover, MidInv
  <2>2. \A x \in Messages : /\ \A e \in Entries : signal'[x][e] = "no"
                            /\ \A b \in {"main", "thumbnail"} : result'[x][b] = "none"
    BY <2>1 DEF NoSignal, NoResult
  <2> QED
    BY <1>2, <2>2 DEF SignalInv, Means, MeansThen, Entries
<1> QED
  BY <1>3, <1>4, <1>5, <1>6, Zenon DEF OtherStep

\* Where an upload goes on, the message is still to be sent.
LEMMA UploadKept ==
    ASSUME UploadInv, shutdown' = shutdown,
           \A x \in Messages : stage'[x] = "uploading" =>
               /\ stage[x] = "uploading" /\ result'[x] = result[x] /\ signal'[x] = signal[x]
               /\ \A b \in Blobs[x] : result[x][b] = "busy" /\ signal[x][b] = "no" /\ Live(x)
                      => Live(x)'
    PROVE  UploadInv'
BY Zenon DEF UploadInv

\* What is uploaded is to be sent, or cancelled: the steps of a message
LEMMA UploadMessage ==
    ASSUME TypeOK, TaskInv, NewInv, MidInv, SignalInv, WaiterInv, UploadInv,
           NEW m \in Messages, MessageStep(m)
    PROVE  UploadInv'
<1>1. shutdown' = shutdown /\ (~Persist(m) /\ ~ClearFailed(m) => Idle)
  BY StepIdle
<1>2. CASE Enroll(m) \/ Persist(m)
  <2>1. /\ UNCHANGED <<signal, result>> /\ stage' \in {stage, [stage EXCEPT ![m] = "queued"]}
        /\ \A x \in Messages \ {m} : Live(x) => Live(x)'
    BY <1>2 DEF Enroll, Persist, Live, TypeOK, job
  <2>2. stage[m] = "none"
    <3>1. CASE Enroll(m)
      BY <3>1 DEF Enroll, NewInv, Fresh
    <3>2. CASE Persist(m)
      BY <3>2, LiveMessage DEF Fresh
    <3> QED
      BY <1>2, <3>1, <3>2
  <2>3. stage'[m] # "uploading" /\ \A x \in Messages \ {m} : stage'[x] = stage[x]
    BY <2>1, <2>2 DEF TypeOK
  <2> QED
    BY <1>1, <2>1, <2>3, UploadKept
<1>3. CASE ~Enroll(m) /\ ~Persist(m)
  <2>1. \A x \in Messages \ {m} : Live(x) => Live(x)'
    BY <1>3, DataMessage DEF Live
  <2>2. CASE SendStep(m)
    <3>1. UNCHANGED <<stage, signal, result>>
      BY <2>2, QuietSteps DEF Quiet, job
    <3>2. CASE Clears(m)
      <4>1. ~Live(m)
        BY <3>2 DEF Clears, TaskInv
      <4> QED
        BY <1>1, <2>1, <3>1, <4>1, UploadKept
    <3>3. CASE Sender(m)
      <4>1. stage[m] = "none"
        BY <3>3, SenderPlace DEF TaskInv, OwnedByTask
      <4> QED
        BY <1>1, <2>1, <3>1, <4>1, UploadKept
    <3> QED
      BY <2>2, <3>2, <3>3, SendForm DEF GoesOn, Dismisses, Resolves
  <2>3. CASE ClearFailed(m)
    <3>1. ~Live(m) /\ \/ stage' = [stage EXCEPT ![m] = "none"]
                         /\ signal' = [signal EXCEPT ![m] = NoSignal]
                         /\ result' = [result EXCEPT ![m] = NoResult]
                      \/ UNCHANGED <<stage, signal, result>>
      BY <2>3 DEF ClearFailed, Forget, Ended, job, Live
    <3>2. /\ \A x \in Messages \ {m} : UNCHANGED <<stage[x], signal[x], result[x]>>
          /\ stage'[m] = "none" \/ UNCHANGED <<stage[m], signal[m], result[m]>>
      BY <3>1 DEF TypeOK
    <3> QED
      BY <1>1, <2>1, <3>1, <3>2, UploadKept
  <2>4. CASE Remove(m)
    <3>1. Abort({m}, "gone") /\ UNCHANGED <<stage, result>>
      BY <2>4, AbortSteps DEF Remove, Aborts
    <3>2. \A x \in Messages, e \in Entries :
              signal'[x][e] = IF x \in {m} /\ e \in InFlight(x) /\ signal[x][e] = "no"
                              THEN "gone" ELSE signal[x][e]
      <4>1. {m} \in SUBSET Messages /\ "gone" \in Signals \ {"no"}
        BY DEF Signals
      <4> QED
        BY <3>1, <4>1, AbortSignals, Zenon
    <3> SUFFICES ASSUME NEW x \in Messages, NEW b \in Blobs[x], stage[x] = "uploading",
                        result[x][b] = "busy"
                 PROVE  signal'[x][b] # "no" \/ (Live(x)' /\ ~shutdown')
      BY <3>1 DEF UploadInv
    <3>3. b \in InFlight(x) /\ b \in Entries
      BY OutgoingAssumption DEF InFlight, Entries
    <3> QED
      BY <1>1, <2>1, <3>2, <3>3 DEF UploadInv
  <2>5. CASE \E s \in Stages : JobStep(m, s)
    <3>1. PICK s \in Stages : JobStep(m, s)
      BY <2>5
    <3>2. Outcome(m, s)
      BY <3>1 DEF JobStep
    <3>3. /\ stage'[m] = s
          /\ \A x \in Messages \ {m} : stage'[x] = "uploading" => stage[x] = "uploading"
      BY <3>1, JobStage
    <3>4. \A x \in Messages \ {m} : signal'[x] = signal[x] /\ result'[x] = result[x]
      BY <3>2, SignalElsewhere, ResultElsewhere
    <3>5. s = "uploading" => Live(m)' /\ ~shutdown'
      BY <1>1, <3>2 DEF Outcome, Ends, Hands, Fails, Stays, Live
    <3> QED
      BY <1>1, <2>1, <3>3, <3>4, <3>5 DEF UploadInv
  <2>6. CASE \E b \in Blobs[m] : BlobStep(m, b)
    <3>1. PICK b \in Blobs[m] : BlobStep(m, b)
      BY <2>6
    <3>2. PICK r \in Results \ {"busy"} : result' = [result EXCEPT ![m][b] = r]
      BY <3>1, BlobForm
    <3>3. \A x \in Messages : \A e \in Entries : signal[x][e] # "no" => signal'[x][e] = signal[x][e]
      BY <3>1, BlobForm
    <3>4. UNCHANGED uploadRest
      BY <3>1, BlobForm
    <3>5. stage' = stage /\ \A x \in Messages : Live(x)' = Live(x)
      BY <3>4 DEF uploadRest, Live
    <3>6. \A x \in Messages : \A a \in {"main", "thumbnail"} : result'[x][a] = "busy"
              => result[x][a] = "busy"
      BY <3>2 DEF TypeOK
    <3>7. \A x \in Messages : \A a \in Blobs[x] : a \in {"main", "thumbnail"} /\ a \in Entries
      BY OutgoingAssumption DEF Entries
    <3> QED
      BY <1>1, <3>3, <3>5, <3>6, <3>7 DEF UploadInv
  <2> QED
    BY <1>3, <2>2, <2>3, <2>4, <2>5, <2>6, Zenon DEF MessageStep
<1> QED
  BY <1>2, <1>3

\* The other steps
LEMMA UploadOther ==
    ASSUME TypeOK, MidInv, UploadInv, OtherStep
    PROVE  UploadInv'
<1>1. \A x \in Messages : \A b \in Blobs[x] : b \in {"main", "thumbnail"} /\ b \in Entries
  BY OutgoingAssumption DEF Entries
<1>2. \A x \in Messages : stage[x] = "uploading" =>
          \A b \in Blobs[x] : result[x][b] = "busy" => b \in InFlight(x)
  BY DEF InFlight
<1>3. ASSUME NEW c \in Conversations, SoftClear(c) PROVE UploadInv'
  <2> DEFINE ofC == {x \in Messages : Conv[x] = c}
  <2>1. /\ Abort(ofC, "gone") /\ UNCHANGED <<result, stage, status, shutdown>> /\ row' = row \ ofC
        /\ ofC \in SUBSET Messages /\ "gone" \in Signals \ {"no"}
    BY <1>3, AbortSteps, Literals, Zenon DEF SoftClear, Aborts
  <2> HIDE DEF ofC
  <2>2. \A x \in Messages, e \in Entries :
            signal'[x][e] = IF x \in ofC /\ e \in InFlight(x) /\ signal[x][e] = "no"
                            THEN "gone" ELSE signal[x][e]
    BY <2>1, AbortSignals
  <2>3. \A x \in Messages \ ofC : Live(x) => Live(x)'
    BY <2>1 DEF Live
  <2> QED
    BY <1>1, <1>2, <2>1, <2>2, <2>3 DEF UploadInv
<1>4. CASE Stop
  <2>1. Abort(Messages, "interrupted") /\ UNCHANGED <<result, stage>>
    BY <1>4, AbortSteps DEF Stop, Aborts
  <2>2. \A x \in Messages, e \in Entries :
            signal'[x][e] = IF x \in Messages /\ e \in InFlight(x) /\ signal[x][e] = "no"
                            THEN "interrupted" ELSE signal[x][e]
    <3>1. Messages \in SUBSET Messages /\ "interrupted" \in Signals \ {"no"}
      BY DEF Signals
    <3> QED
      BY <2>1, <3>1, AbortSignals
  <2> QED
    BY <1>1, <1>2, <2>1, <2>2 DEF UploadInv
<1>5. CASE Reconnects \/ \E c \in Conversations : Leave(c)
  <2>1. UNCHANGED <<row, status, stage, signal, result, shutdown>>
    BY <1>5 DEF Reconnects, ConnectionBreaks, Replaced, Leave, durable, job
  <2> QED
    BY <2>1, UploadKept DEF Live
<1>6. CASE Crash \/ Recover
  <2>1. \A x \in Messages : stage'[x] # "uploading"
    BY <1>6 DEF Crash, Recover
  <2> QED
    BY <2>1 DEF UploadInv
<1> QED
  BY <1>3, <1>4, <1>5, <1>6, Zenon DEF OtherStep

\* Only a job that holds a slot, and whose process does not shut down, uploads.
LEMMA StageUploads ==
    ASSUME TypeOK, NewInv, MidInv, WaiterInv, SignalInv, NEW m \in Messages, MessageStep(m),
           shutdown
    PROVE  \A x \in Messages : stage'[x] = "uploading" => stage[x] = "uploading"
<1>1. CASE \E s \in Stages : JobStep(m, s)
  <2>1. PICK s \in Stages : JobStep(m, s)
    BY <1>1
  <2>2. /\ stage'[m] = s
        /\ \A x \in Messages \ {m} : stage'[x] = "uploading" => stage[x] = "uploading"
    BY <2>1, JobStage
  <2>3. s # "uploading"
    BY <2>1 DEF JobStep, Outcome, Ends, Hands, Fails, Stays
  <2> QED
    BY <2>2, <2>3
<1>2. CASE \E b \in Blobs[m] : BlobStep(m, b)
  <2>1. UNCHANGED uploadRest
    BY <1>2, BlobForm
  <2> QED
    BY <2>1 DEF uploadRest
<1>3. CASE Enroll(m) \/ SendStep(m) \/ Remove(m)
  BY <1>3, QuietSteps, AbortSteps DEF Quiet, job, Aborts
<1>4. CASE Persist(m) \/ ClearFailed(m)
  <2>1. stage' \in {stage, [stage EXCEPT ![m] = "queued"], [stage EXCEPT ![m] = "none"]}
    BY <1>4 DEF Persist, ClearFailed, Ended, job
  <2> QED
    BY <2>1 DEF TypeOK
<1> QED
  BY <1>1, <1>2, <1>3, <1>4, Zenon DEF MessageStep

\* A blob ID is only stored at the end of an upload that was not cancelled.
LEMMA StoredOnlyLive ==
    ASSUME TypeOK, UploadInv, NEW m \in Messages, MessageStep(m), NEW x \in Messages,
           uploaded'[x] # uploaded[x]
    PROVE  Live(x) /\ ~shutdown
<1>1. CASE \E b \in Blobs[m] : BlobUploaded(m, b)
  <2>1. PICK b \in Blobs[m] : BlobUploaded(m, b)
    BY <1>1
  <2>2. /\ ~Ready /\ stage[m] = "uploading" /\ b \in InFlight(m)
        /\ uploaded' = [uploaded EXCEPT ![m] = @ \cup {b}]
    BY <2>1 DEF BlobUploaded, Uploading, Event
  <2>3. x = m
    BY <2>2 DEF TypeOK
  <2>4. signal[m][b] = "no"
    BY <2>2 DEF Ready
  <2>5. result[m][b] = "busy"
    BY <2>2 DEF InFlight
  <2> QED
    BY <2>2, <2>3, <2>4, <2>5 DEF UploadInv
<1>2. CASE ~\E b \in Blobs[m] : BlobUploaded(m, b)
  <2>1. uploaded' = uploaded
    BY <1>2 DEF MessageStep, Enroll, Persist, ClearFailed, SendStep, TaskRuns, TaskWrites,
       TaskAcked, ClearRow, sendRest, Remove, JobStep, jobRest, BlobStep, BlobFailed, BlobRefused,
       BlobCancelled
  <2> QED
    BY <2>1
<1> QED
  BY <1>1, <1>2

\* CancelIsFinal, for one step
LEMMA CancelStep ==
    ASSUME TypeOK, LaneInv, NewInv, MidInv, WaiterInv, SignalInv, UploadInv, [Next]_vars
    PROVE  \A m \in Messages :
               /\ shutdown /\ stage'[m] = "uploading" => stage[m] = "uploading"
               /\ uploaded'[m] # uploaded[m] => Live(m) /\ ~shutdown
<1>1. CASE UNCHANGED vars
  BY <1>1 DEF vars, durable, job
<1>2. CASE \E n \in Messages : MessageStep(n)
  BY <1>2, StageUploads, StoredOnlyLive
<1>3. CASE OtherStep
  <2>1. uploaded' = uploaded
    BY <1>3 DEF OtherStep, SoftClear, Leave, Reconnects, ConnectionBreaks, Replaced, Stop, Crash,
       Recover, durable
  <2>2. \A m \in Messages : stage'[m] \in {stage[m], "none", "queued"}
    BY <1>3 DEF OtherStep, SoftClear, Leave, Reconnects, ConnectionBreaks, Replaced, Stop, Crash,
       Recover, job
  <2> QED
    BY <2>1, <2>2
<1> QED
  BY <1>1, <1>2, <1>3, NextForm

-----------------------------------------------------------------------------
\* No message is stranded

\* NeverStranded without the lane: that a lane and a task never own the same message
\* follows from LaneInv and TaskInv.
KeptInv ==
    \A m \in Messages :
        /\ status[m] = "unsent" /\ m \notin withdrawn => m \in row
        /\ up /\ ~shutdown /\ Live(m) => stage[m] # "none" \/ OwnedByTask(m) \/ m \in orphans

\* A message that is kept and to be sent is owned once, or is one whose scheduling threw.
LEMMA OneOwner ==
    ASSUME TypeOK, LaneInv, TaskInv, KeptInv, OrphanInv
    PROVE  NeverStranded
<1> SUFFICES ASSUME NEW m \in Messages, up, ~shutdown, Live(m)
             PROVE  IF m \in orphans THEN ~OwnedByLane(m) /\ ~OwnedByTask(m)
                                     ELSE OwnedByLane(m) # OwnedByTask(m)
  BY Zenon DEF NeverStranded, KeptInv
<1>1. m \notin orphans => stage[m] # "none" \/ OwnedByTask(m)
  BY DEF KeptInv
<1>2. OwnedByLane(m) <=> stage[m] # "none"
  BY OutgoingAssumption DEF LaneInv, OwnedByLane
<1>3. OwnedByTask(m) => stage[m] = "none"
  BY DEF TaskInv, OwnedByTask
<1>4. m \in orphans => stage[m] = "none" /\ ~OwnedByTask(m)
  BY DEF OrphanInv
<1> QED
  BY <1>1, <1>2, <1>3, <1>4, Zenon

\* Which messages are added to those whose scheduling threw
LEMMA OrphansForm ==
    ASSUME TypeOK, WaiterInv, SignalInv, NEW m \in Messages, MessageStep(m)
    PROVE  \/ orphans' = orphans
           \/ /\ orphans' = orphans \cup {m} /\ tasks' = tasks
              /\ stage[m] # "none" /\ stage'[m] = "none"
<1>1. CASE SendStep(m)
  BY <1>1, SendForm DEF sendRest
<1>2. CASE \E s \in Stages : JobStep(m, s)
  <2>1. PICK s \in Stages : JobStep(m, s)
    BY <1>2
  <2>2. stage[m] # "none" /\ Outcome(m, s) /\ stage'[m] = s
    BY <2>1, JobStage DEF JobStep
  <2>3. orphans' = orphans \/ (orphans' = orphans \cup {m} /\ tasks' = tasks /\ s = "none")
    BY <2>2 DEF Outcome, Ends, Hands, Fails, Stays, Schedule
  <2> QED
    BY <2>2, <2>3
<1>3. CASE \E b \in Blobs[m] : BlobStep(m, b)
  <2>1. UNCHANGED uploadRest
    BY <1>3, BlobForm
  <2> QED
    BY <2>1 DEF uploadRest
<1>4. CASE Enroll(m) \/ Persist(m) \/ ClearFailed(m) \/ Remove(m)
  BY <1>4 DEF Enroll, Persist, ClearFailed, Remove
<1> QED
  BY <1>1, <1>2, <1>3, <1>4, Zenon DEF MessageStep

\* A row goes when its message is not to be sent, or was not before.
LEMMA RowGone ==
    ASSUME TypeOK, TaskInv, NewInv, SignalInv, NEW m \in Messages, MessageStep(m), m \in row,
           m \notin row'
    PROVE  ~Live(m) \/ status'[m] # "unsent"
<1>1. CASE ClearFailed(m)
  BY <1>1 DEF ClearFailed, Live
<1>2. CASE SendStep(m)
  BY <1>2, SendForm DEF GoesOn, Dismisses, Resolves, Clears, TaskInv
<1>3. CASE Remove(m)
  BY <1>3 DEF Remove, TypeOK
<1>4. CASE \E s \in Stages : JobStep(m, s)
  BY <1>4 DEF JobStep, Outcome, Ends, Hands, Fails, Stays, Schedule
<1>5. CASE \E b \in Blobs[m] : BlobStep(m, b)
  <2>1. UNCHANGED uploadRest
    BY <1>5, BlobForm
  <2> QED
    BY <2>1 DEF uploadRest
<1>6. CASE Enroll(m) \/ Persist(m)
  BY <1>6 DEF Enroll, Persist
<1> QED
  BY <1>1, <1>2, <1>3, <1>4, <1>5, <1>6, Zenon DEF MessageStep

\* A message that is still to be sent stays with its job or its task, or goes from
\* the one to the other.
LEMMA OwnerStays ==
    ASSUME TypeOK, TaskInv, NewInv, MidInv, WaiterInv, SignalInv, KeptInv,
           NEW m \in Messages, MessageStep(m), ~shutdown, Live(m)'
    PROVE  stage'[m] # "none" \/ OwnedByTask(m)' \/ m \in orphans'
<1>1. up /\ (Live(m) => stage[m] # "none" \/ OwnedByTask(m) \/ m \in orphans)
  BY StepIdle DEF KeptInv
<1>2. CASE Enroll(m)
  BY <1>2 DEF Enroll, Live, TypeOK
<1>3. CASE Persist(m)
  <2>1. stage' = [stage EXCEPT ![m] = "queued"]
    BY <1>3 DEF Persist
  <2> QED
    BY <2>1 DEF TypeOK
<1>4. CASE ClearFailed(m) \/ Remove(m)
  BY <1>4 DEF ClearFailed, Remove, Live
<1>5. CASE SendStep(m)
  <2>1. stage' = stage
    BY <1>5, QuietSteps DEF Quiet, job
  <2>2. CASE GoesOn(m)
    <3>1. orphans' = orphans
      BY <1>5, SendForm DEF sendRest
    <3> QED
      BY <1>1, <2>1, <2>2, <3>1 DEF GoesOn, OwnedByTask, Live
  <2>3. CASE ~GoesOn(m)
    BY <1>5, <2>3, SendForm DEF Dismisses, Resolves, Clears, Live, TypeOK
  <2> QED
    BY <2>2, <2>3
<1>6. CASE \E s \in Stages : JobStep(m, s)
  <2>1. PICK s \in Stages : JobStep(m, s)
    BY <1>6
  <2>2. Outcome(m, s) /\ stage'[m] = s
    BY <2>1, JobStage DEF JobStep
  <2>3. CASE Ends(m, s)
    BY <2>3 DEF Ends, Live
  <2>4. CASE Hands(m, s)
    <3>1. CASE erred
      BY <2>4, <3>1 DEF Hands, Schedule
    <3>2. CASE ~erred
      <4>1. tasks \in Seq(Messages) /\ tasks' = Append(tasks, m)
        BY <2>4, <3>2 DEF Hands, Schedule, TypeOK
      <4>2. \E j \in DOMAIN tasks' : tasks'[j] = m
        BY <4>1, AppendElements
      <4> QED
        BY <4>2 DEF OwnedByTask
    <3> QED
      BY <3>1, <3>2
  <2>5. CASE Fails(m, s) \/ Stays(m, s)
    BY <2>2, <2>5 DEF Fails, Stays
  <2> QED
    BY <2>2, <2>3, <2>4, <2>5 DEF Outcome
<1>7. CASE \E b \in Blobs[m] : BlobStep(m, b)
  <2>1. UNCHANGED uploadRest /\ stage[m] = "uploading"
    BY <1>7, BlobForm
  <2> QED
    BY <2>1 DEF uploadRest
<1> QED
  BY <1>2, <1>3, <1>4, <1>5, <1>6, <1>7, Zenon DEF MessageStep

\* A step of one message leaves the jobs of the others, or lets them go on.
LEMMA StageElsewhere ==
    ASSUME TypeOK, WaiterInv, SignalInv, NEW m \in Messages, MessageStep(m)
    PROVE  \A x \in Messages \ {m} : stage[x] # "none" => stage'[x] # "none"
<1>1. CASE \E s \in Stages : JobStep(m, s)
  BY <1>1, JobStage
<1>2. CASE \E b \in Blobs[m] : BlobStep(m, b)
  <2>1. UNCHANGED uploadRest
    BY <1>2, BlobForm
  <2> QED
    BY <2>1 DEF uploadRest
<1>3. CASE Enroll(m) \/ SendStep(m) \/ Remove(m)
  BY <1>3, QuietSteps, AbortSteps DEF Quiet, job, Aborts
<1>4. CASE Persist(m) \/ ClearFailed(m)
  <2>1. stage' \in {stage, [stage EXCEPT ![m] = "queued"], [stage EXCEPT ![m] = "none"]}
    BY <1>4 DEF Persist, ClearFailed, Ended, job
  <2> QED
    BY <2>1 DEF TypeOK
<1> QED
  BY <1>1, <1>2, <1>3, <1>4, Zenon DEF MessageStep

\* Messages are kept over the steps of a message.
LEMMA KeptMessage ==
    ASSUME TypeOK, TaskInv, NewInv, MidInv, WaiterInv, SignalInv, KeptInv,
           NEW m \in Messages, MessageStep(m)
    PROVE  KeptInv'
<1>1. up /\ up' /\ shutdown' = shutdown /\ withdrawn' = withdrawn
  BY StepIdle
<1>2. \A x \in Messages : status'[x] = "unsent" /\ x \notin withdrawn' => x \in row'
  <2> SUFFICES ASSUME NEW x \in Messages, status'[x] = "unsent", x \notin withdrawn
               PROVE  x \in row'
    BY <1>1
  <2>1. CASE Enroll(m) \/ Persist(m)
    <3>1. /\ row \subseteq row'
          /\ x # m => status[x] = "unsent"
          /\ x = m => x \in row'
      BY <2>1, LiveMessage DEF Enroll, Persist, TypeOK
    <3> QED
      BY <3>1 DEF KeptInv
  <2>2. CASE ~Enroll(m) /\ ~Persist(m)
    <3>1. OnlyLess /\ row \ row' \subseteq {m}
      BY <2>2, DataMessage
    <3>2. status[x] = "unsent" /\ x \in row
      BY <3>1 DEF OnlyLess, KeptInv
    <3> QED
      BY <3>1, <3>2, RowGone DEF Live
  <2> QED
    BY <2>1, <2>2
<1>3. \A x \in Messages : ~shutdown' /\ Live(x)'
          => stage'[x] # "none" \/ OwnedByTask(x)' \/ x \in orphans'
  <2> SUFFICES ASSUME NEW x \in Messages, ~shutdown, Live(x)'
               PROVE  stage'[x] # "none" \/ OwnedByTask(x)' \/ x \in orphans'
    BY <1>1
  <2>1. CASE x = m
    BY <2>1, OwnerStays
  <2>2. CASE x # m
    <3>1. Live(x)
      BY <2>2, LiveMessage
    <3>2. OwnedByTask(x)' <=> OwnedByTask(x)
      BY <2>2, TasksForm, TasksOf
    <3>3. stage[x] # "none" => stage'[x] # "none"
      BY <2>2, StageElsewhere
    <3>4. orphans \subseteq orphans'
      BY OrphansForm
    <3> QED
      BY <1>1, <3>1, <3>2, <3>3, <3>4 DEF KeptInv
  <2> QED
    BY <2>1, <2>2
<1> QED
  BY <1>2, <1>3 DEF KeptInv

\* Messages are kept over the other steps: a conversation that is cleared
\* withdraws them, and a restart dispatches them again.
LEMMA KeptOther ==
    ASSUME TypeOK, MidInv, KeptInv, OtherStep
    PROVE  KeptInv'
<1>1. row' \subseteq row /\ status' = status
  BY DataOther
<1>2. CASE (\E c \in Conversations : SoftClear(c) \/ Leave(c)) \/ Reconnects \/ Stop
  <2>1. /\ UNCHANGED <<stage, tasks, up, orphans>> /\ (shutdown => shutdown')
        /\ withdrawn \subseteq withdrawn'
        /\ \A x \in row \ row' : status[x] = "unsent" => x \in withdrawn'
    BY <1>2 DEF SoftClear, Leave, Reconnects, ConnectionBreaks, Replaced, Stop, job, sending,
       durable, history,
       TypeOK
  <2> QED
    BY <1>1, <2>1 DEF KeptInv, Live, OwnedByTask
<1>3. CASE Crash
  BY <1>3 DEF Crash, KeptInv, durable
<1>4. CASE Recover
  <2>1. /\ row' = {x \in row : Live(x)} /\ withdrawn' = withdrawn
        /\ \A x \in Messages : x \in row' => stage'[x] = "queued"
    BY <1>4 DEF Recover, history
  <2> QED
    BY <1>1, <2>1 DEF KeptInv, Live
<1> QED
  BY <1>2, <1>3, <1>4, Zenon DEF OtherStep

\* Only composing and failing begin a pair of writes.
LEMMA MidForm ==
    ASSUME TypeOK, SignalInv, NEW m \in Messages, MessageStep(m), ~Enroll(m)
    PROVE  mid' = None \/ (mid' = m /\ status'[m] = "failed")
<1>1. CASE Persist(m) \/ ClearFailed(m)
  BY <1>1 DEF Persist, ClearFailed
<1>2. CASE ~Persist(m) /\ ~ClearFailed(m)
  <2>1. mid = None
    BY <1>2, StepIdle DEF Idle
  <2>2. CASE SendStep(m)
    BY <2>1, <2>2, SendForm DEF GoesOn, Dismisses, Resolves, Clears, TypeOK
  <2>3. CASE \E s \in Stages : JobStep(m, s)
    BY <2>1, <2>3 DEF JobStep, Outcome, Ends, Hands, Fails, Stays, Schedule, TypeOK
  <2>4. CASE \E b \in Blobs[m] : BlobStep(m, b)
    <3>1. UNCHANGED uploadRest
      BY <2>4, BlobForm
    <3> QED
      BY <2>1, <3>1 DEF uploadRest
  <2>5. CASE Remove(m)
    BY <2>1, <2>5 DEF Remove
  <2> QED
    BY <1>2, <2>2, <2>3, <2>4, <2>5, Zenon DEF MessageStep
<1> QED
  BY <1>1, <1>2

\* Only the second write of composing gives a message without a job one.
LEMMA StageStays ==
    ASSUME TypeOK, WaiterInv, SignalInv, NEW m \in Messages, MessageStep(m),
           NEW x \in Messages, stage[x] = "none", x = m => ~Persist(m)
    PROVE  stage'[x] = "none"
<1>1. CASE \E s \in Stages : JobStep(m, s)
  <2>1. PICK s \in Stages : JobStep(m, s)
    BY <1>1
  <2>2. x # m
    BY <2>1 DEF JobStep
  <2> QED
    BY <2>1, <2>2, JobStage
<1>2. CASE \E b \in Blobs[m] : BlobStep(m, b)
  <2>1. UNCHANGED uploadRest
    BY <1>2, BlobForm
  <2> QED
    BY <2>1 DEF uploadRest
<1>3. CASE Enroll(m) \/ SendStep(m) \/ Remove(m)
  BY <1>3, QuietSteps, AbortSteps DEF Quiet, job, Aborts
<1>4. CASE Persist(m)
  <2>1. stage' \in {stage, [stage EXCEPT ![m] = "queued"]}
    BY <1>4 DEF Persist
  <2> QED
    BY <1>4, <2>1 DEF TypeOK
<1>5. CASE ClearFailed(m)
  <2>1. stage' \in {stage, [stage EXCEPT ![m] = "none"]}
    BY <1>5 DEF ClearFailed, Ended, job
  <2> QED
    BY <2>1 DEF TypeOK
<1> QED
  BY <1>1, <1>2, <1>3, <1>4, <1>5, Zenon DEF MessageStep

\* Those whose scheduling threw are left alone, over the steps of a message.
LEMMA OrphanMessage ==
    ASSUME TypeOK, TaskInv, NewInv, MidInv, WaiterInv, SignalInv, OrphanInv,
           NEW m \in Messages, MessageStep(m)
    PROVE  OrphanInv'
<1>1. up /\ up'
  BY StepIdle
<1>2. ASSUME NEW x \in orphans
      PROVE  /\ stage'[x] = "none" /\ ~OwnedByTask(x)'
             /\ status'[x] # "new" /\ ~(mid' = x /\ status'[x] = "absent")
  <2>1. /\ x \in Messages /\ stage[x] = "none" /\ ~OwnedByTask(x)
        /\ status[x] # "new" /\ ~(mid = x /\ status[x] = "absent")
    BY <1>2 DEF OrphanInv, TypeOK
  <2>2. x = m => ~Enroll(m) /\ ~Persist(m)
    BY <2>1 DEF Enroll, Persist
  <2>3. status'[x] # "new"
    <3>1. CASE Enroll(m) \/ Persist(m)
      BY <2>1, <2>2, <3>1 DEF Enroll, Persist, TypeOK
    <3>2. CASE ~Enroll(m) /\ ~Persist(m)
      BY <2>1, <3>2, DataMessage DEF OnlyLess
    <3> QED
      BY <3>1, <3>2
  <2>4. ~(mid' = x /\ status'[x] = "absent")
    <3>1. CASE Enroll(m)
      BY <2>2, <3>1 DEF Enroll
    <3>2. CASE ~Enroll(m)
      BY <2>1, <3>2, MidForm, OutgoingAssumption DEF None
    <3> QED
      BY <3>1, <3>2
  <2>5. stage'[x] = "none"
    BY <2>1, <2>2, StageStays
  <2>6. ~OwnedByTask(x)'
    <3>1. CASE x # m
      BY <2>1, <3>1, TasksForm, TasksOf
    <3>2. CASE x = m
      <4>1. tasks' = tasks \/ TaskOver(m)
        BY <2>1, <3>2, TasksForm DEF TaskAdded
      <4>2. tasks' = tasks
        BY <2>1, <3>2, <4>1 DEF TaskOver, OwnedByTask, TypeOK
      <4> QED
        BY <2>1, <4>2 DEF OwnedByTask
    <3> QED
      BY <3>1, <3>2
  <2> QED
    BY <2>3, <2>4, <2>5, <2>6
<1>3. CASE orphans' = orphans
  BY <1>1, <1>2, <1>3 DEF OrphanInv
<1>4. CASE /\ orphans' = orphans \cup {m} /\ tasks' = tasks
           /\ stage[m] # "none" /\ stage'[m] = "none"
  <2>1. ~OwnedByTask(m)'
    BY <1>4 DEF TaskInv, OwnedByTask
  <2>2. status[m] # "new"
    BY <1>4 DEF NewInv, Fresh
  <2>3. ~Enroll(m) /\ ~Persist(m)
    BY <1>4, <2>2, MidNotNone DEF Enroll, Persist, MidInv, Fresh
  <2>4. status'[m] # "new" /\ ~(mid' = m /\ status'[m] = "absent")
    BY <2>2, <2>3, DataMessage, MidForm, OutgoingAssumption DEF OnlyLess, None
  <2> QED
    BY <1>1, <1>2, <1>4, <2>1, <2>4 DEF OrphanInv
<1> QED
  BY <1>3, <1>4, OrphansForm

\* Over the other steps
LEMMA OrphanOther ==
    ASSUME TypeOK, MidInv, OrphanInv, OtherStep
    PROVE  OrphanInv'
<1>1. status' = status
  BY DataOther
<1>2. CASE (\E c \in Conversations : SoftClear(c) \/ Leave(c)) \/ Reconnects \/ Stop
  <2>1. UNCHANGED <<stage, tasks, up, orphans, mid>>
    BY <1>2 DEF SoftClear, Leave, Reconnects, ConnectionBreaks, Replaced, Stop, job, sending
  <2> QED
    BY <1>1, <2>1 DEF OrphanInv, OwnedByTask
<1>3. CASE Crash
  BY <1>3 DEF Crash, OrphanInv
<1>4. CASE Recover
  <2>1. orphans' = {}
    BY <1>4 DEF Recover, OrphanInv
  <2> QED
    BY <2>1 DEF OrphanInv
<1> QED
  BY <1>2, <1>3, <1>4, Zenon DEF OtherStep

-----------------------------------------------------------------------------
\* The order of sending

\* The time of a message is that of its enrolling.
LEMMA TimeKept ==
    ASSUME TypeOK, SignalInv, NEW m \in Messages, MessageStep(m), NEW x \in Messages,
           status[x] # "new"
    PROVE  createdAt'[x] = createdAt[x]
<1>1. CASE Enroll(m)
  <2>1. status[m] = "new" /\ \E at : createdAt' = [createdAt EXCEPT ![m] = at]
    BY <1>1, Zenon DEF Enroll
  <2> QED
    BY <2>1 DEF TypeOK
<1>2. CASE ~Enroll(m)
  BY <1>2 DEF MessageStep, Persist, ClearFailed, SendStep, TaskRuns, TaskWrites, TaskAcked,
     ClearRow, sendRest, Remove, JobStep, jobRest, BlobStep, BlobUploaded, BlobFailed,
     BlobRefused, BlobCancelled, uploadRest
<1> QED
  BY <1>1, <1>2

\* What becomes of a lane
LEMMA LaneForm ==
    ASSUME TypeOK, SignalInv, LaneInv, NEW m \in Messages, MessageStep(m)
    PROVE  \/ lane' = lane
           \/ lane' = [lane EXCEPT ![Conv[m]] = Tail(@)] /\ stage[m] # "none"
           \/ lane' = [lane EXCEPT ![Conv[m]] = Append(@, m)] /\ Persist(m)
<1>1. CASE \E s \in Stages : JobStep(m, s)
  BY <1>1, OutcomeLane, Zenon DEF JobStep
<1>2. CASE \E b \in Blobs[m] : BlobStep(m, b)
  <2>1. UNCHANGED uploadRest
    BY <1>2, BlobForm
  <2> QED
    BY <2>1 DEF uploadRest
<1>3. CASE Enroll(m) \/ SendStep(m) \/ Remove(m)
  BY <1>3, QuietSteps, AbortSteps DEF Quiet, Aborts
<1>4. CASE Persist(m)
  BY <1>4, Zenon DEF Persist
<1>5. CASE ClearFailed(m)
  <2>1. CASE stage[m] = "failing"
    BY <1>5, <2>1 DEF ClearFailed, Forget
  <2>2. CASE stage[m] # "failing"
    BY <1>5, <2>2 DEF ClearFailed
  <2> QED
    BY <2>1, <2>2
<1> QED
  BY <1>1, <1>2, <1>3, <1>4, <1>5, Zenon DEF MessageStep

\* A message that is being persisted is the last of its lane.
LEMMA LastEntered ==
    ASSUME TypeOK, LaneInv, NewInv, MidInv, NewOrder, NEW m \in Messages, Persist(m)
    PROVE  \A i \in DOMAIN lane[Conv[m]] : ~Before(m, lane[Conv[m]][i])
<1> DEFINE k == Conv[m]
<1> SUFFICES ASSUME NEW i \in DOMAIN lane[k] PROVE ~Before(m, lane[k][i])
  OBVIOUS
<1>1. /\ lane[k][i] \in Messages /\ Conv[lane[k][i]] = k /\ stage[lane[k][i]] # "none"
  BY OutgoingAssumption DEF LaneInv, TypeOK
<1>2. mid = m /\ status[m] = "absent"
  BY DEF Persist
<1>3. Fresh(m)
  BY <1>2, MidNotNone DEF MidInv
<1>4. status[lane[k][i]] # "new"
  BY <1>1 DEF Fresh, NewInv
<1> QED
  BY <1>1, <1>2, <1>4 DEF NewOrder, Earlier, Before

\* A lane stays in order, as its first job leaves and the last message
\* composed enters.
LEMMA LaneOrderMessage ==
    ASSUME TypeOK, LaneInv, NewInv, MidInv, SignalInv, LaneOrder, NewOrder,
           NEW m \in Messages, MessageStep(m)
    PROVE  LaneOrder'
<1> DEFINE k == Conv[m]
           q == lane[k]
<1>1. k \in Conversations /\ q \in Seq(Messages) /\ \A c \in Conversations :
          lane[c] \in Seq(Messages)
  BY OutgoingAssumption DEF TypeOK
<1>2. \A c \in Conversations : \A i, j \in DOMAIN lane[c] : i < j => ~Before(lane[c][j], lane[c][i])
  BY DEF LaneOrder
<1>3. \A c \in Conversations : \A i \in DOMAIN lane[c] :
          createdAt'[lane[c][i]] = createdAt[lane[c][i]]
  <2> SUFFICES ASSUME NEW c \in Conversations, NEW i \in DOMAIN lane[c]
               PROVE  createdAt'[lane[c][i]] = createdAt[lane[c][i]]
    OBVIOUS
  <2>1. lane[c][i] \in Messages /\ stage[lane[c][i]] # "none"
    BY <1>1 DEF LaneInv
  <2> QED
    BY <2>1, TimeKept DEF NewInv, Fresh
<1>4. SUFFICES \A c \in Conversations : \A i, j \in DOMAIN lane'[c] :
          /\ i < j => ~Before(lane'[c][j], lane'[c][i])
          /\ createdAt'[lane'[c][i]] = createdAt[lane'[c][i]]
  BY DEF LaneOrder, Before, Earlier
<1>5. CASE lane' = lane
  BY <1>2, <1>3, <1>5
<1>6. ASSUME lane' = [lane EXCEPT ![k] = Tail(@)], stage[m] # "none"
      PROVE  \A c \in Conversations : \A i, j \in DOMAIN lane'[c] :
                 /\ i < j => ~Before(lane'[c][j], lane'[c][i])
                 /\ createdAt'[lane'[c][i]] = createdAt[lane'[c][i]]
  <2>1. lane'[k] = Tail(q) /\ \A c \in Conversations \ {k} : lane'[c] = lane[c]
    BY <1>1, <1>6 DEF TypeOK
  <2>2. q # <<>>
    BY <1>6, LaneTail
  <2>3. /\ \A i, j \in DOMAIN q : i < j => ~Before(q[j], q[i])
        /\ \A i \in DOMAIN q : createdAt'[q[i]] = createdAt[q[i]]
    BY <1>1, <1>2, <1>3
  <2> HIDE DEF q
  <2>4. \A j \in DOMAIN Tail(q) : j \in Nat /\ j + 1 \in DOMAIN q /\ Tail(q)[j] = q[j + 1]
    BY <1>1, <2>2, TailElements
  <2>5. \A i, j \in DOMAIN Tail(q) : i < j => ~Before(Tail(q)[j], Tail(q)[i])
    BY <2>3, <2>4
  <2>6. \A i \in DOMAIN Tail(q) : createdAt'[Tail(q)[i]] = createdAt[Tail(q)[i]]
    BY <2>3, <2>4
  <2>7. \A c \in Conversations \ {k} : \A i, j \in DOMAIN lane'[c] :
            /\ i < j => ~Before(lane'[c][j], lane'[c][i])
            /\ createdAt'[lane'[c][i]] = createdAt[lane'[c][i]]
    BY <1>2, <1>3, <2>1
  <2>8. \A i, j \in DOMAIN lane'[k] :
            /\ i < j => ~Before(lane'[k][j], lane'[k][i])
            /\ createdAt'[lane'[k][i]] = createdAt[lane'[k][i]]
    BY <2>1, <2>5, <2>6
  <2> HIDE DEF k
  <2> QED
    BY <2>7, <2>8
<1>7. ASSUME lane' = [lane EXCEPT ![k] = Append(@, m)], Persist(m)
      PROVE  \A c \in Conversations : \A i, j \in DOMAIN lane'[c] :
                 /\ i < j => ~Before(lane'[c][j], lane'[c][i])
                 /\ createdAt'[lane'[c][i]] = createdAt[lane'[c][i]]
  <2>1. lane'[k] = Append(q, m) /\ \A c \in Conversations \ {k} : lane'[c] = lane[c]
    BY <1>1, <1>7 DEF TypeOK
  <2>2. \A i \in DOMAIN q : ~Before(m, q[i])
    BY <1>7, LastEntered
  <2>3. Len(q) \in Nat /\ DOMAIN q = 1..Len(q)
    BY <1>1
  <2>4. /\ \A i, j \in DOMAIN q : i < j => ~Before(q[j], q[i])
        /\ \A i \in DOMAIN q : createdAt'[q[i]] = createdAt[q[i]]
    BY <1>1, <1>2, <1>3
  <2>5. createdAt'[m] = createdAt[m]
    BY <1>7, TimeKept DEF Persist
  <2> HIDE DEF q
  <2>6. \A i \in DOMAIN Append(q, m) :
            \/ i \in DOMAIN q /\ Append(q, m)[i] = q[i]
            \/ i = Len(q) + 1 /\ Append(q, m)[i] = m
    BY <1>1, <2>3
  <2>7. \A i, j \in DOMAIN Append(q, m) : i < j => ~Before(Append(q, m)[j], Append(q, m)[i])
    BY <2>2, <2>3, <2>4, <2>6
  <2>8. \A i \in DOMAIN Append(q, m) : createdAt'[Append(q, m)[i]] = createdAt[Append(q, m)[i]]
    BY <2>4, <2>5, <2>6
  <2> QED
    BY <1>2, <1>3, <2>1, <2>7, <2>8
<1> QED
  BY <1>5, <1>6, <1>7, LaneForm

\* Messages of a conversation are enrolled in order.
LEMMA NewOrderMessage ==
    ASSUME TypeOK, NewInv, SignalInv, MidInv, NewOrder, NEW m \in Messages, MessageStep(m)
    PROVE  NewOrder'
<1>1. Messages \subseteq Nat
  BY OutgoingAssumption
<1>2. CASE Enroll(m)
  <2>1. /\ status' = [status EXCEPT ![m] = "absent"] /\ mid' = m /\ status[m] = "new"
        /\ \A n \in Messages : n < m /\ Conv[n] = Conv[m] => status[n] # "new"
    BY <1>2, Zenon DEF Enroll
  <2> SUFFICES ASSUME NEW a \in Messages, NEW n \in Messages, Earlier(a, n),
                      a = m \/ status'[a] = "new"
               PROVE  status'[n] = "new"
    BY <2>1 DEF NewOrder, Earlier
  <2>2. status[a] = "new"
    BY <2>1 DEF TypeOK
  <2>3. status[n] = "new"
    BY <2>2 DEF NewOrder
  <2>4. n # m
    BY <2>1, <2>2, <1>1 DEF Earlier
  <2> QED
    BY <2>1, <2>3, <2>4 DEF TypeOK
<1>3. CASE ~Enroll(m)
  <2>1. \A x \in Messages : status'[x] = "new" <=> status[x] = "new"
    <3>1. CASE Persist(m)
      BY <3>1 DEF Persist, TypeOK
    <3> QED
      BY <1>3, <3>1, DataMessage DEF OnlyLess
  <2>2. \A x \in Messages : ~(mid' = x /\ status'[x] = "absent")
    BY <1>3, MidForm, MidNotNone, OutgoingAssumption DEF None
  <2> QED
    BY <2>1, <2>2 DEF NewOrder, Earlier
<1> QED
  BY <1>2, <1>3

\* Who is handed over was the first of a lane in order; whatever of its conversation is
\* to be sent and was enrolled before has its task, or its scheduling threw.
LEMMA EarlierHandedOver ==
    ASSUME TypeOK, LaneInv, KeptInv, LaneOrder, up, ~shutdown,
           NEW m \in Messages, Head(lane[Conv[m]]) = m,
           NEW x \in Messages, Before(x, m), Live(x)
    PROVE  OwnedByTask(x) \/ x \in orphans
<1> DEFINE q == lane[Conv[m]]
<1>1. Conv[m] \in Conversations /\ Conv[x] = Conv[m] /\ q \in Seq(Messages)
  BY OutgoingAssumption DEF Before, Earlier, TypeOK
<1>2. ASSUME stage[x] # "none" PROVE FALSE
  <2>1. PICK i \in DOMAIN q : q[i] = x
    BY <1>1, <1>2 DEF LaneInv, OwnedByLane
  <2>2. 1 \in DOMAIN q /\ q[1] = m /\ i \in Nat /\ 1 <= i
    BY <1>1, <2>1
  <2>3. x < m /\ x \in Nat /\ m \in Nat
    BY OutgoingAssumption DEF Before, Earlier
  <2>4. CASE i = 1
    BY <2>1, <2>2, <2>3, <2>4
  <2>5. CASE 1 < i
    <3>1. ~Before(q[i], q[1])
      BY <1>1, <2>1, <2>2, <2>5 DEF LaneOrder
    <3> QED
      BY <2>1, <2>2, <3>1
  <2> QED
    BY <2>2, <2>4, <2>5
<1> QED
  BY <1>2 DEF KeptInv

\* A message that is being persisted was not enrolled before one that has a task.
LEMMA PersistedLast ==
    ASSUME TypeOK, NewInv, NewOrder, NEW m \in Messages, Persist(m), NEW n \in Messages,
           Earlier(m, n)
    PROVE  ~OwnedByTask(n)
<1>1. mid = m /\ status[m] = "absent"
  BY DEF Persist
<1>2. status[n] = "new"
  BY <1>1 DEF NewOrder
<1> QED
  BY <1>2 DEF NewInv, Fresh

\* Tasks are scheduled in order.
LEMMA TaskOrderMessage ==
    ASSUME TypeOK, LaneInv, TaskInv, NewInv, MidInv, SignalInv, WaiterInv, KeptInv, LaneOrder,
           NewOrder, TaskOrder,
           NEW m \in Messages, MessageStep(m)
    PROVE  TaskOrder'
<1>1. tasks \in Seq(Messages) /\ \A i \in DOMAIN tasks :
          tasks[i] \in Messages /\ OwnedByTask(tasks[i])
  BY DEF TypeOK, OwnedByTask
<1>2. \A j \in DOMAIN tasks' : tasks'[j] \in Messages
                               /\ (OwnedByTask(tasks'[j]) \/ (tasks'[j] = m /\ Live(m)))
  <2>1. CASE tasks' = tasks
    BY <1>1, <2>1
  <2>2. CASE TaskOver(m)
    <3>1. tasks # <<>> /\ tasks' = Tail(tasks)
      BY <2>2 DEF TaskOver
    <3>2. \A j \in DOMAIN tasks' : \E i \in DOMAIN tasks : tasks'[j] = tasks[i]
      BY <1>1, <3>1, TailElements
    <3> QED
      BY <1>1, <3>2
  <2>3. CASE TaskAdded(m)
    <3>1. tasks' = Append(tasks, m) /\ Live(m)
      BY <2>3 DEF TaskAdded
    <3>2. \A j \in DOMAIN tasks' : tasks'[j] = m \/ \E i \in DOMAIN tasks : tasks'[j] = tasks[i]
      BY <1>1, <3>1, AppendElements
    <3> QED
      BY <1>1, <3>1, <3>2
  <2> QED
    BY <2>1, <2>2, <2>3, TasksForm
<1>3. \A j \in DOMAIN tasks' : createdAt'[tasks'[j]] = createdAt[tasks'[j]]
  <2> SUFFICES ASSUME NEW j \in DOMAIN tasks' PROVE createdAt'[tasks'[j]] = createdAt[tasks'[j]]
    OBVIOUS
  <2>1. tasks'[j] \in Messages /\ status[tasks'[j]] # "new"
    BY <1>2 DEF NewInv, Fresh, Live
  <2> QED
    BY <2>1, TimeKept
<1>4. \A x \in Messages : Live(x)' => Live(x) \/ (x = m /\ Persist(m))
  BY LiveMessage
<1>5. \A x \in Messages : Live(x)' => createdAt'[x] = createdAt[x]
  <2> SUFFICES ASSUME NEW x \in Messages, Live(x)' PROVE createdAt'[x] = createdAt[x]
    OBVIOUS
  <2>1. status[x] # "new"
    BY <1>4 DEF Live, Persist
  <2> QED
    BY <2>1, TimeKept
<1>6. orphans \subseteq orphans'
  BY OrphansForm
<1> SUFFICES ASSUME NEW j \in DOMAIN tasks', NEW x \in Messages, Before(x, tasks'[j]), Live(x)',
                    x \notin orphans
             PROVE  \E i \in DOMAIN tasks' : i < j /\ tasks'[i] = x
  BY <1>3, <1>5, <1>6 DEF TaskOrder, Before, Earlier
<1>7. ASSUME NEW i \in DOMAIN tasks, Before(x, tasks[i])
      PROVE  \E h \in DOMAIN tasks : h < i /\ tasks[h] = x
  <2>1. Live(x)
    BY <1>1, <1>4, <1>7, PersistedLast DEF Before
  <2> QED
    BY <1>7, <2>1 DEF TaskOrder
<1>8. CASE tasks' = tasks
  BY <1>7, <1>8
<1>9. CASE TaskOver(m)
  <2>1. tasks # <<>> /\ Head(tasks) = m /\ tasks' = Tail(tasks) /\ x # m
    BY <1>9 DEF TaskOver
  <2>2. j \in Nat /\ j + 1 \in DOMAIN tasks /\ tasks'[j] = tasks[j + 1]
    BY <1>1, <2>1, TailElements
  <2>3. PICK h \in DOMAIN tasks : h < j + 1 /\ tasks[h] = x
    BY <1>7, <2>2
  <2>4. PICK i \in DOMAIN Tail(tasks) : h = i + 1 /\ Tail(tasks)[i] = tasks[h]
    BY <1>1, <2>1, <2>3, TailElements
  <2>5. i \in Nat
    BY <1>1, <2>1, TailElements
  <2>6. i < j
    BY <2>2, <2>3, <2>4, <2>5
  <2>7. i \in DOMAIN tasks' /\ tasks'[i] = x
    BY <2>1, <2>3, <2>4
  <2> QED
    BY <2>6, <2>7
<1>10. CASE TaskAdded(m)
  <2>1. /\ tasks' = Append(tasks, m) /\ ~shutdown /\ Head(lane[Conv[m]]) = m
        /\ row' = row /\ status' = status
    BY <1>10 DEF TaskAdded
  <2>2. \A i \in DOMAIN tasks : i \in DOMAIN tasks' /\ tasks'[i] = tasks[i] /\ i < Len(tasks) + 1
    BY <1>1, <2>1, AppendElements
  <2>3. CASE j \in DOMAIN tasks
    <3>1. PICK h \in DOMAIN tasks : h < j /\ tasks[h] = x
      BY <1>7, <2>2, <2>3
    <3> QED
      BY <2>2, <3>1
  <2>4. CASE j = Len(tasks) + 1 /\ tasks'[j] = m
    <3>1. Live(x) /\ up
      BY <2>1, StepIdle DEF Live
    <3>2. OwnedByTask(x)
      BY <2>1, <2>4, <3>1, EarlierHandedOver
    <3>3. PICK i \in DOMAIN tasks : tasks[i] = x
      BY <3>2 DEF OwnedByTask
    <3> QED
      BY <2>2, <2>4, <3>3
  <2> QED
    BY <1>1, <2>1, <2>3, <2>4, AppendElements
<1> QED
  BY <1>8, <1>9, <1>10, TasksForm

\* The order over the steps of a message
LEMMA OrderedMessage ==
    ASSUME TypeOK, LaneInv, TaskInv, NewInv, MidInv, SignalInv, WaiterInv, KeptInv, Ordered,
           NEW m \in Messages, MessageStep(m)
    PROVE  Ordered'
<1>1. LaneOrder'
  BY LaneOrderMessage DEF Ordered
<1>2. NewOrder'
  BY NewOrderMessage DEF Ordered
<1>3. TaskOrder'
  BY TaskOrderMessage DEF Ordered
<1> QED
  BY <1>1, <1>2, <1>3 DEF Ordered

\* At a restart the rows are dispatched oldest first.
LEMMA RecoveredOrder ==
    ASSUME TypeOK, Recover
    PROVE  LaneOrder'
<1> SUFFICES ASSUME NEW c \in Conversations, NEW i \in DOMAIN lane'[c],
                    NEW j \in DOMAIN lane'[c], i < j
             PROVE  ~(createdAt[lane'[c][j]] < createdAt[lane'[c][i]])
  BY DEF LaneOrder, Before, Recover
<1> DEFINE q == lane'[c]
<1>1. q \in Seq(Kept(c)) /\ Sorted(q)
  BY RecoveredLanes
<1>2. q[i] \in Messages /\ q[j] \in Messages
  BY <1>1 DEF Kept, TypeOK
<1>3. createdAt[q[i]] \in Nat /\ createdAt[q[j]] \in Nat
  BY <1>2 DEF TypeOK
<1>4. createdAt[q[i]] <= createdAt[q[j]]
  BY <1>1 DEF Sorted
<1> QED
  BY <1>3, <1>4

\* The order over the other steps
LEMMA OrderedOther ==
    ASSUME TypeOK, MidInv, Ordered, OtherStep
    PROVE  Ordered'
<1>1. row' \subseteq row /\ status' = status
  BY DataOther
<1>2. createdAt' = createdAt
  BY DEF OtherStep, SoftClear, Leave, Reconnects, ConnectionBreaks, Replaced, Stop, Crash,
     Recover, durable
<1>3. mid' \in {mid, None}
  BY DEF OtherStep, SoftClear, Leave, Reconnects, ConnectionBreaks, Replaced, Stop, Crash, Recover
<1>4. NewOrder'
  BY <1>1, <1>3, MidNotNone, OutgoingAssumption DEF Ordered, NewOrder, Earlier, None
<1>5. tasks' = <<>> \/ (tasks' = tasks /\ orphans' = orphans)
  BY DEF OtherStep, SoftClear, Leave, Reconnects, ConnectionBreaks, Replaced, Stop, Crash,
     Recover, sending
<1>6. TaskOrder'
  BY <1>1, <1>2, <1>5 DEF Ordered, TaskOrder, Before, Earlier, Live
<1>7. LaneOrder'
  <2>1. CASE Recover
    BY <2>1, RecoveredOrder
  <2>2. CASE ~Recover
    <3>1. \A c \in Conversations : lane'[c] \in {lane[c], <<>>}
      BY <2>2 DEF OtherStep, SoftClear, Leave, Reconnects, ConnectionBreaks, Replaced, Stop, Crash
    <3> QED
      BY <1>2, <3>1 DEF Ordered, LaneOrder, Before, Earlier
  <2> QED
    BY <2>1, <2>2
<1> QED
  BY <1>4, <1>6, <1>7 DEF Ordered

\* Messages are transmitted in order.
LEMMA SentInOrder ==
    ASSUME TypeOK, TaskInv, TaskOrder, NEW m \in Messages, NEW n \in Messages,
           Transmits(n), Before(m, n), Live(m)
    PROVE  m \in orphans
<1>1. tasks # <<>> /\ Head(tasks) = n
  BY DEF Transmits, TaskInv
<1>2. tasks \in Seq(Messages) /\ 1 \in DOMAIN tasks /\ tasks[1] = n
  BY <1>1 DEF TypeOK
<1>3. ASSUME m \notin orphans PROVE FALSE
  <2>1. PICK i \in DOMAIN tasks : i < 1 /\ tasks[i] = m
    BY <1>2, <1>3 DEF TaskOrder
  <2> QED
    BY <1>2, <2>1
<1> QED
  BY <1>3

-----------------------------------------------------------------------------
\* Types, over all steps

\* The steps of a message
LEMMA TypeMessage ==
    ASSUME TypeOK, LaneInv, MidInv, SignalInv, WaiterInv, SlotsConserved, NoStartableWaiter,
           NEW m \in Messages, MessageStep(m)
    PROVE  TypeOK'
BY TypeEnroll, TypePersist, TypeClearFailed, TypeSend, TypeMeddle, TypeJob, TypeBlob, Zenon DEF
   MessageStep

\* The other steps
LEMMA TypeOther ==
    ASSUME TypeOK, OtherStep
    PROVE  TypeOK'
BY TypeMeddle, TypeRest, Zenon DEF OtherStep

-----------------------------------------------------------------------------
\* The inductive invariant

\* All parts together
Inv ==
    /\ TypeOK /\ LaneInv /\ TaskInv /\ NewInv /\ MidInv /\ SignalInv /\ UploadInv /\ WaiterInv
    /\ SlotsConserved /\ NoStartableWaiter /\ KeptInv /\ OrphanInv /\ Ordered

\* The invariant holds when the process starts for the first time.
LEMMA InvInit ==
    ASSUME Init
    PROVE  Inv
<1>1. TypeOK
  <2>1. /\ row = {} /\ createdAt = [m \in Messages |-> 0] /\ status = [m \in Messages |-> "new"]
        /\ uploaded = [m \in Messages |-> {}] /\ left = {} /\ up = TRUE /\ mid = None
        /\ shutdown = FALSE /\ erred = FALSE
    BY Zenon DEF Init
  <2>2. DataTypes /\ FlagTypes
    BY <2>1 DEF DataTypes, FlagTypes, Statuses
  <2>3. LaneTypes /\ JobTypes
    BY Literals, OutgoingAssumption DEF Init, LaneTypes, JobTypes
  <2>4. SlotTypes /\ SendTypes /\ HistoryTypes
    BY OutgoingAssumption DEF Init, SlotTypes, SendTypes, HistoryTypes
  <2> QED
    BY <2>2, <2>3, <2>4, TypeParts, Zenon
<1>2. \A m \in Messages : /\ stage[m] = "none" /\ status[m] = "new"
                          /\ \A e \in Entries : signal[m][e] = "no"
                          /\ \A b \in {"main", "thumbnail"} : result[m][b] = "none"
  BY DEF Init, NoSignal, NoResult
<1>3. LaneInv
  BY <1>2 DEF Init, LaneInv, Once, Working
<1>4. TaskInv /\ NewInv
  BY <1>2 DEF Init, TaskInv, NewInv, Fresh, OwnedByTask, Once
<1>5. MidInv
  BY <1>2 DEF Init, MidInv
<1>6. SignalInv
  BY <1>2 DEF SignalInv, Means, Entries
<1>7. UploadInv
  BY <1>2 DEF UploadInv
<1>8. WaiterInv /\ NoStartableWaiter
  BY <1>2 DEF Init, WaiterInv, NoStartableWaiter, Once
<1>9. SlotsConserved
  <2>1. Holders = {} /\ Holders \cap Large = {}
    BY <1>2 DEF Holders
  <2>2. Cardinality(Holders) = 0 /\ Cardinality(Holders \cap Large) = 0
    BY <2>1, FS_EmptySet, Zenon
  <2> QED
    BY <2>2, OutgoingAssumption DEF Init, SlotsConserved
<1>10. KeptInv
  BY <1>2 DEF Init, KeptInv, Live
<1>11. Ordered /\ OrphanInv
  BY <1>2 DEF Init, Ordered, LaneOrder, NewOrder, TaskOrder, OrphanInv
<1> QED
  BY <1>1, <1>3, <1>4, <1>5, <1>6, <1>7, <1>8, <1>9, <1>10, <1>11, Zenon DEF Inv

\* The steps of a message keep it.
LEMMA InvMessage ==
    ASSUME Inv, NEW m \in Messages, MessageStep(m)
    PROVE  Inv'
<1>1. TypeOK'
  BY TypeMessage, Zenon DEF Inv
<1>2. LaneInv'
  BY LaneMessage, Zenon DEF Inv
<1>3. TaskInv'
  BY TaskMessage, Zenon DEF Inv
<1>4. NewInv'
  BY NewMessage, Zenon DEF Inv
<1>5. MidInv'
  BY MidMessage, Zenon DEF Inv
<1>6. SignalInv'
  BY SignalMessage, Zenon DEF Inv
<1>7. UploadInv'
  BY UploadMessage, Zenon DEF Inv
<1>8. WaiterInv' /\ SlotsConserved' /\ NoStartableWaiter'
  BY SlotMessage, Zenon DEF Inv
<1>9. KeptInv'
  BY KeptMessage, Zenon DEF Inv
<1>10. Ordered' /\ OrphanInv'
  BY OrderedMessage, OrphanMessage, Zenon DEF Inv
<1> QED
  BY <1>1, <1>2, <1>3, <1>4, <1>5, <1>6, <1>7, <1>8, <1>9, <1>10, Zenon DEF Inv

\* So do the other steps.
LEMMA InvOther ==
    ASSUME Inv, OtherStep
    PROVE  Inv'
<1>1. TypeOK'
  BY TypeOther, Zenon DEF Inv
<1>2. LaneInv'
  BY LaneOther, Zenon DEF Inv
<1>3. TaskInv'
  BY TaskOther, Zenon DEF Inv
<1>4. NewInv'
  BY NewOther, Zenon DEF Inv
<1>5. MidInv'
  BY MidOther, Zenon DEF Inv
<1>6. SignalInv'
  BY SignalOther, Zenon DEF Inv
<1>7. UploadInv'
  BY UploadOther, Zenon DEF Inv
<1>8. WaiterInv' /\ SlotsConserved' /\ NoStartableWaiter'
  BY SlotOther, Zenon DEF Inv
<1>9. KeptInv'
  BY KeptOther, Zenon DEF Inv
<1>10. Ordered' /\ OrphanInv'
  BY OrderedOther, OrphanOther, Zenon DEF Inv
<1> QED
  BY <1>1, <1>2, <1>3, <1>4, <1>5, <1>6, <1>7, <1>8, <1>9, <1>10, Zenon DEF Inv

\* So does a step that changes nothing.
LEMMA InvStutter ==
    ASSUME Inv, UNCHANGED vars
    PROVE  Inv'
<1>1. UNCHANGED <<row, createdAt, status, uploaded, left, up, mid, lane, stage, signal, result,
          charged,
                  slotWaiters, running, runningLarge, shutdown, tasks, wire, confirmed, crashes,
                  reconnects, meddling, withdrawn, erred, orphans>>
  BY DEF vars, durable, slots, job, sending, history
<1>2. TypeOK' <=> TypeOK
  BY <1>1, Zenon DEF TypeOK
<1>3. (LaneInv' <=> LaneInv) /\ (TaskInv' <=> TaskInv) /\ (NewInv' <=> NewInv)
  BY <1>1, Zenon DEF LaneInv, TaskInv, NewInv, Fresh, OwnedByLane, OwnedByTask, Live
<1>4. (MidInv' <=> MidInv) /\ (SignalInv' <=> SignalInv) /\ (UploadInv' <=> UploadInv)
  BY <1>1, Zenon DEF MidInv, Fresh, OwnedByTask, SignalInv, Means, UploadInv, Live
<1>5. (WaiterInv' <=> WaiterInv) /\ (SlotsConserved' <=> SlotsConserved)
  BY <1>1, Zenon DEF WaiterInv, SlotsConserved, Holders
<1>6. (NoStartableWaiter' <=> NoStartableWaiter) /\ (KeptInv' <=> KeptInv)
  BY <1>1, Zenon DEF NoStartableWaiter, CanStart, KeptInv, Live, OwnedByTask
<1>7. Ordered' <=> Ordered
  <2>1. LaneOrder' <=> LaneOrder
    BY <1>1 DEF LaneOrder, Before, Earlier
  <2>2. NewOrder' <=> NewOrder
    BY <1>1, Zenon DEF NewOrder
  <2>3. TaskOrder' <=> TaskOrder
    BY <1>1 DEF TaskOrder, Before, Earlier, Live
  <2> QED
    BY <2>1, <2>2, <2>3, Zenon DEF Ordered
<1>8. OrphanInv' <=> OrphanInv
  BY <1>1, Zenon DEF OrphanInv, OwnedByTask
<1> QED
  BY <1>2, <1>3, <1>4, <1>5, <1>6, <1>7, <1>8, Zenon DEF Inv

\* So does every step.
LEMMA InvNext ==
    ASSUME Inv, [Next]_vars
    PROVE  Inv'
<1>1. CASE Next
  <2>1. (\E m \in Messages : MessageStep(m)) \/ OtherStep
    BY <1>1, NextForm, Zenon DEF Inv
  <2> QED
    BY <2>1, InvMessage, InvOther, Zenon
<1> QED
  BY <1>1, InvStutter, Zenon

\* The whole invariant holds in every state that can be reached.
THEOREM InvAlways == Spec => []Inv
<1>1. Init => Inv
  BY InvInit
<1>2. Inv /\ [Next]_vars => Inv'
  BY InvNext
<1> QED
  BY <1>1, <1>2, PTL DEF Spec

-----------------------------------------------------------------------------
\* Theorems

\* Every variable keeps its type, through cancels, crashes and restarts
\* (f1-outgoing-preparation-lane.ts, f1-blob-upload-coordinator.ts).
THEOREM TypeCorrect == Spec => []TypeOK
<1>1. Inv => TypeOK
  BY DEF Inv
<1> QED
  BY <1>1, InvAlways, PTL

\* The upload slots counted as taken are those that jobs hold, and never more
\* than the limits, for any limits (acquireUploadSlot and its release).
THEOREM SlotsNeverLeak == Spec => []SlotsConserved
<1>1. Inv => SlotsConserved
  BY DEF Inv
<1> QED
  BY <1>1, InvAlways, PTL

\* Nobody in the queue could start, and every waiting job that is not
\* cancelled is in the queue, though a slot that is given back is handed to
\* one waiter only.
THEOREM NoWakeupLost == Spec => []NoStartableWaiter
<1>1. Inv => NoStartableWaiter
  BY DEF Inv
<1> QED
  BY <1>1, InvAlways, PTL

\* No message that is to be sent is lost: it has its row, after crashes between any
\* two writes too, and until the process shuts down it is owned by its lane or its
\* send task, never both; a message whose scheduling threw, because the queue of the
\* tasks was not replaced yet, is owned by neither and keeps its row for the next start.
THEOREM NoMessageStranded == Spec => []NeverStranded
<1>1. Inv => NeverStranded
  BY OneOwner DEF Inv
<1> QED
  BY <1>1, InvAlways, PTL

\* No message is transmitted while one of its conversation that was enrolled before it,
\* at a lesser time, is still to be sent, but for those whose scheduling threw; whatever
\* the clock does.
THEOREM OrderOfEnrolling == Spec => OrderKept
<1>1. Inv /\ [Next]_vars =>
          \A m, n \in Messages :
              Transmits(n) /\ SentBefore(n, m) /\ createdAt[m] < createdAt[n] => m \in orphans
  BY SentInOrder DEF Inv, Ordered, SentBefore, Before, Earlier
<1> QED
  BY <1>1, InvAlways, PTL DEF Spec, OrderKept

\* Once the uploads are stopped none is started, and no blob ID is stored for
\* a message that is cancelled or no longer to be sent.
THEOREM CancelsAreFinal == Spec => CancelIsFinal
<1>1. Inv /\ [Next]_vars =>
          \A m \in Messages :
              /\ shutdown /\ stage'[m] = "uploading" => stage[m] = "uploading"
              /\ uploaded'[m] # uploaded[m] => Live(m) /\ ~shutdown
  BY CancelStep DEF Inv
<1> QED
  BY <1>1, InvAlways, PTL DEF Spec, CancelIsFinal
================================================================================
