------------------------------ MODULE Calls_proofs ------------------------------
(***************************************************************************)
(* Proofs, for any calls between the two devices, that a device conducts   *)
(* one call at a time, that no setup message follows the end of its call,  *)
(* and that no candidate is left behind when the answer is made.           *)
(***************************************************************************)
EXTENDS Calls, TLAPS

Within(s) == {s[i] : i \in 1 .. Len(s)}
Once(s, x) == \A i, j \in 1 .. Len(s) : s[i] = x /\ s[j] = x => i = j

Early == {"idle", "lock", "turn", "create", "media"}

\* Who rings, and in which steps a call is not yet or no longer registered.
RoleOf ==
    \A d \in Devices, c \in Calls :
        /\ status[<<d, c>>] = "ringing-out" => d = Caller[c]
        /\ status[<<d, c>>] = "ringing-in" => d # Caller[c]
        /\ step[<<d, c>>] = "lock" => d = Caller[c]
        /\ d = Caller[c] /\ step[<<d, c>>] \in {"idle", "lock"} => status[<<d, c>>] = "idle"
        /\ d # Caller[c] /\ status[<<d, c>>] = "idle" => step[<<d, c>>] = "idle"

\* The executor of `call` is in the lock until `call` leaves it, and it is the
\* one that runs once the call was registered.
LockOf ==
    \A d \in Devices, c \in Calls :
        /\ Once(lock[d], <<"call", c>>)
        /\ <<"call", c>> \in Within(lock[d]) => d = Caller[c] /\ step[<<d, c>>] \notin {"idle", "done"}
        /\ step[<<d, c>>] = "lock" => <<"call", c>> \in Within(lock[d])
        /\ d = Caller[c] /\ step[<<d, c>>] \in {"turn", "create", "media", "task"} =>
              lock[d] # <<>> /\ Head(lock[d]) = <<"call", c>>

\* Offers and candidates go from the caller to the callee, an answer back.
DirectionOf ==
    \A d \in Devices, c \in Calls :
        /\ d # Caller[c] => Msg("OFFER", c) \notin Within(tasks[d])
        /\ d # Caller[c] => Msg("CANDIDATE", c) \notin Within(tasks[d])
        /\ d = Caller[c] => Msg("ACCEPT", c) \notin Within(tasks[d])
        /\ d = Caller[c] => /\ Msg("OFFER", c) \notin Within(wire[d])
                            /\ Msg("CANDIDATE", c) \notin Within(wire[d])
                            /\ <<"offer", c>> \notin Within(lock[d])

\* The offer of a call is in one place: not made yet, a task, on the wire, in
\* the lock of the callee, or taken.
OfferOf ==
    \A d \in Devices, c \in Calls :
        /\ Once(tasks[d], Msg("OFFER", c)) /\ Once(wire[d], Msg("OFFER", c))
        /\ Once(lock[d], <<"offer", c>>)
        /\ Msg("OFFER", c) \in Within(tasks[d]) =>
              /\ step[<<d, c>>] \notin Early
              /\ status[<<Peer(d), c>>] = "idle"
              /\ Msg("OFFER", c) \notin Within(wire[Peer(d)])
              /\ <<"offer", c>> \notin Within(lock[Peer(d)])
        /\ Msg("OFFER", c) \in Within(wire[d]) =>
              /\ step[<<Peer(d), c>>] \notin Early
              /\ status[<<d, c>>] = "idle"
              /\ <<"offer", c>> \notin Within(lock[d])
        /\ <<"offer", c>> \in Within(lock[d]) =>
              step[<<Peer(d), c>>] \notin Early /\ status[<<d, c>>] = "idle"
        /\ d = Caller[c] /\ step[<<d, c>>] \in Early => status[<<Peer(d), c>>] = "idle"

\* The device is not going to ring: it has ended the call, or the offer was
\* refused.
Over(d, c) ==
    \/ status[<<d, c>>] = "ended"
    \/ /\ d # Caller[c] /\ status[<<d, c>>] = "idle"
       /\ step[<<Peer(d), c>>] \notin Early
       /\ Msg("OFFER", c) \notin Within(tasks[Peer(d)]) \cup Within(wire[d])
       /\ <<"offer", c>> \notin Within(lock[d])

\* Who sends the end of a call is done with it.
EndOf ==
    \A d \in Devices, c \in Calls, k \in {"HANGUP", "REJECT"} :
        Msg(k, c) \in Within(tasks[d]) \cup Within(wire[Peer(d)]) => Over(d, c)

\* The answerer of a live call has its offer described before the answer,
\* unless its context has closed itself.
Answering(d, c) ==
    /\ remote[<<d, c>>] # "applying"
    /\ dom[<<d, c>>] = "live" => remote[<<d, c>>] = "set"
    /\ remote[<<d, c>>] = "set" => candidate[c] # "cached"
    /\ Live(d, c) /\ step[<<d, c>>] \in {"task", "done"} /\ <<d, c>> \notin aborted =>
          dom[<<d, c>>] = "live" /\ candidate[c] # "buffered"

AnswerOf == \A d \in Devices, c \in Calls : d # Caller[c] => Answering(d, c)

Inv == TypeOK /\ RoleOf /\ LockOf /\ DirectionOf /\ OfferOf /\ EndOf /\ SetupPrecedesEnd /\ AnswerOf

-----------------------------------------------------------------------------
\* Sequences and devices

\* What Append does to the elements of a sequence, their number and its head
LEMMA AppendFacts ==
    ASSUME NEW S, NEW s \in Seq(S), NEW x \in S
    PROVE  /\ Append(s, x) \in Seq(S)
           /\ Within(Append(s, x)) = Within(s) \cup {x}
           /\ \A y : Once(s, y) /\ (y # x \/ y \notin Within(s)) => Once(Append(s, x), y)
           /\ s # <<>> => Append(s, x) # <<>> /\ Head(Append(s, x)) = Head(s)
<1>1. /\ Append(s, x) \in Seq(S) /\ Len(Append(s, x)) = Len(s) + 1 /\ Len(s) \in Nat
      /\ \A i \in 1 .. Len(s) : Append(s, x)[i] = s[i]
      /\ Append(s, x)[Len(s) + 1] = x
  OBVIOUS
<1>2. Within(Append(s, x)) = Within(s) \cup {x}
  BY <1>1 DEF Within
<1>3. \A y : Once(s, y) /\ (y # x \/ y \notin Within(s)) => Once(Append(s, x), y)
  BY <1>1 DEF Within, Once
<1> QED
  BY <1>1, <1>2, <1>3

\* What Tail does to them
LEMMA TailFacts ==
    ASSUME NEW S, NEW s \in Seq(S), s # <<>>
    PROVE  /\ Tail(s) \in Seq(S) /\ Head(s) \in S /\ Head(s) \in Within(s)
           /\ Within(Tail(s)) \subseteq Within(s)
           /\ Within(s) = {Head(s)} \cup Within(Tail(s))
           /\ \A y : Once(s, y) => Once(Tail(s), y)
           /\ Once(s, Head(s)) => Head(s) \notin Within(Tail(s))
<1>1. /\ Tail(s) \in Seq(S) /\ Len(s) \in Nat \ {0} /\ Len(Tail(s)) = Len(s) - 1
      /\ \A i \in 1 .. Len(Tail(s)) : Tail(s)[i] = s[i + 1]
      /\ Head(s) = s[1] /\ Head(s) \in S
  OBVIOUS
<1>2. Within(Tail(s)) \subseteq Within(s)
  BY <1>1 DEF Within
<1>3. Within(s) = {Head(s)} \cup Within(Tail(s))
  <2>1. ASSUME NEW i \in 1 .. Len(s) PROVE s[i] \in {Head(s)} \cup Within(Tail(s))
    <3>1. CASE i = 1
      BY <1>1, <3>1
    <3>2. CASE i # 1
      <4>1. i - 1 \in 1 .. Len(Tail(s)) /\ Tail(s)[i - 1] = s[i]
        BY <1>1, <3>2
      <4> QED
        BY <4>1 DEF Within
    <3> QED
      BY <3>1, <3>2
  <2>2. Head(s) \in Within(s)
    BY <1>1 DEF Within
  <2> QED
    BY <1>2, <2>1, <2>2 DEF Within
<1>4. \A y : Once(s, y) => Once(Tail(s), y)
  <2> SUFFICES ASSUME NEW y, Once(s, y), NEW i \in 1 .. Len(Tail(s)), NEW j \in 1 .. Len(Tail(s)),
                      Tail(s)[i] = y, Tail(s)[j] = y
               PROVE  i = j
    BY DEF Once
  <2>1. i + 1 \in 1 .. Len(s) /\ j + 1 \in 1 .. Len(s) /\ s[i + 1] = y /\ s[j + 1] = y
    BY <1>1
  <2> QED
    BY <2>1 DEF Once
<1>5. Once(s, Head(s)) => Head(s) \notin Within(Tail(s))
  <2> SUFFICES ASSUME Once(s, Head(s)), NEW i \in 1 .. Len(Tail(s)), Tail(s)[i] = Head(s)
               PROVE  FALSE
    BY DEF Within
  <2>1. i + 1 \in 1 .. Len(s) /\ s[i + 1] = Head(s) /\ 1 \in 1 .. Len(s) /\ s[1] = Head(s) /\ i + 1 # 1
    BY <1>1
  <2> QED
    BY <2>1 DEF Once
<1> QED
  BY <1>1, <1>2, <1>3, <1>4, <1>5

\* Nothing is in an empty sequence.
LEMMA EmptyFacts == Within(<<>>) = {} /\ \A y : Once(<<>>, y)
BY DEF Within, Once

\* There are two devices, and each is the peer of the other.
LEMMA Two ==
    /\ \A d \in Devices : Peer(d) \in Devices \ {d} /\ Peer(Peer(d)) = d
    /\ \A d, e \in Devices : e # d => e = Peer(d)
    /\ \A c \in Calls : Caller[c] \in Devices /\ Callee(c) = Peer(Caller[c])
<1>1. PICK a \in Devices, b \in Devices : a # b /\ Devices = {a, b}
  BY CallsAssumption
<1>2. Peer(a) = b /\ Peer(b) = a
  BY <1>1 DEF Peer
<1>3. \A c \in Calls : Caller[c] \in Devices /\ Callee(c) = Peer(Caller[c])
  BY CallsAssumption DEF Callee, Peer
<1> QED
  BY <1>1, <1>2, <1>3

\* The invariant holds initially: everything is empty or idle.
LEMMA InitInv == Init => Inv
<1> SUFFICES ASSUME Init PROVE Inv
  OBVIOUS
<1> USE CallsAssumption, EmptyFacts DEF Init
<1>1. StatusTypes /\ OneActive /\ ContextTypes
  BY DEF StatusTypes, OneActive, ContextTypes, Steps, Live, Both, Ringing, InCall
<1>2. QueueTypes
  BY DEF QueueTypes
<1>3. BoundTypes
  BY DEF BoundTypes
<1>4. RoleOf /\ LockOf
  BY DEF RoleOf, LockOf, Both
<1>5. DirectionOf /\ OfferOf
  BY Two DEF DirectionOf, OfferOf, Both
<1>6. EndOf /\ SetupPrecedesEnd
  BY Two DEF EndOf, SetupPrecedesEnd
<1>7. AnswerOf
  BY DEF AnswerOf, Answering, Both
<1> QED
  BY <1>1, <1>2, <1>3, <1>4, <1>5, <1>6, <1>7 DEF Inv, TypeOK

-----------------------------------------------------------------------------
\* What a step does to a call on a device

Alone(d, c) == ~Busy(d) /\ \A e \in Calls \ {c} : status'[<<d, e>>] = status[<<d, e>>]

\* A call rings only where no other does, and only once.
StatusStep(d, c) ==
    \/ status'[<<d, c>>] = status[<<d, c>>]
    \/ Live(d, c) /\ status'[<<d, c>>] \in {"ended"} \cup InCall
    \/ /\ d = Caller[c] /\ status[<<d, c>>] = "idle" /\ status'[<<d, c>>] = "ringing-out"
       /\ step[<<d, c>>] = "lock" /\ step'[<<d, c>>] = "turn"
       /\ Alone(d, c)
    \/ /\ d # Caller[c] /\ status[<<d, c>>] = "idle" /\ status'[<<d, c>>] = "ringing-in"
       /\ lock[d] # <<>> /\ Head(lock[d]) = <<"offer", c>> /\ lock'[d] = Tail(lock[d])
       /\ Alone(d, c)

\* Every step does one of these things to a call on a device.
LEMMA StatusCases ==
    ASSUME Inv, Next, NEW e \in Devices, NEW k \in Calls
    PROVE  StatusStep(e, k)
<1> USE DEF Inv, TypeOK, StatusTypes, Both, manager, Live, StatusStep, Ringing, InCall
<1>1. ASSUME NEW d \in Devices, NEW c \in Calls, Place(d, c) PROVE StatusStep(e, k)
  BY <1>1 DEF Place, Goto
<1>2. ASSUME NEW d \in Devices, NEW c \in Calls, Register(d, c) PROVE StatusStep(e, k)
  <2>1. d = Caller[c] /\ status[<<d, c>>] = "idle" /\ step[<<d, c>>] = "lock"
    BY <1>2 DEF Register, RoleOf
  <2>2. CASE Busy(d) \/ d \notin leads
    BY <1>2, <2>2 DEF Register
  <2>3. CASE ~(Busy(d) \/ d \notin leads)
    <3>1. /\ status' = [status EXCEPT ![<<d, c>>] = "ringing-out"]
          /\ step' = [step EXCEPT ![<<d, c>>] = "turn"]
      BY <1>2, <2>3 DEF Register, Become, Goto
    <3>2. /\ status'[<<d, c>>] = "ringing-out" /\ step'[<<d, c>>] = "turn"
          /\ \A f \in Calls \ {c} : status'[<<d, f>>] = status[<<d, f>>]
          /\ <<e, k>> # <<d, c>> => status'[<<e, k>>] = status[<<e, k>>]
      BY <3>1
    <3> QED
      BY <2>1, <2>3, <3>2 DEF Alone
  <2> QED
    BY <2>2, <2>3
<1>3. ASSUME NEW d \in Devices, NEW c \in Calls, Accept(d, c) PROVE StatusStep(e, k)
  BY <1>3 DEF Accept, Goto, Disarm
<1>4. ASSUME NEW d \in Devices, NEW c \in Calls, Hangup(d, c) PROVE StatusStep(e, k)
  BY <1>4 DEF Hangup, Schedule, EndCall, Become, Disarm
<1>5. ASSUME NEW d \in Devices, NEW c \in Calls, Turn(d, c) PROVE StatusStep(e, k)
  BY <1>5 DEF Turn, Fail, Leave, Goto, EndCall, Become, Disarm
<1>6. ASSUME NEW d \in Devices, NEW c \in Calls, TurnFails(d, c) PROVE StatusStep(e, k)
  BY <1>6 DEF TurnFails, Fail, Leave, Goto, EndCall, Become, Disarm
<1>7. ASSUME NEW d \in Devices, NEW c \in Calls, Create(d, c) PROVE StatusStep(e, k)
  BY <1>7 DEF Create, Fail, Leave, Goto, EndCall, Become, Disarm
<1>8. ASSUME NEW d \in Devices, NEW c \in Calls, Capture(d, c) PROVE StatusStep(e, k)
  BY <1>8 DEF Capture, Described
<1>9. ASSUME NEW d \in Devices, NEW c \in Calls, CaptureFails(d, c) PROVE StatusStep(e, k)
  BY <1>9 DEF CaptureFails, Fail, Leave, Goto, EndCall, Become, Disarm
<1>10. ASSUME NEW d \in Devices, NEW c \in Calls, SetUp(d, c) PROVE StatusStep(e, k)
  BY <1>10 DEF SetUp, Schedule, Goto
<1>11. ASSUME NEW c \in Calls, Trickle(c) PROVE StatusStep(e, k)
  BY <1>11 DEF Trickle, Schedule
<1>12. ASSUME NEW d \in Devices, NEW c \in Calls, Teardown(d, c) PROVE StatusStep(e, k)
  BY <1>12 DEF Teardown, Close
<1>13. ASSUME NEW d \in Devices, Send(d) PROVE StatusStep(e, k)
  BY <1>13 DEF Send
<1>14. ASSUME NEW d \in Devices, FinishTask(d) PROVE StatusStep(e, k)
  BY <1>14 DEF FinishTask, Fail, Leave, Goto, EndCall, Become, Disarm
<1>15. ASSUME NEW d \in Devices, OfferRefused(d) PROVE StatusStep(e, k)
  BY <1>15 DEF OfferRefused, Receive, Schedule
<1>16. ASSUME NEW d \in Devices, OfferArrives(d) PROVE StatusStep(e, k)
  BY <1>16 DEF OfferArrives, Receive
<1>17. ASSUME NEW d \in Devices, Offer(d) PROVE StatusStep(e, k)
  <2> DEFINE f == Head(lock[d])[2]
  <2>1. lock[d] # <<>> /\ f \in Calls /\ Head(lock[d]) = <<"offer", f>> /\ lock'[d] = Tail(lock[d])
    BY <1>17 DEF Offer, QueueTypes
  <2>2. d # Caller[f] /\ status[<<d, f>>] = "idle"
    <3>1. lock[d] \in Seq({"call", "offer"} \X Calls)
      BY DEF QueueTypes
    <3>2. <<"offer", f>> \in Within(lock[d])
      BY <2>1, <3>1, TailFacts
    <3> QED
      BY <2>1, <3>2 DEF DirectionOf, OfferOf
  <2>3. CASE d \notin leads \/ Busy(d)
    BY <1>17, <2>3 DEF Offer
  <2>4. CASE ~(d \notin leads \/ Busy(d))
    <3>1. status' = [status EXCEPT ![<<d, f>>] = "ringing-in"]
      BY <1>17, <2>4 DEF Offer, Ring, Become
    <3>2. /\ status'[<<d, f>>] = "ringing-in"
          /\ \A g \in Calls \ {f} : status'[<<d, g>>] = status[<<d, g>>]
          /\ <<e, k>> # <<d, f>> => status'[<<e, k>>] = status[<<e, k>>]
      BY <2>1, <3>1
    <3> QED
      BY <2>1, <2>2, <2>4, <3>2 DEF Alone
  <2> QED
    BY <2>3, <2>4
<1>18. ASSUME NEW d \in Devices, Reject(d) PROVE StatusStep(e, k)
  BY <1>18 DEF Reject, Receive, EndCall, Become, Disarm
<1>19. ASSUME NEW d \in Devices, Answer(d) PROVE StatusStep(e, k)
  BY <1>19 DEF Answer, Receive, Become, Disarm, Answerable
<1>20. ASSUME NEW d \in Devices, Candidate(d) PROVE StatusStep(e, k)
  BY <1>20 DEF Candidate, Receive
<1>21. ASSUME NEW d \in Devices, HangupArrives(d) PROVE StatusStep(e, k)
  BY <1>21 DEF HangupArrives, Receive, EndCall, Become, Disarm
<1>22. ASSUME NEW d \in Devices, NEW c \in Calls, RingingTimeout(d, c) PROVE StatusStep(e, k)
  BY <1>22 DEF RingingTimeout, Schedule, EndCall, Become, Disarm
<1>23. ASSUME NEW d \in Devices, NEW c \in Calls, Connected(d, c) PROVE StatusStep(e, k)
  BY <1>23 DEF Connected, Become
<1>24. ASSUME NEW d \in Devices, NEW c \in Calls, Interrupted(d, c) PROVE StatusStep(e, k)
  BY <1>24 DEF Interrupted, Become
<1>25. ASSUME NEW d \in Devices, NEW c \in Calls, GraceTimeout(d, c) PROVE StatusStep(e, k)
  BY <1>25 DEF GraceTimeout, EndCall, Become, Disarm
<1>26. ASSUME NEW d \in Devices, NEW c \in Calls, ContextFails(d, c) \/ FailureReported(d, c)
       PROVE  StatusStep(e, k)
  BY <1>26 DEF ContextFails, FailureReported, Close, EndCall, Become, Disarm
<1>27. ASSUME NEW d \in Devices, NEW c \in Calls, Applied(d, c) PROVE StatusStep(e, k)
  BY <1>27 DEF Applied, Described, EndCall, Become, Disarm
<1>28. ASSUME NEW d \in Devices, Reconnect(d) PROVE StatusStep(e, k)
  BY <1>28 DEF Reconnect, Waiting
<1>29. ASSUME NEW d \in Devices, Expire(d) PROVE StatusStep(e, k)
  BY <1>29 DEF Expire
<1>30. ASSUME NEW d \in Devices, Demote(d) PROVE StatusStep(e, k)
  BY <1>30 DEF Demote, EndCall, Become, Disarm
<1> QED
  BY <1>1, <1>2, <1>3, <1>4, <1>5, <1>6, <1>7, <1>8, <1>9, <1>10, <1>11, <1>12, <1>13, <1>14,
     <1>15, <1>16, <1>17, <1>18, <1>19, <1>20, <1>21, <1>22, <1>23, <1>24, <1>25, <1>26, <1>27,
     <1>28, <1>29, <1>30
     DEF Next, Progress, Media, Work


Leaves(d, c) ==
    IF d = Caller[c]
    THEN lock[d] # <<>> /\ Head(lock[d]) = <<"call", c>> /\ lock'[d] = Tail(lock[d])
    ELSE TRUE

StepStep(d, c) ==
    \/ step'[<<d, c>>] = step[<<d, c>>]
    \/ /\ step[<<d, c>>] = "idle" /\ step'[<<d, c>>] = "lock"
       /\ d = Caller[c] /\ lock'[d] = Append(lock[d], <<"call", c>>)
    \/ /\ step[<<d, c>>] = "lock" /\ step'[<<d, c>>] = "turn"
       /\ d = Caller[c] /\ Head(lock[d]) = <<"call", c>> /\ lock'[d] = lock[d]
       /\ status'[<<d, c>>] # "idle"
    \/ /\ step[<<d, c>>] = "idle" /\ step'[<<d, c>>] = "turn"
       /\ d # Caller[c] /\ status[<<d, c>>] = "ringing-in" /\ lock'[d] = lock[d]
    \/ /\ step[<<d, c>>] \in {"turn", "create"} /\ step'[<<d, c>>] \in {"create", "media"}
       /\ lock'[d] = lock[d]
    \/ /\ step[<<d, c>>] = "media" /\ step'[<<d, c>>] = "task" /\ dom[<<d, c>>] = "live"
       /\ lock'[d] = lock[d]
    \/ /\ step[<<d, c>>] \in {"lock", "turn", "create", "media", "task"} /\ step'[<<d, c>>] = "done"
       /\ Leaves(d, c)
       /\ Live(d, c)' /\ d # Caller[c] => step[<<d, c>>] = "task"

\* Goto changes the step of one call only.
LEMMA GotoFacts ==
    ASSUME Inv, NEW d \in Devices, NEW c \in Calls, NEW v, Goto(d, c, v)
    PROVE  /\ step'[<<d, c>>] = v
           /\ \A e \in Devices, k \in Calls : e # d \/ k # c => step'[<<e, k>>] = step[<<e, k>>]
BY DEF Goto, Inv, TypeOK, StatusTypes, Both

\* The call that leaves is the one that runs in the lock.
LEMMA LeaveFacts ==
    ASSUME Inv, NEW d \in Devices, NEW c \in Calls, Leave(d, c),
           \/ step[<<d, c>>] \in {"turn", "create", "media", "task"}
           \/ step[<<d, c>>] = "lock" /\ Head(lock[d]) = <<"call", c>>
    PROVE  /\ step'[<<d, c>>] = "done" /\ Leaves(d, c)
           /\ \A e \in Devices \ {d} : lock'[e] = lock[e]
           /\ \A e \in Devices, k \in Calls : e # d \/ k # c => step'[<<e, k>>] = step[<<e, k>>]
<1>1. d = Caller[c] => lock[d] # <<>> /\ Head(lock[d]) = <<"call", c>>
  BY EmptyFacts DEF Inv, LockOf
<1>2. Goto(d, c, "done")
  BY DEF Leave
<1>3. lock' = IF d = Caller[c] THEN [lock EXCEPT ![d] = Tail(@)] ELSE lock
  BY DEF Leave
<1>4. Leaves(d, c) /\ \A e \in Devices \ {d} : lock'[e] = lock[e]
  BY <1>1, <1>3 DEF Leaves, Inv, TypeOK, QueueTypes
<1> QED
  BY <1>2, <1>4, GotoFacts

\* For another call than the one that moves, nothing is to be shown.
LEMMA OnlyStep ==
    ASSUME NEW d \in Devices, NEW c \in Calls, StepStep(d, c),
           \A e \in Devices, k \in Calls : e # d \/ k # c => step'[<<e, k>>] = step[<<e, k>>],
           NEW e \in Devices, NEW k \in Calls
    PROVE  StepStep(e, k)
<1>1. CASE e = d /\ k = c
  BY <1>1
<1>2. CASE e # d \/ k # c
  BY <1>2 DEF StepStep
<1> QED
  BY <1>1, <1>2

\* A failed attempt ends the call and leaves.
LEMMA FailFacts ==
    ASSUME Inv, NEW d \in Devices, NEW c \in Calls, Fail(d, c)
    PROVE  ~Live(d, c)' /\ Leave(d, c)
BY DEF Fail, EndCall, Become, Live, Inv, TypeOK, StatusTypes, Both, Ringing, InCall

\* A failure of what `call` or `accept` awaits is one of the cases.
LEMMA FailIsStep ==
    ASSUME Inv, NEW d \in Devices, NEW c \in Calls, Fail(d, c),
           step[<<d, c>>] \in {"turn", "create", "media", "task"},
           NEW e \in Devices, NEW k \in Calls
    PROVE  StepStep(e, k)
<1>1. Leave(d, c) /\ ~Live(d, c)'
  BY FailFacts
<1>2. StepStep(d, c)
  BY <1>1, LeaveFacts DEF StepStep
<1> QED
  BY <1>1, <1>2, LeaveFacts, OnlyStep

\* Every step does one of these things to what a call awaits.
LEMMA StepCases ==
    ASSUME Inv, Next, NEW e \in Devices, NEW k \in Calls
    PROVE  StepStep(e, k)
<1> USE DEF Inv, TypeOK, manager
<1>1. ASSUME NEW d \in Devices, NEW c \in Calls, Place(d, c) PROVE StepStep(e, k)
  <2>1. Goto(d, c, "lock") /\ d = Caller[c] /\ step[<<d, c>>] = "idle"
    BY <1>1 DEF Place
  <2>2. lock'[d] = Append(lock[d], <<"call", c>>)
    BY <1>1 DEF Place, QueueTypes
  <2>3. StepStep(d, c)
    BY <2>1, <2>2, GotoFacts DEF StepStep
  <2> QED
    BY <2>1, <2>3, GotoFacts, OnlyStep
<1>2. ASSUME NEW d \in Devices, NEW c \in Calls, Register(d, c) PROVE StepStep(e, k)
  <2>1. step[<<d, c>>] = "lock" /\ Head(lock[d]) = <<"call", c>> /\ d = Caller[c]
    BY <1>2 DEF Register, RoleOf
  <2>2. CASE Leave(d, c) /\ UNCHANGED status
    <3>1. StepStep(d, c)
      BY <2>1, <2>2, LeaveFacts DEF StepStep
    <3> QED
      BY <2>1, <2>2, <3>1, LeaveFacts, OnlyStep
  <2>3. CASE Become(d, c, "ringing-out") /\ Goto(d, c, "turn") /\ UNCHANGED lock
    <3>1. status'[<<d, c>>] = "ringing-out"
      BY <2>3 DEF Become, StatusTypes, Both
    <3>2. StepStep(d, c)
      BY <2>1, <2>3, <3>1, GotoFacts DEF StepStep
    <3> QED
      BY <2>3, <3>2, GotoFacts, OnlyStep
  <2> QED
    BY <1>2, <2>2, <2>3 DEF Register
<1>3. ASSUME NEW d \in Devices, NEW c \in Calls, Accept(d, c) PROVE StepStep(e, k)
  <2>1. /\ Goto(d, c, "turn") /\ step[<<d, c>>] = "idle" /\ UNCHANGED lock
        /\ status[<<d, c>>] = "ringing-in" /\ d # Caller[c]
    BY <1>3 DEF Accept, RoleOf
  <2>2. StepStep(d, c)
    BY <2>1, GotoFacts DEF StepStep
  <2> QED
    BY <2>1, <2>2, GotoFacts, OnlyStep
<1>4. ASSUME NEW d \in Devices, NEW c \in Calls, Hangup(d, c) PROVE StepStep(e, k)
  BY <1>4 DEF Hangup, Schedule, EndCall, Become, Disarm, StepStep
<1>5. ASSUME NEW d \in Devices, NEW c \in Calls, Turn(d, c) PROVE StepStep(e, k)
  <2>1. step[<<d, c>>] = "turn" /\ (Fail(d, c) \/ (Goto(d, c, "create") /\ UNCHANGED lock))
    BY <1>5 DEF Turn
  <2>2. CASE Fail(d, c)
    BY <2>1, <2>2, FailIsStep
  <2>3. CASE Goto(d, c, "create") /\ UNCHANGED lock
    <3>1. StepStep(d, c)
      BY <2>1, <2>3, GotoFacts DEF StepStep
    <3> QED
      BY <2>3, <3>1, GotoFacts, OnlyStep
  <2> QED
    BY <2>1, <2>2, <2>3
<1>6. ASSUME NEW d \in Devices, NEW c \in Calls, TurnFails(d, c) PROVE StepStep(e, k)
  BY <1>6, FailIsStep DEF TurnFails
<1>7. ASSUME NEW d \in Devices, NEW c \in Calls, Create(d, c) PROVE StepStep(e, k)
  <2>1. /\ step[<<d, c>>] = "create"
        /\ \/ Fail(d, c)
           \/ ~Live(d, c) /\ Leave(d, c) /\ UNCHANGED status
           \/ Goto(d, c, "media") /\ UNCHANGED lock
    BY <1>7 DEF Create
  <2>2. CASE Fail(d, c)
    BY <2>1, <2>2, FailIsStep
  <2>3. CASE ~Live(d, c) /\ Leave(d, c) /\ UNCHANGED status
    <3>1. ~Live(d, c)'
      BY <2>3 DEF Live
    <3>2. StepStep(d, c)
      BY <2>1, <2>3, <3>1, LeaveFacts DEF StepStep
    <3> QED
      BY <2>1, <2>3, <3>2, LeaveFacts, OnlyStep
  <2>4. CASE Goto(d, c, "media") /\ UNCHANGED lock
    <3>1. StepStep(d, c)
      BY <2>1, <2>4, GotoFacts DEF StepStep
    <3> QED
      BY <2>4, <3>1, GotoFacts, OnlyStep
  <2> QED
    BY <2>1, <2>2, <2>3, <2>4
<1>8. ASSUME NEW d \in Devices, NEW c \in Calls, Capture(d, c) PROVE StepStep(e, k)
  BY <1>8 DEF Capture, Described, StepStep
<1>9. ASSUME NEW d \in Devices, NEW c \in Calls, CaptureFails(d, c) PROVE StepStep(e, k)
  BY <1>9, FailIsStep DEF CaptureFails
<1>10. ASSUME NEW d \in Devices, NEW c \in Calls, SetUp(d, c) PROVE StepStep(e, k)
  <2>1. /\ Goto(d, c, "task") /\ step[<<d, c>>] = "media" /\ dom[<<d, c>>] = "live"
        /\ UNCHANGED lock
    BY <1>10 DEF SetUp
  <2>2. StepStep(d, c)
    BY <2>1, GotoFacts DEF StepStep
  <2> QED
    BY <2>1, <2>2, GotoFacts, OnlyStep
<1>11. ASSUME NEW c \in Calls, Trickle(c) PROVE StepStep(e, k)
  BY <1>11 DEF Trickle, Schedule, StepStep
<1>12. ASSUME NEW d \in Devices, NEW c \in Calls, Teardown(d, c) PROVE StepStep(e, k)
  BY <1>12 DEF Teardown, Close, StepStep
<1>13. ASSUME NEW d \in Devices, Send(d) PROVE StepStep(e, k)
  BY <1>13 DEF Send, StepStep
<1>14. ASSUME NEW d \in Devices, FinishTask(d) PROVE StepStep(e, k)
  <2> DEFINE c == running[d].msg.call
  <2>1. c \in Calls
    BY <1>14 DEF FinishTask, Messages, QueueTypes
  <2>2. \/ UNCHANGED manager
        \/ step[<<d, c>>] = "task" /\ (Leave(d, c) \/ Fail(d, c))
    BY <1>14 DEF FinishTask
  <2> HIDE DEF c
  <2>3. CASE step[<<d, c>>] = "task" /\ Leave(d, c)
    <3>1. StepStep(d, c)
      BY <2>1, <2>3, LeaveFacts DEF StepStep
    <3> QED
      BY <2>1, <2>3, <3>1, LeaveFacts, OnlyStep
  <2>4. CASE step[<<d, c>>] = "task" /\ Fail(d, c)
    BY <2>1, <2>4, FailIsStep
  <2>5. CASE UNCHANGED manager
    BY <2>5 DEF StepStep, manager
  <2> QED
    BY <2>2, <2>3, <2>4, <2>5
<1>15. ASSUME NEW d \in Devices, OfferRefused(d) PROVE StepStep(e, k)
  BY <1>15 DEF OfferRefused, Receive, Schedule, StepStep
<1>16. ASSUME NEW d \in Devices, OfferArrives(d) PROVE StepStep(e, k)
  BY <1>16 DEF OfferArrives, Receive, StepStep
<1>17. ASSUME NEW d \in Devices, Offer(d) PROVE StepStep(e, k)
  BY <1>17 DEF Offer, Schedule, Ring, Become, StepStep
<1>18. ASSUME NEW d \in Devices, Reject(d) PROVE StepStep(e, k)
  BY <1>18 DEF Reject, Receive, EndCall, Become, Disarm, StepStep
<1>19. ASSUME NEW d \in Devices, Answer(d) PROVE StepStep(e, k)
  BY <1>19 DEF Answer, Receive, Become, Disarm, StepStep
<1>20. ASSUME NEW d \in Devices, Candidate(d) PROVE StepStep(e, k)
  BY <1>20 DEF Candidate, Receive, StepStep
<1>21. ASSUME NEW d \in Devices, HangupArrives(d) PROVE StepStep(e, k)
  BY <1>21 DEF HangupArrives, Receive, EndCall, Become, Disarm, StepStep
<1>22. ASSUME NEW d \in Devices, NEW c \in Calls, RingingTimeout(d, c) PROVE StepStep(e, k)
  BY <1>22 DEF RingingTimeout, Schedule, EndCall, Become, Disarm, StepStep
<1>23. ASSUME NEW d \in Devices, NEW c \in Calls, Connected(d, c) PROVE StepStep(e, k)
  BY <1>23 DEF Connected, Become, StepStep
<1>24. ASSUME NEW d \in Devices, NEW c \in Calls, Interrupted(d, c) PROVE StepStep(e, k)
  BY <1>24 DEF Interrupted, Become, StepStep
<1>25. ASSUME NEW d \in Devices, NEW c \in Calls, GraceTimeout(d, c) PROVE StepStep(e, k)
  BY <1>25 DEF GraceTimeout, EndCall, Become, Disarm, StepStep
<1>26. ASSUME NEW d \in Devices, NEW c \in Calls, ContextFails(d, c) \/ FailureReported(d, c)
       PROVE  StepStep(e, k)
  BY <1>26 DEF ContextFails, FailureReported, Close, EndCall, Become, Disarm, StepStep
<1>27. ASSUME NEW d \in Devices, NEW c \in Calls, Applied(d, c) PROVE StepStep(e, k)
  BY <1>27 DEF Applied, Described, EndCall, Become, Disarm, StepStep
<1>28. ASSUME NEW d \in Devices, Reconnect(d) PROVE StepStep(e, k)
  <2>1. /\ step' = [p \in Both |-> IF p \in Waiting(d) THEN "done" ELSE step[p]]
        /\ lock' = IF \E p \in Waiting(d) : Caller[p[2]] = d
                   THEN [lock EXCEPT ![d] = Tail(lock[d])] ELSE lock
    BY <1>28 DEF Reconnect
  <2>2. CASE <<e, k>> \in Waiting(d)
    <3>1. e = d /\ step[<<e, k>>] = "task" /\ step'[<<e, k>>] = "done"
      BY <2>1, <2>2 DEF Waiting, Both
    <3>2. CASE d = Caller[k]
      <4>1. lock' = [lock EXCEPT ![d] = Tail(lock[d])]
        BY <2>1, <2>2, <3>2
      <4>2. lock[d] # <<>> /\ Head(lock[d]) = <<"call", k>>
        BY <3>1, <3>2 DEF LockOf
      <4> QED
        BY <3>1, <3>2, <4>1, <4>2 DEF StepStep, Leaves, QueueTypes
    <3>3. CASE d # Caller[k]
      BY <2>1, <3>1, <3>3 DEF StepStep, Leaves
    <3> QED
      BY <3>2, <3>3
  <2>3. CASE <<e, k>> \notin Waiting(d)
    <3>1. <<e, k>> \in Both
      BY DEF Both
    <3> QED
      BY <2>1, <2>3, <3>1 DEF StepStep
  <2> QED
    BY <2>2, <2>3
<1>29. ASSUME NEW d \in Devices, Expire(d) PROVE StepStep(e, k)
  BY <1>29 DEF Expire, StepStep
<1>30. ASSUME NEW d \in Devices, Demote(d) PROVE StepStep(e, k)
  BY <1>30 DEF Demote, EndCall, Become, Disarm, StepStep
<1> QED
  BY <1>1, <1>2, <1>3, <1>4, <1>5, <1>6, <1>7, <1>8, <1>9, <1>10, <1>11, <1>12, <1>13, <1>14,
     <1>15, <1>16, <1>17, <1>18, <1>19, <1>20, <1>21, <1>22, <1>23, <1>24, <1>25, <1>26, <1>27,
     <1>28, <1>29, <1>30
     DEF Next, Progress, Media, Work

-----------------------------------------------------------------------------
\* What a step does to the lock, the tasks and the wire of a device

Came(d, m) == wire[d] # <<>> /\ Head(wire[d]) = m /\ wire'[d] = Tail(wire[d])

Stays(d, c) ==
    /\ step'[<<d, c>>] = "lock" => step[<<d, c>>] = "lock"
    /\ step'[<<d, c>>] = "done" => step[<<d, c>>] = "done"

LockStep(d) ==
    \/ lock'[d] = lock[d] /\ \A c \in Calls : d = Caller[c] => Stays(d, c)
    \/ \E c \in Calls :
          /\ d = Caller[c] /\ step[<<d, c>>] = "idle" /\ step'[<<d, c>>] = "lock"
          /\ lock'[d] = Append(lock[d], <<"call", c>>)
          /\ \A k \in Calls \ {c} : step'[<<d, k>>] = step[<<d, k>>]
    \/ \E c \in Calls :
          /\ Came(d, Msg("OFFER", c)) /\ lock'[d] = Append(lock[d], <<"offer", c>>)
          /\ \A k \in Calls : step'[<<d, k>>] = step[<<d, k>>]
    \/ \E c \in Calls :
          /\ lock[d] # <<>> /\ Head(lock[d]) = <<"call", c>> /\ lock'[d] = Tail(lock[d])
          /\ step'[<<d, c>>] = "done"
          /\ \A k \in Calls \ {c} : d = Caller[k] => step'[<<d, k>>] = step[<<d, k>>]
    \/ \E c \in Calls :
          /\ lock[d] # <<>> /\ Head(lock[d]) = <<"offer", c>> /\ lock'[d] = Tail(lock[d])
          /\ \A k \in Calls : step'[<<d, k>>] = step[<<d, k>>]

\* Leaving is one of the cases of a lock.
LEMMA LeaveIsLockStep ==
    ASSUME Inv, NEW d \in Devices, NEW c \in Calls, Leave(d, c),
           \/ step[<<d, c>>] \in {"turn", "create", "media", "task"}
           \/ step[<<d, c>>] = "lock" /\ Head(lock[d]) = <<"call", c>>,
           NEW e \in Devices
    PROVE  LockStep(e)
<1>1. CASE e = d /\ d = Caller[c]
  <2>1. lock[d] # <<>> /\ Head(lock[d]) = <<"call", c>> /\ lock'[d] = Tail(lock[d])
    BY <1>1, LeaveFacts DEF Leaves
  <2>2. step'[<<d, c>>] = "done" /\ \A k \in Calls \ {c} : step'[<<d, k>>] = step[<<d, k>>]
    BY LeaveFacts
  <2> QED
    BY <1>1, <2>1, <2>2 DEF LockStep
<1>2. CASE ~(e = d /\ d = Caller[c])
  <2>1. lock'[e] = lock[e]
    BY <1>2, LeaveFacts DEF Leave
  <2>2. \A k \in Calls : e = Caller[k] => Stays(e, k)
    BY <1>2, LeaveFacts DEF Stays
  <2> QED
    BY <2>1, <2>2 DEF LockStep
<1> QED
  BY <1>1, <1>2

\* So is a failure.
LEMMA FailIsLockStep ==
    ASSUME Inv, NEW d \in Devices, NEW c \in Calls, Fail(d, c),
           step[<<d, c>>] \in {"turn", "create", "media", "task"},
           NEW e \in Devices
    PROVE  LockStep(e)
BY FailFacts, LeaveIsLockStep

\* So is every step of `call` and `accept` in between.
LEMMA GotoIsLockStep ==
    ASSUME Inv, NEW d \in Devices, NEW c \in Calls, NEW v \in {"turn", "create", "media", "task"},
           Goto(d, c, v), UNCHANGED lock, NEW e \in Devices
    PROVE  LockStep(e)
<1>1. ASSUME NEW k \in Calls PROVE Stays(e, k)
  <2>1. CASE e = d /\ k = c
    BY <2>1, GotoFacts DEF Stays
  <2>2. CASE e # d \/ k # c
    BY <2>2, GotoFacts DEF Stays
  <2> QED
    BY <2>1, <2>2
<1> QED
  BY <1>1 DEF LockStep

\* Every step does one of these things to the lock of a device.
LEMMA LockCases ==
    ASSUME Inv, Next, NEW e \in Devices
    PROVE  LockStep(e)
<1> USE DEF Inv, TypeOK, manager
<1>1. ASSUME NEW d \in Devices, NEW c \in Calls, Place(d, c) PROVE LockStep(e)
  <2>1. /\ Goto(d, c, "lock") /\ d = Caller[c] /\ step[<<d, c>>] = "idle"
        /\ lock' = [lock EXCEPT ![d] = Append(lock[d], <<"call", c>>)]
    BY <1>1 DEF Place
  <2>2. CASE e = d
    <3>1. lock'[d] = Append(lock[d], <<"call", c>>)
      BY <2>1 DEF QueueTypes
    <3>2. step'[<<d, c>>] = "lock" /\ \A k \in Calls \ {c} : step'[<<d, k>>] = step[<<d, k>>]
      BY <2>1, GotoFacts
    <3> QED
      BY <2>1, <2>2, <3>1, <3>2 DEF LockStep
  <2>3. CASE e # d
    <3>1. lock'[e] = lock[e] /\ \A k \in Calls : step'[<<e, k>>] = step[<<e, k>>]
      BY <2>1, <2>3, GotoFacts DEF QueueTypes
    <3> QED
      BY <3>1 DEF LockStep, Stays
  <2> QED
    BY <2>2, <2>3
<1>2. ASSUME NEW d \in Devices, NEW c \in Calls, Register(d, c) PROVE LockStep(e)
  <2>1. step[<<d, c>>] = "lock" /\ Head(lock[d]) = <<"call", c>>
    BY <1>2 DEF Register
  <2>2. Leave(d, c) \/ (Goto(d, c, "turn") /\ UNCHANGED lock)
    BY <1>2 DEF Register
  <2> QED
    BY <2>1, <2>2, LeaveIsLockStep, GotoIsLockStep
<1>3. ASSUME NEW d \in Devices, NEW c \in Calls, Accept(d, c) PROVE LockStep(e)
  BY <1>3, GotoIsLockStep DEF Accept
<1>4. ASSUME NEW d \in Devices, NEW c \in Calls, Hangup(d, c) PROVE LockStep(e)
  BY <1>4 DEF Hangup, Schedule, EndCall, Become, Disarm, LockStep, Stays
<1>5. ASSUME NEW d \in Devices, NEW c \in Calls, Turn(d, c) PROVE LockStep(e)
  <2>1. step[<<d, c>>] = "turn" /\ (Fail(d, c) \/ (Goto(d, c, "create") /\ UNCHANGED lock))
    BY <1>5 DEF Turn
  <2> QED
    BY <2>1, GotoIsLockStep, FailIsLockStep
<1>6. ASSUME NEW d \in Devices, NEW c \in Calls, TurnFails(d, c) PROVE LockStep(e)
  BY <1>6, FailIsLockStep DEF TurnFails
<1>7. ASSUME NEW d \in Devices, NEW c \in Calls, Create(d, c) PROVE LockStep(e)
  <2>1. /\ step[<<d, c>>] = "create"
        /\ Fail(d, c) \/ Leave(d, c) \/ (Goto(d, c, "media") /\ UNCHANGED lock)
    BY <1>7 DEF Create
  <2> QED
    BY <2>1, GotoIsLockStep, LeaveIsLockStep, FailIsLockStep
<1>8. ASSUME NEW d \in Devices, NEW c \in Calls, Capture(d, c) PROVE LockStep(e)
  BY <1>8 DEF Capture, Described, LockStep, Stays
<1>9. ASSUME NEW d \in Devices, NEW c \in Calls, CaptureFails(d, c) PROVE LockStep(e)
  BY <1>9, FailIsLockStep DEF CaptureFails
<1>10. ASSUME NEW d \in Devices, NEW c \in Calls, SetUp(d, c) PROVE LockStep(e)
  BY <1>10, GotoIsLockStep DEF SetUp
<1>11. ASSUME NEW c \in Calls, Trickle(c) PROVE LockStep(e)
  BY <1>11 DEF Trickle, Schedule, LockStep, Stays
<1>12. ASSUME NEW d \in Devices, NEW c \in Calls, Teardown(d, c) PROVE LockStep(e)
  BY <1>12 DEF Teardown, Close, LockStep, Stays
<1>13. ASSUME NEW d \in Devices, Send(d) PROVE LockStep(e)
  BY <1>13 DEF Send, LockStep, Stays
<1>14. ASSUME NEW d \in Devices, FinishTask(d) PROVE LockStep(e)
  <2> DEFINE c == running[d].msg.call
  <2>1. c \in Calls
    BY <1>14 DEF FinishTask, Messages, QueueTypes
  <2>2. \/ UNCHANGED manager
        \/ step[<<d, c>>] = "task" /\ (Leave(d, c) \/ Fail(d, c))
    BY <1>14 DEF FinishTask
  <2> HIDE DEF c
  <2>3. CASE UNCHANGED manager
    BY <2>3 DEF LockStep, Stays, manager
  <2> QED
    BY <2>1, <2>2, <2>3, LeaveIsLockStep, FailIsLockStep
<1>15. ASSUME NEW d \in Devices, OfferRefused(d) PROVE LockStep(e)
  BY <1>15 DEF OfferRefused, Receive, Schedule, LockStep, Stays
<1>16. ASSUME NEW d \in Devices, OfferArrives(d) PROVE LockStep(e)
  <2> DEFINE m == Head(wire[d])
  <2>1. m.kind = "OFFER" /\ Came(d, m) /\ m \in Messages
    BY <1>16, TailFacts DEF OfferArrives, Receive, Came, QueueTypes
  <2>2. m.call \in Calls /\ m = Msg("OFFER", m.call)
    BY <2>1 DEF Messages, Msg
  <2>3. lock' = [lock EXCEPT ![d] = Append(lock[d], <<"offer", m.call>>)] /\ UNCHANGED step
    BY <1>16 DEF OfferArrives
  <2> HIDE DEF m
  <2>4. CASE e = d
    BY <2>1, <2>2, <2>3, <2>4 DEF LockStep, QueueTypes
  <2>5. CASE e # d
    BY <2>3, <2>5 DEF LockStep, QueueTypes, Stays
  <2> QED
    BY <2>4, <2>5
<1>17. ASSUME NEW d \in Devices, Offer(d) PROVE LockStep(e)
  <2>1. /\ lock[d] # <<>> /\ Head(lock[d])[1] = "offer"
        /\ lock' = [lock EXCEPT ![d] = Tail(lock[d])] /\ UNCHANGED step
    BY <1>17 DEF Offer
  <2>2. \E c \in Calls : Head(lock[d]) = <<"offer", c>>
    BY <2>1 DEF QueueTypes
  <2>3. CASE e = d
    BY <2>1, <2>2, <2>3 DEF LockStep, QueueTypes
  <2>4. CASE e # d
    BY <2>1, <2>4 DEF LockStep, QueueTypes, Stays
  <2> QED
    BY <2>3, <2>4
<1>18. ASSUME NEW d \in Devices, Reject(d) PROVE LockStep(e)
  BY <1>18 DEF Reject, Receive, EndCall, Become, Disarm, LockStep, Stays
<1>19. ASSUME NEW d \in Devices, Answer(d) PROVE LockStep(e)
  BY <1>19 DEF Answer, Receive, Become, Disarm, LockStep, Stays
<1>20. ASSUME NEW d \in Devices, Candidate(d) PROVE LockStep(e)
  BY <1>20 DEF Candidate, Receive, LockStep, Stays
<1>21. ASSUME NEW d \in Devices, HangupArrives(d) PROVE LockStep(e)
  BY <1>21 DEF HangupArrives, Receive, EndCall, Become, Disarm, LockStep, Stays
<1>22. ASSUME NEW d \in Devices, NEW c \in Calls, RingingTimeout(d, c) PROVE LockStep(e)
  BY <1>22 DEF RingingTimeout, Schedule, EndCall, Become, Disarm, LockStep, Stays
<1>23. ASSUME NEW d \in Devices, NEW c \in Calls, Connected(d, c) PROVE LockStep(e)
  BY <1>23 DEF Connected, Become, LockStep, Stays
<1>24. ASSUME NEW d \in Devices, NEW c \in Calls, Interrupted(d, c) PROVE LockStep(e)
  BY <1>24 DEF Interrupted, Become, LockStep, Stays
<1>25. ASSUME NEW d \in Devices, NEW c \in Calls, GraceTimeout(d, c) PROVE LockStep(e)
  BY <1>25 DEF GraceTimeout, EndCall, Become, Disarm, LockStep, Stays
<1>26. ASSUME NEW d \in Devices, NEW c \in Calls, ContextFails(d, c) \/ FailureReported(d, c)
       PROVE  LockStep(e)
  BY <1>26 DEF ContextFails, FailureReported, Close, EndCall, Become, Disarm, LockStep, Stays
<1>27. ASSUME NEW d \in Devices, NEW c \in Calls, Applied(d, c) PROVE LockStep(e)
  BY <1>27 DEF Applied, Described, EndCall, Become, Disarm, LockStep, Stays
<1>28. ASSUME NEW d \in Devices, Reconnect(d) PROVE LockStep(e)
  <2>1. /\ step' = [p \in Both |-> IF p \in Waiting(d) THEN "done" ELSE step[p]]
        /\ lock' = IF \E p \in Waiting(d) : Caller[p[2]] = d
                   THEN [lock EXCEPT ![d] = Tail(lock[d])] ELSE lock
    BY <1>28 DEF Reconnect
  <2>2. \A f \in Devices, k \in Calls :
            /\ <<f, k>> \in Waiting(d) <=> f = d /\ step[<<f, k>>] = "task"
            /\ step'[<<f, k>>] = IF <<f, k>> \in Waiting(d) THEN "done" ELSE step[<<f, k>>]
    BY <2>1 DEF Waiting, Both
  <2>3. CASE e = d /\ \E p \in Waiting(d) : Caller[p[2]] = d
    <3>1. PICK c \in Calls : d = Caller[c] /\ step[<<d, c>>] = "task"
      BY <2>3 DEF Waiting, Both
    <3>2. lock[d] # <<>> /\ Head(lock[d]) = <<"call", c>> /\ lock'[d] = Tail(lock[d])
      BY <2>1, <2>3, <3>1 DEF LockOf, QueueTypes
    <3>3. ASSUME NEW k \in Calls, d = Caller[k], step[<<d, k>>] = "task" PROVE k = c
      <4>1. Head(lock[d]) = <<"call", k>>
        BY <3>3 DEF LockOf
      <4> QED
        BY <3>2, <4>1
    <3> QED
      BY <2>2, <2>3, <3>1, <3>2, <3>3 DEF LockStep
  <2>4. CASE ~(e = d /\ \E p \in Waiting(d) : Caller[p[2]] = d)
    <3>1. lock'[e] = lock[e]
      BY <2>1, <2>4 DEF QueueTypes
    <3>2. \A k \in Calls : e = Caller[k] => <<e, k>> \notin Waiting(d)
      BY <2>2, <2>4
    <3> QED
      BY <2>2, <3>1, <3>2 DEF LockStep, Stays
  <2> QED
    BY <2>3, <2>4
<1>29. ASSUME NEW d \in Devices, Expire(d) PROVE LockStep(e)
  BY <1>29 DEF Expire, LockStep, Stays
<1>30. ASSUME NEW d \in Devices, Demote(d) PROVE LockStep(e)
  BY <1>30 DEF Demote, EndCall, Become, Disarm, LockStep, Stays
<1> QED
  BY <1>1, <1>2, <1>3, <1>4, <1>5, <1>6, <1>7, <1>8, <1>9, <1>10, <1>11, <1>12, <1>13, <1>14,
     <1>15, <1>16, <1>17, <1>18, <1>19, <1>20, <1>21, <1>22, <1>23, <1>24, <1>25, <1>26, <1>27,
     <1>28, <1>29, <1>30
     DEF Next, Progress, Media, Work

\* The offer of a call was turned away, by who came to it first.
Refused(d, c) ==
    /\ d # Caller[c]
    /\ \/ Came(d, Msg("OFFER", c)) /\ lock'[d] = lock[d]
       \/ /\ lock[d] # <<>> /\ Head(lock[d]) = <<"offer", c>> /\ lock'[d] = Tail(lock[d])
          /\ wire'[d] = wire[d]
    /\ tasks'[Peer(d)] = tasks[Peer(d)] /\ step' = step /\ status' = status

\* What has happened when a message is made.
Made(d, m) ==
    /\ m.kind = "OFFER" =>
          d = Caller[m.call] /\ step[<<d, m.call>>] = "media" /\ step'[<<d, m.call>>] = "task"
    /\ m.kind = "CANDIDATE" => d = Caller[m.call]
    /\ m.kind = "ACCEPT" => d # Caller[m.call]
    /\ m.kind = "HANGUP" => status'[<<d, m.call>>] = "ended"
    /\ m.kind = "REJECT" => status'[<<d, m.call>>] = "ended" \/ Refused(d, m.call)

TasksStep(d) ==
    \/ tasks'[d] = tasks[d] \/ tasks'[d] = <<>>
    \/ tasks[d] # <<>> /\ tasks'[d] = Tail(tasks[d])
    \/ \E m \in Messages : tasks'[d] = Append(tasks[d], m) /\ Made(d, m)

Sent(d, m) ==
    /\ tasks[d] # <<>> /\ Head(tasks[d]) = m /\ tasks'[d] = Tail(tasks[d])
    /\ Wanted(d, m) /\ UNCHANGED status

WireStep(d) ==
    \/ wire'[d] = wire[d]
    \/ wire[d] # <<>> /\ wire'[d] = Tail(wire[d])
    \/ \E m \in Messages : Sent(Peer(d), m) /\ wire'[d] = Append(wire[d], m)

\* A message is its kind and its call.
LEMMA MsgFacts ==
    /\ \A k \in Kinds, c \in Calls :
          Msg(k, c) \in Messages /\ Msg(k, c).kind = k /\ Msg(k, c).call = c
    /\ \A m \in Messages : m.kind \in Kinds /\ m.call \in Calls /\ m = Msg(m.kind, m.call)
BY DEF Msg, Messages

\* A scheduled message is appended to the tasks of its device only.
LEMMA ScheduleFacts ==
    ASSUME Inv, NEW d \in Devices, NEW m \in Messages, Schedule(d, m), Made(d, m),
           NEW e \in Devices
    PROVE  TasksStep(e)
<1>1. tasks'[d] = Append(tasks[d], m) /\ \A f \in Devices \ {d} : tasks'[f] = tasks[f]
  BY DEF Schedule, Inv, TypeOK, QueueTypes
<1>2. CASE e = d
  BY <1>1, <1>2 DEF TasksStep
<1>3. CASE e # d
  BY <1>1, <1>3 DEF TasksStep
<1> QED
  BY <1>2, <1>3

\* A live call that is ended has ended.
LEMMA EndFacts ==
    ASSUME Inv, NEW d \in Devices, NEW c \in Calls, EndCall(d, c), Live(d, c)
    PROVE  status'[<<d, c>>] = "ended"
BY DEF EndCall, Become, Inv, TypeOK, StatusTypes, Both

\* Every step does one of these things to the tasks of a device.
LEMMA TasksCases ==
    ASSUME Inv, Next, NEW e \in Devices
    PROVE  TasksStep(e)
<1> USE DEF Inv, TypeOK, network, manager
<1>1. ASSUME NEW d \in Devices, NEW c \in Calls, Place(d, c) PROVE TasksStep(e)
  BY <1>1 DEF Place, Goto, TasksStep
<1>2. ASSUME NEW d \in Devices, NEW c \in Calls, Register(d, c) PROVE TasksStep(e)
  BY <1>2 DEF Register, Leave, Goto, Become, TasksStep
<1>3. ASSUME NEW d \in Devices, NEW c \in Calls, Accept(d, c) PROVE TasksStep(e)
  BY <1>3 DEF Accept, Goto, Disarm, TasksStep
<1>4. ASSUME NEW d \in Devices, NEW c \in Calls, Hangup(d, c) PROVE TasksStep(e)
  <2> DEFINE k == IF status[<<d, c>>] = "ringing-in" THEN "REJECT" ELSE "HANGUP"
  <2>1. status'[<<d, c>>] = "ended"
    BY <1>4, EndFacts DEF Hangup
  <2>2. Schedule(d, Msg(k, c)) \/ UNCHANGED tasks
    BY <1>4 DEF Hangup
  <2>3. Msg(k, c) \in Messages /\ Made(d, Msg(k, c))
    BY <2>1, MsgFacts DEF Made, Kinds
  <2> QED
    BY <2>2, <2>3, ScheduleFacts DEF TasksStep
<1>5. ASSUME NEW d \in Devices, NEW c \in Calls, Turn(d, c) PROVE TasksStep(e)
  BY <1>5 DEF Turn, Fail, Leave, Goto, EndCall, Become, Disarm, TasksStep
<1>6. ASSUME NEW d \in Devices, NEW c \in Calls, TurnFails(d, c) PROVE TasksStep(e)
  BY <1>6 DEF TurnFails, Fail, Leave, Goto, EndCall, Become, Disarm, TasksStep
<1>7. ASSUME NEW d \in Devices, NEW c \in Calls, Create(d, c) PROVE TasksStep(e)
  BY <1>7 DEF Create, Fail, Leave, Goto, EndCall, Become, Disarm, TasksStep
<1>8. ASSUME NEW d \in Devices, NEW c \in Calls, Capture(d, c) PROVE TasksStep(e)
  BY <1>8 DEF Capture, Described, TasksStep
<1>9. ASSUME NEW d \in Devices, NEW c \in Calls, CaptureFails(d, c) PROVE TasksStep(e)
  BY <1>9 DEF CaptureFails, Fail, Leave, Goto, EndCall, Become, Disarm, TasksStep
<1>10. ASSUME NEW d \in Devices, NEW c \in Calls, SetUp(d, c) PROVE TasksStep(e)
  <2> DEFINE k == IF d = Caller[c] THEN "OFFER" ELSE "ACCEPT"
  <2>1. step[<<d, c>>] = "media" /\ Goto(d, c, "task") /\ Schedule(d, Msg(k, c))
    BY <1>10 DEF SetUp
  <2>2. Msg(k, c) \in Messages /\ Made(d, Msg(k, c))
    BY <2>1, GotoFacts, MsgFacts DEF Made, Kinds
  <2> QED
    BY <2>1, <2>2, ScheduleFacts
<1>11. ASSUME NEW c \in Calls, Trickle(c) PROVE TasksStep(e)
  <2>1. Caller[c] \in Devices /\ Schedule(Caller[c], Msg("CANDIDATE", c))
    BY <1>11, Two DEF Trickle
  <2>2. Msg("CANDIDATE", c) \in Messages /\ Made(Caller[c], Msg("CANDIDATE", c))
    BY <2>1, MsgFacts DEF Made, Kinds
  <2> QED
    BY <2>1, <2>2, ScheduleFacts
<1>12. ASSUME NEW d \in Devices, NEW c \in Calls, Teardown(d, c) PROVE TasksStep(e)
  BY <1>12 DEF Teardown, Close, TasksStep
<1>13. ASSUME NEW d \in Devices, Send(d) PROVE TasksStep(e)
  <2>1. tasks[d] # <<>> /\ tasks' = [tasks EXCEPT ![d] = Tail(tasks[d])]
    BY <1>13 DEF Send
  <2> QED
    BY <2>1 DEF TasksStep, QueueTypes
<1>14. ASSUME NEW d \in Devices, FinishTask(d) PROVE TasksStep(e)
  BY <1>14 DEF FinishTask, Fail, Leave, Goto, EndCall, Become, Disarm, TasksStep
<1>15. ASSUME NEW d \in Devices, OfferRefused(d) PROVE TasksStep(e)
  <2> DEFINE c == Head(wire[d]).call
  <2>1. wire[d] \in Seq(Messages) /\ wire[d] # <<>> /\ Head(wire[d]).kind = "OFFER"
    BY <1>15 DEF OfferRefused, Receive, QueueTypes
  <2>2. c \in Calls /\ Head(wire[d]) = Msg("OFFER", c) /\ Head(wire[d]) \in Within(wire[d])
    BY <2>1, TailFacts, MsgFacts
  <2>3. Came(d, Msg("OFFER", c)) /\ d # Caller[c]
    BY <1>15, <2>1, <2>2 DEF OfferRefused, Receive, Came, QueueTypes, DirectionOf
  <2>4. CASE d \notin leads
    BY <1>15, <2>4 DEF OfferRefused, TasksStep
  <2>5. CASE d \in leads
    <3>1. Schedule(d, Msg("REJECT", c)) /\ UNCHANGED <<status, step, lock>>
      BY <1>15, <2>5 DEF OfferRefused
    <3>2. tasks'[Peer(d)] = tasks[Peer(d)]
      BY <3>1, Two DEF Schedule, QueueTypes
    <3> HIDE DEF c
    <3>3. Msg("REJECT", c) \in Messages /\ Made(d, Msg("REJECT", c))
      BY <2>2, <2>3, <3>1, <3>2, MsgFacts DEF Made, Refused, Kinds
    <3> QED
      BY <3>1, <3>3, ScheduleFacts
  <2> QED
    BY <2>4, <2>5
<1>16. ASSUME NEW d \in Devices, OfferArrives(d) PROVE TasksStep(e)
  BY <1>16 DEF OfferArrives, Receive, TasksStep
<1>17. ASSUME NEW d \in Devices, Offer(d) PROVE TasksStep(e)
  <2> DEFINE c == Head(lock[d])[2]
  <2>1. /\ lock[d] \in Seq({"call", "offer"} \X Calls)
        /\ lock[d] # <<>> /\ Head(lock[d])[1] = "offer" /\ lock'[d] = Tail(lock[d])
    BY <1>17 DEF Offer, QueueTypes
  <2>2. c \in Calls /\ Head(lock[d]) = <<"offer", c>> /\ Head(lock[d]) \in Within(lock[d])
    BY <2>1, TailFacts
  <2>3. d # Caller[c]
    BY <2>2 DEF DirectionOf
  <2>4. UNCHANGED tasks \/ (Schedule(d, Msg("REJECT", c)) /\ UNCHANGED <<status, step, wire>>)
    BY <1>17 DEF Offer
  <2> HIDE DEF c
  <2>5. CASE Schedule(d, Msg("REJECT", c)) /\ UNCHANGED <<status, step, wire>>
    <3>1. tasks'[Peer(d)] = tasks[Peer(d)]
      BY <2>5, Two DEF Schedule, QueueTypes
    <3>2. Msg("REJECT", c) \in Messages /\ Made(d, Msg("REJECT", c))
      BY <2>1, <2>2, <2>3, <2>5, <3>1, MsgFacts DEF Made, Refused, Kinds
    <3> QED
      BY <2>5, <3>2, ScheduleFacts
  <2> QED
    BY <2>4, <2>5 DEF TasksStep
<1>18. ASSUME NEW d \in Devices, Reject(d) PROVE TasksStep(e)
  BY <1>18 DEF Reject, Receive, EndCall, Become, Disarm, TasksStep
<1>19. ASSUME NEW d \in Devices, Answer(d) PROVE TasksStep(e)
  BY <1>19 DEF Answer, Receive, Become, Disarm, TasksStep
<1>20. ASSUME NEW d \in Devices, Candidate(d) PROVE TasksStep(e)
  BY <1>20 DEF Candidate, Receive, TasksStep
<1>21. ASSUME NEW d \in Devices, HangupArrives(d) PROVE TasksStep(e)
  BY <1>21 DEF HangupArrives, Receive, EndCall, Become, Disarm, TasksStep
<1>22. ASSUME NEW d \in Devices, NEW c \in Calls, RingingTimeout(d, c) PROVE TasksStep(e)
  <2>1. \/ UNCHANGED tasks
        \/ Live(d, c) /\ EndCall(d, c) /\ \E k \in {"HANGUP", "REJECT"} : Schedule(d, Msg(k, c))
    BY <1>22 DEF RingingTimeout, Live, Ringing
  <2>2. ASSUME NEW k \in {"HANGUP", "REJECT"}, Schedule(d, Msg(k, c)), Live(d, c), EndCall(d, c)
        PROVE  TasksStep(e)
    <3>1. Msg(k, c) \in Messages /\ Made(d, Msg(k, c))
      BY <2>2, EndFacts, MsgFacts DEF Made, Kinds
    <3> QED
      BY <2>2, <3>1, ScheduleFacts
  <2> QED
    BY <2>1, <2>2 DEF TasksStep
<1>23. ASSUME NEW d \in Devices, NEW c \in Calls, Connected(d, c) PROVE TasksStep(e)
  BY <1>23 DEF Connected, Become, TasksStep
<1>24. ASSUME NEW d \in Devices, NEW c \in Calls, Interrupted(d, c) PROVE TasksStep(e)
  BY <1>24 DEF Interrupted, Become, TasksStep
<1>25. ASSUME NEW d \in Devices, NEW c \in Calls, GraceTimeout(d, c) PROVE TasksStep(e)
  BY <1>25 DEF GraceTimeout, EndCall, Become, Disarm, TasksStep
<1>26. ASSUME NEW d \in Devices, NEW c \in Calls, ContextFails(d, c) \/ FailureReported(d, c)
       PROVE  TasksStep(e)
  BY <1>26 DEF ContextFails, FailureReported, Close, EndCall, Become, Disarm, TasksStep
<1>27. ASSUME NEW d \in Devices, NEW c \in Calls, Applied(d, c) PROVE TasksStep(e)
  BY <1>27 DEF Applied, Described, EndCall, Become, Disarm, TasksStep
<1>28. ASSUME NEW d \in Devices, Reconnect(d) PROVE TasksStep(e)
  <2>1. tasks' = [tasks EXCEPT ![d] = <<>>]
    BY <1>28 DEF Reconnect
  <2> QED
    BY <2>1 DEF TasksStep, QueueTypes
<1>29. ASSUME NEW d \in Devices, Expire(d) PROVE TasksStep(e)
  BY <1>29 DEF Expire, TasksStep
<1>30. ASSUME NEW d \in Devices, Demote(d) PROVE TasksStep(e)
  BY <1>30 DEF Demote, EndCall, Become, Disarm, TasksStep
<1> QED
  BY <1>1, <1>2, <1>3, <1>4, <1>5, <1>6, <1>7, <1>8, <1>9, <1>10, <1>11, <1>12, <1>13, <1>14,
     <1>15, <1>16, <1>17, <1>18, <1>19, <1>20, <1>21, <1>22, <1>23, <1>24, <1>25, <1>26, <1>27,
     <1>28, <1>29, <1>30
     DEF Next, Progress, Media, Work

\* Every step does one of these things to what is on its way to a device.
LEMMA WireCases ==
    ASSUME Inv, Next, NEW e \in Devices
    PROVE  WireStep(e)
<1> USE DEF Inv, TypeOK, network
<1>1. ASSUME NEW d \in Devices, NEW c \in Calls, Place(d, c) PROVE WireStep(e)
  BY <1>1 DEF Place, Goto, WireStep
<1>2. ASSUME NEW d \in Devices, NEW c \in Calls, Register(d, c) PROVE WireStep(e)
  BY <1>2 DEF Register, Leave, Goto, Become, WireStep
<1>3. ASSUME NEW d \in Devices, NEW c \in Calls, Accept(d, c) PROVE WireStep(e)
  BY <1>3 DEF Accept, Goto, Disarm, WireStep
<1>4. ASSUME NEW d \in Devices, NEW c \in Calls, Hangup(d, c) PROVE WireStep(e)
  BY <1>4 DEF Hangup, Schedule, EndCall, Become, Disarm, WireStep
<1>5. ASSUME NEW d \in Devices, NEW c \in Calls, Turn(d, c) PROVE WireStep(e)
  BY <1>5 DEF Turn, Fail, Leave, Goto, EndCall, Become, Disarm, WireStep
<1>6. ASSUME NEW d \in Devices, NEW c \in Calls, TurnFails(d, c) PROVE WireStep(e)
  BY <1>6 DEF TurnFails, Fail, Leave, Goto, EndCall, Become, Disarm, WireStep
<1>7. ASSUME NEW d \in Devices, NEW c \in Calls, Create(d, c) PROVE WireStep(e)
  BY <1>7 DEF Create, Fail, Leave, Goto, EndCall, Become, Disarm, WireStep
<1>8. ASSUME NEW d \in Devices, NEW c \in Calls, Capture(d, c) PROVE WireStep(e)
  BY <1>8 DEF Capture, Described, WireStep
<1>9. ASSUME NEW d \in Devices, NEW c \in Calls, CaptureFails(d, c) PROVE WireStep(e)
  BY <1>9 DEF CaptureFails, Fail, Leave, Goto, EndCall, Become, Disarm, WireStep
<1>10. ASSUME NEW d \in Devices, NEW c \in Calls, SetUp(d, c) PROVE WireStep(e)
  BY <1>10 DEF SetUp, Schedule, Goto, WireStep
<1>11. ASSUME NEW c \in Calls, Trickle(c) PROVE WireStep(e)
  BY <1>11 DEF Trickle, Schedule, WireStep
<1>12. ASSUME NEW d \in Devices, NEW c \in Calls, Teardown(d, c) PROVE WireStep(e)
  BY <1>12 DEF Teardown, Close, WireStep
<1>13. ASSUME NEW d \in Devices, Send(d) PROVE WireStep(e)
  <2> DEFINE m == Head(tasks[d])
  <2>1. tasks[d] \in Seq(Messages) /\ tasks[d] # <<>> /\ tasks'[d] = Tail(tasks[d]) /\ UNCHANGED status
    BY <1>13 DEF Send, QueueTypes, manager
  <2>2. m \in Messages
    BY <2>1, TailFacts
  <2>3. UNCHANGED wire \/ (Wanted(d, m) /\ wire' = [wire EXCEPT ![Peer(d)] = Append(wire[Peer(d)], m)])
    BY <1>13 DEF Send
  <2> HIDE DEF m
  <2>4. CASE Wanted(d, m) /\ wire' = [wire EXCEPT ![Peer(d)] = Append(wire[Peer(d)], m)]
    <3>1. CASE e = Peer(d)
      <4>1. Peer(e) = d /\ wire'[e] = Append(wire[e], m)
        BY <2>4, <3>1, Two DEF QueueTypes
      <4>2. Sent(d, m)
        BY <2>1, <2>4 DEF Sent, m
      <4> QED
        BY <2>2, <4>1, <4>2 DEF WireStep
    <3>2. CASE e # Peer(d)
      BY <2>4, <3>2 DEF WireStep, QueueTypes
    <3> QED
      BY <3>1, <3>2
  <2> QED
    BY <2>3, <2>4 DEF WireStep
<1>14. ASSUME NEW d \in Devices, FinishTask(d) PROVE WireStep(e)
  BY <1>14 DEF FinishTask, Fail, Leave, Goto, EndCall, Become, Disarm, WireStep
<1>15. ASSUME NEW d \in Devices, OfferRefused(d) PROVE WireStep(e)
  <2>1. wire[d] # <<>> /\ wire' = [wire EXCEPT ![d] = Tail(wire[d])]
    BY <1>15 DEF OfferRefused, Receive
  <2> QED
    BY <2>1 DEF WireStep, QueueTypes
<1>16. ASSUME NEW d \in Devices, OfferArrives(d) PROVE WireStep(e)
  <2>1. wire[d] # <<>> /\ wire' = [wire EXCEPT ![d] = Tail(wire[d])]
    BY <1>16 DEF OfferArrives, Receive
  <2> QED
    BY <2>1 DEF WireStep, QueueTypes
<1>17. ASSUME NEW d \in Devices, Offer(d) PROVE WireStep(e)
  BY <1>17 DEF Offer, Schedule, Ring, Become, WireStep
<1>18. ASSUME NEW d \in Devices, Reject(d) PROVE WireStep(e)
  <2>1. wire[d] # <<>> /\ wire' = [wire EXCEPT ![d] = Tail(wire[d])]
    BY <1>18 DEF Reject, Receive
  <2> QED
    BY <2>1 DEF WireStep, QueueTypes
<1>19. ASSUME NEW d \in Devices, Answer(d) PROVE WireStep(e)
  <2>1. wire[d] # <<>> /\ wire' = [wire EXCEPT ![d] = Tail(wire[d])]
    BY <1>19 DEF Answer, Receive
  <2> QED
    BY <2>1 DEF WireStep, QueueTypes
<1>20. ASSUME NEW d \in Devices, Candidate(d) PROVE WireStep(e)
  <2>1. wire[d] # <<>> /\ wire' = [wire EXCEPT ![d] = Tail(wire[d])]
    BY <1>20 DEF Candidate, Receive
  <2> QED
    BY <2>1 DEF WireStep, QueueTypes
<1>21. ASSUME NEW d \in Devices, HangupArrives(d) PROVE WireStep(e)
  <2>1. wire[d] # <<>> /\ wire' = [wire EXCEPT ![d] = Tail(wire[d])]
    BY <1>21 DEF HangupArrives, Receive
  <2> QED
    BY <2>1 DEF WireStep, QueueTypes
<1>22. ASSUME NEW d \in Devices, NEW c \in Calls, RingingTimeout(d, c) PROVE WireStep(e)
  BY <1>22 DEF RingingTimeout, Schedule, EndCall, Become, Disarm, WireStep
<1>23. ASSUME NEW d \in Devices, NEW c \in Calls, Connected(d, c) PROVE WireStep(e)
  BY <1>23 DEF Connected, Become, WireStep
<1>24. ASSUME NEW d \in Devices, NEW c \in Calls, Interrupted(d, c) PROVE WireStep(e)
  BY <1>24 DEF Interrupted, Become, WireStep
<1>25. ASSUME NEW d \in Devices, NEW c \in Calls, GraceTimeout(d, c) PROVE WireStep(e)
  BY <1>25 DEF GraceTimeout, EndCall, Become, Disarm, WireStep
<1>26. ASSUME NEW d \in Devices, NEW c \in Calls, ContextFails(d, c) \/ FailureReported(d, c)
       PROVE  WireStep(e)
  BY <1>26 DEF ContextFails, FailureReported, Close, EndCall, Become, Disarm, WireStep
<1>27. ASSUME NEW d \in Devices, NEW c \in Calls, Applied(d, c) PROVE WireStep(e)
  BY <1>27 DEF Applied, Described, EndCall, Become, Disarm, WireStep
<1>28. ASSUME NEW d \in Devices, Reconnect(d) PROVE WireStep(e)
  BY <1>28 DEF Reconnect, WireStep
<1>29. ASSUME NEW d \in Devices, Expire(d) PROVE WireStep(e)
  <2>1. wire[d] # <<>> /\ wire' = [wire EXCEPT ![d] = Tail(wire[d])]
    BY <1>29 DEF Expire
  <2> QED
    BY <2>1 DEF WireStep, QueueTypes
<1>30. ASSUME NEW d \in Devices, Demote(d) PROVE WireStep(e)
  BY <1>30 DEF Demote, EndCall, Become, Disarm, WireStep
<1> QED
  BY <1>1, <1>2, <1>3, <1>4, <1>5, <1>6, <1>7, <1>8, <1>9, <1>10, <1>11, <1>12, <1>13, <1>14,
     <1>15, <1>16, <1>17, <1>18, <1>19, <1>20, <1>21, <1>22, <1>23, <1>24, <1>25, <1>26, <1>27,
     <1>28, <1>29, <1>30
     DEF Next, Progress, Media, Work

-----------------------------------------------------------------------------
\* Type correctness

\* The states of calls and of what they await keep their types.
LEMMA StatusTypesStep ==
    ASSUME Inv, Next
    PROVE  StatusTypes'
<1> USE DEF Inv, TypeOK, StatusTypes, Both, Steps, Ringing, InCall, manager, Live
<1>1. ASSUME NEW d \in Devices, NEW c \in Calls, Place(d, c) PROVE StatusTypes'
  BY <1>1 DEF Place, Goto
<1>2. ASSUME NEW d \in Devices, NEW c \in Calls, Register(d, c) PROVE StatusTypes'
  BY <1>2 DEF Register, Leave, Goto, Become
<1>3. ASSUME NEW d \in Devices, NEW c \in Calls, Accept(d, c) PROVE StatusTypes'
  BY <1>3 DEF Accept, Goto, Disarm
<1>4. ASSUME NEW d \in Devices, NEW c \in Calls, Hangup(d, c) PROVE StatusTypes'
  BY <1>4 DEF Hangup, Schedule, EndCall, Become, Disarm
<1>5. ASSUME NEW d \in Devices, NEW c \in Calls, Turn(d, c) PROVE StatusTypes'
  BY <1>5 DEF Turn, Fail, Leave, Goto, EndCall, Become, Disarm
<1>6. ASSUME NEW d \in Devices, NEW c \in Calls, TurnFails(d, c) PROVE StatusTypes'
  BY <1>6 DEF TurnFails, Fail, Leave, Goto, EndCall, Become, Disarm
<1>7. ASSUME NEW d \in Devices, NEW c \in Calls, Create(d, c) PROVE StatusTypes'
  BY <1>7 DEF Create, Fail, Leave, Goto, EndCall, Become, Disarm
<1>8. ASSUME NEW d \in Devices, NEW c \in Calls, Capture(d, c) PROVE StatusTypes'
  BY <1>8 DEF Capture, Described
<1>9. ASSUME NEW d \in Devices, NEW c \in Calls, CaptureFails(d, c) PROVE StatusTypes'
  BY <1>9 DEF CaptureFails, Fail, Leave, Goto, EndCall, Become, Disarm
<1>10. ASSUME NEW d \in Devices, NEW c \in Calls, SetUp(d, c) PROVE StatusTypes'
  BY <1>10 DEF SetUp, Schedule, Goto
<1>11. ASSUME NEW c \in Calls, Trickle(c) PROVE StatusTypes'
  BY <1>11 DEF Trickle, Schedule
<1>12. ASSUME NEW d \in Devices, NEW c \in Calls, Teardown(d, c) PROVE StatusTypes'
  BY <1>12 DEF Teardown, Close
<1>13. ASSUME NEW d \in Devices, Send(d) PROVE StatusTypes'
  BY <1>13 DEF Send
<1>14. ASSUME NEW d \in Devices, FinishTask(d) PROVE StatusTypes'
  BY <1>14 DEF FinishTask, Fail, Leave, Goto, EndCall, Become, Disarm
<1>15. ASSUME NEW d \in Devices, OfferRefused(d) PROVE StatusTypes'
  BY <1>15 DEF OfferRefused, Receive, Schedule
<1>16. ASSUME NEW d \in Devices, OfferArrives(d) PROVE StatusTypes'
  BY <1>16 DEF OfferArrives, Receive
<1>17. ASSUME NEW d \in Devices, Offer(d) PROVE StatusTypes'
  BY <1>17 DEF Offer, Schedule, Ring, Become
<1>18. ASSUME NEW d \in Devices, Reject(d) PROVE StatusTypes'
  BY <1>18 DEF Reject, Receive, EndCall, Become, Disarm
<1>19. ASSUME NEW d \in Devices, Answer(d) PROVE StatusTypes'
  BY <1>19 DEF Answer, Receive, Become, Disarm
<1>20. ASSUME NEW d \in Devices, Candidate(d) PROVE StatusTypes'
  BY <1>20 DEF Candidate, Receive
<1>21. ASSUME NEW d \in Devices, HangupArrives(d) PROVE StatusTypes'
  BY <1>21 DEF HangupArrives, Receive, EndCall, Become, Disarm
<1>22. ASSUME NEW d \in Devices, NEW c \in Calls, RingingTimeout(d, c) PROVE StatusTypes'
  BY <1>22 DEF RingingTimeout, Schedule, EndCall, Become, Disarm
<1>23. ASSUME NEW d \in Devices, NEW c \in Calls, Connected(d, c) PROVE StatusTypes'
  BY <1>23 DEF Connected, Become
<1>24. ASSUME NEW d \in Devices, NEW c \in Calls, Interrupted(d, c) PROVE StatusTypes'
  BY <1>24 DEF Interrupted, Become
<1>25. ASSUME NEW d \in Devices, NEW c \in Calls, GraceTimeout(d, c) PROVE StatusTypes'
  BY <1>25 DEF GraceTimeout, EndCall, Become, Disarm
<1>26. ASSUME NEW d \in Devices, NEW c \in Calls, ContextFails(d, c) \/ FailureReported(d, c)
       PROVE  StatusTypes'
  BY <1>26 DEF ContextFails, FailureReported, Close, EndCall, Become, Disarm
<1>27. ASSUME NEW d \in Devices, NEW c \in Calls, Applied(d, c) PROVE StatusTypes'
  BY <1>27 DEF Applied, Described, EndCall, Become, Disarm
<1>28. ASSUME NEW d \in Devices, Reconnect(d) PROVE StatusTypes'
  BY <1>28 DEF Reconnect
<1>29. ASSUME NEW d \in Devices, Expire(d) PROVE StatusTypes'
  BY <1>29 DEF Expire
<1>30. ASSUME NEW d \in Devices, Demote(d) PROVE StatusTypes'
  BY <1>30 DEF Demote, EndCall, Become, Disarm
<1> QED
  BY <1>1, <1>2, <1>3, <1>4, <1>5, <1>6, <1>7, <1>8, <1>9, <1>10, <1>11, <1>12, <1>13, <1>14,
     <1>15, <1>16, <1>17, <1>18, <1>19, <1>20, <1>21, <1>22, <1>23, <1>24, <1>25, <1>26, <1>27,
     <1>28, <1>29, <1>30
     DEF Next, Progress, Media, Work

\* A call is registered only where no other is: in the lock, `call` and
\* handleIncomingOffer look for one before they add theirs.
LEMMA OneActiveStep ==
    ASSUME Inv, Next
    PROVE  OneActive'
<1> SUFFICES ASSUME NEW d \in Devices, NEW c \in Calls, NEW e \in Calls,
                    Live(d, c)', Live(d, e)', c # e
             PROVE  FALSE
  BY DEF OneActive, Live
<1>1. ASSUME NEW f \in Calls, NEW g \in Calls, f # g, Live(d, f)', Live(d, g)' PROVE Live(d, f)
  <2>1. CASE Alone(d, f)
    BY <1>1, <2>1 DEF Alone, Busy, Live
  <2>2. CASE ~Alone(d, f)
    BY <1>1, <2>2, StatusCases DEF StatusStep, Live, Ringing, InCall
  <2> QED
    BY <2>1, <2>2
<1>2. Live(d, c) /\ Live(d, e)
  BY <1>1
<1> QED
  BY <1>2 DEF Inv, TypeOK, OneActive

\* The contexts, descriptions and candidates keep their types.
LEMMA ContextTypesStep ==
    ASSUME Inv, Next
    PROVE  ContextTypes'
<1> USE DEF Inv, TypeOK, ContextTypes, Both, context
<1>1. ASSUME NEW d \in Devices, NEW c \in Calls, Place(d, c) PROVE ContextTypes'
  BY <1>1 DEF Place, Goto
<1>2. ASSUME NEW d \in Devices, NEW c \in Calls, Register(d, c) PROVE ContextTypes'
  BY <1>2 DEF Register, Leave, Goto, Become
<1>3. ASSUME NEW d \in Devices, NEW c \in Calls, Accept(d, c) PROVE ContextTypes'
  BY <1>3 DEF Accept, Goto, Disarm
<1>4. ASSUME NEW d \in Devices, NEW c \in Calls, Hangup(d, c) PROVE ContextTypes'
  BY <1>4 DEF Hangup, Schedule, EndCall, Become, Disarm
<1>5. ASSUME NEW d \in Devices, NEW c \in Calls, Turn(d, c) PROVE ContextTypes'
  BY <1>5 DEF Turn, Fail, Leave, Goto, EndCall, Become, Disarm
<1>6. ASSUME NEW d \in Devices, NEW c \in Calls, TurnFails(d, c) PROVE ContextTypes'
  BY <1>6 DEF TurnFails, Fail, Leave, Goto, EndCall, Become, Disarm
<1>7. ASSUME NEW d \in Devices, NEW c \in Calls, Create(d, c) PROVE ContextTypes'
  BY <1>7 DEF Create, Fail, Leave, Goto, EndCall, Become, Disarm
<1>8. ASSUME NEW d \in Devices, NEW c \in Calls, Capture(d, c) PROVE ContextTypes'
  BY <1>8 DEF Capture, Described
<1>9. ASSUME NEW d \in Devices, NEW c \in Calls, CaptureFails(d, c) PROVE ContextTypes'
  BY <1>9 DEF CaptureFails, Fail, Leave, Goto, EndCall, Become, Disarm
<1>10. ASSUME NEW d \in Devices, NEW c \in Calls, SetUp(d, c) PROVE ContextTypes'
  BY <1>10 DEF SetUp, Schedule, Goto
<1>11. ASSUME NEW c \in Calls, Trickle(c) PROVE ContextTypes'
  BY <1>11 DEF Trickle, Schedule
<1>12. ASSUME NEW d \in Devices, NEW c \in Calls, Teardown(d, c) PROVE ContextTypes'
  BY <1>12 DEF Teardown, Close
<1>13. ASSUME NEW d \in Devices, Send(d) PROVE ContextTypes'
  BY <1>13 DEF Send
<1>14. ASSUME NEW d \in Devices, FinishTask(d) PROVE ContextTypes'
  BY <1>14 DEF FinishTask, Fail, Leave, Goto, EndCall, Become, Disarm
<1>15. ASSUME NEW d \in Devices, OfferRefused(d) PROVE ContextTypes'
  BY <1>15 DEF OfferRefused, Receive, Schedule
<1>16. ASSUME NEW d \in Devices, OfferArrives(d) PROVE ContextTypes'
  BY <1>16 DEF OfferArrives, Receive
<1>17. ASSUME NEW d \in Devices, Offer(d) PROVE ContextTypes'
  BY <1>17 DEF Offer, Schedule, Ring, Become
<1>18. ASSUME NEW d \in Devices, Reject(d) PROVE ContextTypes'
  BY <1>18 DEF Reject, Receive, EndCall, Become, Disarm
<1>19. ASSUME NEW d \in Devices, Answer(d) PROVE ContextTypes'
  BY <1>19 DEF Answer, Receive, Become, Disarm
<1>20. ASSUME NEW d \in Devices, Candidate(d) PROVE ContextTypes'
  <2> DEFINE c == Head(wire[d]).call
  <2>1. wire[d] \in Seq(Messages) /\ wire[d] # <<>>
    BY <1>20 DEF Candidate, Receive, QueueTypes
  <2>2. c \in Calls /\ step[<<d, c>>] \in Steps
    BY <2>1, TailFacts, MsgFacts DEF StatusTypes, Both
  <2>3. Live(d, c) => step[<<d, c>>] # "lock"
    BY <2>2 DEF RoleOf, Live, Ringing, InCall
  <2>4. candidate' = [candidate EXCEPT ![c] =
           CASE ~Live(d, c) -> "ignored"
             [] Live(d, c) /\ step[<<d, c>>] \in {"idle", "turn", "create"} -> "buffered"
             [] Live(d, c) /\ step[<<d, c>>] \in {"media", "task", "done"} ->
                  IF remote[<<d, c>>] = "set" THEN "added" ELSE "cached"]
    BY <1>20 DEF Candidate
  <2>5. UNCHANGED <<dom, remote, reported>>
    BY <1>20 DEF Candidate
  <2> HIDE DEF c
  <2> QED
    BY <2>2, <2>3, <2>4, <2>5 DEF Steps
<1>21. ASSUME NEW d \in Devices, HangupArrives(d) PROVE ContextTypes'
  BY <1>21 DEF HangupArrives, Receive, EndCall, Become, Disarm
<1>22. ASSUME NEW d \in Devices, NEW c \in Calls, RingingTimeout(d, c) PROVE ContextTypes'
  BY <1>22 DEF RingingTimeout, Schedule, EndCall, Become, Disarm
<1>23. ASSUME NEW d \in Devices, NEW c \in Calls, Connected(d, c) PROVE ContextTypes'
  BY <1>23 DEF Connected, Become
<1>24. ASSUME NEW d \in Devices, NEW c \in Calls, Interrupted(d, c) PROVE ContextTypes'
  BY <1>24 DEF Interrupted, Become
<1>25. ASSUME NEW d \in Devices, NEW c \in Calls, GraceTimeout(d, c) PROVE ContextTypes'
  BY <1>25 DEF GraceTimeout, EndCall, Become, Disarm
<1>26. ASSUME NEW d \in Devices, NEW c \in Calls, ContextFails(d, c) \/ FailureReported(d, c)
       PROVE  ContextTypes'
  BY <1>26 DEF ContextFails, FailureReported, Close, EndCall, Become, Disarm
<1>27. ASSUME NEW d \in Devices, NEW c \in Calls, Applied(d, c) PROVE ContextTypes'
  BY <1>27 DEF Applied, Described, EndCall, Become, Disarm
<1>28. ASSUME NEW d \in Devices, Reconnect(d) PROVE ContextTypes'
  BY <1>28 DEF Reconnect
<1>29. ASSUME NEW d \in Devices, Expire(d) PROVE ContextTypes'
  BY <1>29 DEF Expire
<1>30. ASSUME NEW d \in Devices, Demote(d) PROVE ContextTypes'
  BY <1>30 DEF Demote, EndCall, Become, Disarm
<1> QED
  BY <1>1, <1>2, <1>3, <1>4, <1>5, <1>6, <1>7, <1>8, <1>9, <1>10, <1>11, <1>12, <1>13, <1>14,
     <1>15, <1>16, <1>17, <1>18, <1>19, <1>20, <1>21, <1>22, <1>23, <1>24, <1>25, <1>26, <1>27,
     <1>28, <1>29, <1>30
     DEF Next, Progress, Media, Work

\* So do the timers, the leaders and the counters.
LEMMA BoundTypesStep ==
    ASSUME Inv, Next
    PROVE  BoundTypes'
<1> USE CallsAssumption DEF Inv, TypeOK, BoundTypes, Both, bounds, manager, context
<1>1. ASSUME NEW d \in Devices, NEW c \in Calls, Place(d, c) PROVE BoundTypes'
  BY <1>1 DEF Place, Goto
<1>2. ASSUME NEW d \in Devices, NEW c \in Calls, Register(d, c) PROVE BoundTypes'
  BY <1>2 DEF Register, Leave, Goto, Become
<1>3. ASSUME NEW d \in Devices, NEW c \in Calls, Accept(d, c) PROVE BoundTypes'
  BY <1>3 DEF Accept, Goto, Disarm
<1>4. ASSUME NEW d \in Devices, NEW c \in Calls, Hangup(d, c) PROVE BoundTypes'
  BY <1>4 DEF Hangup, Schedule, EndCall, Become, Disarm
<1>5. ASSUME NEW d \in Devices, NEW c \in Calls, Turn(d, c) PROVE BoundTypes'
  BY <1>5 DEF Turn, Fail, Leave, Goto, EndCall, Become, Disarm
<1>6. ASSUME NEW d \in Devices, NEW c \in Calls, TurnFails(d, c) PROVE BoundTypes'
  BY <1>6 DEF TurnFails, Fail, Leave, Goto, EndCall, Become, Disarm
<1>7. ASSUME NEW d \in Devices, NEW c \in Calls, Create(d, c) PROVE BoundTypes'
  BY <1>7 DEF Create, Fail, Leave, Goto, EndCall, Become, Disarm
<1>8. ASSUME NEW d \in Devices, NEW c \in Calls, Capture(d, c) PROVE BoundTypes'
  BY <1>8 DEF Capture, Described
<1>9. ASSUME NEW d \in Devices, NEW c \in Calls, CaptureFails(d, c) PROVE BoundTypes'
  BY <1>9 DEF CaptureFails, Fail, Leave, Goto, EndCall, Become, Disarm
<1>10. ASSUME NEW d \in Devices, NEW c \in Calls, SetUp(d, c) PROVE BoundTypes'
  BY <1>10 DEF SetUp, Schedule, Goto
<1>11. ASSUME NEW c \in Calls, Trickle(c) PROVE BoundTypes'
  BY <1>11 DEF Trickle, Schedule
<1>12. ASSUME NEW d \in Devices, NEW c \in Calls, Teardown(d, c) PROVE BoundTypes'
  BY <1>12 DEF Teardown, Close
<1>13. ASSUME NEW d \in Devices, Send(d) PROVE BoundTypes'
  BY <1>13 DEF Send
<1>14. ASSUME NEW d \in Devices, FinishTask(d) PROVE BoundTypes'
  <2>1. running[d].msg.call \in Calls
    BY <1>14 DEF FinishTask, QueueTypes, Messages
  <2> QED
    BY <1>14, <2>1 DEF FinishTask, Fail, EndCall, Disarm
<1>15. ASSUME NEW d \in Devices, OfferRefused(d) PROVE BoundTypes'
  BY <1>15 DEF OfferRefused, Receive, Schedule
<1>16. ASSUME NEW d \in Devices, OfferArrives(d) PROVE BoundTypes'
  BY <1>16 DEF OfferArrives, Receive, QueueTypes
<1>17. ASSUME NEW d \in Devices, Offer(d) PROVE BoundTypes'
  <2>1. Head(lock[d])[2] \in Calls
    BY <1>17 DEF Offer, QueueTypes
  <2> QED
    BY <1>17, <2>1 DEF Offer, Ring
<1>18. ASSUME NEW d \in Devices, Reject(d) PROVE BoundTypes'
  BY <1>18 DEF Reject, Receive, EndCall, Become, Disarm
<1>19. ASSUME NEW d \in Devices, Answer(d) PROVE BoundTypes'
  BY <1>19 DEF Answer, Receive, Become, Disarm
<1>20. ASSUME NEW d \in Devices, Candidate(d) PROVE BoundTypes'
  BY <1>20 DEF Candidate, Receive
<1>21. ASSUME NEW d \in Devices, HangupArrives(d) PROVE BoundTypes'
  BY <1>21 DEF HangupArrives, Receive, EndCall, Become, Disarm
<1>22. ASSUME NEW d \in Devices, NEW c \in Calls, RingingTimeout(d, c) PROVE BoundTypes'
  BY <1>22 DEF RingingTimeout, Schedule, EndCall, Become, Disarm
<1>23. ASSUME NEW d \in Devices, NEW c \in Calls, Connected(d, c) PROVE BoundTypes'
  BY <1>23 DEF Connected, Become
<1>24. ASSUME NEW d \in Devices, NEW c \in Calls, Interrupted(d, c) PROVE BoundTypes'
  BY <1>24 DEF Interrupted, Become
<1>25. ASSUME NEW d \in Devices, NEW c \in Calls, GraceTimeout(d, c) PROVE BoundTypes'
  BY <1>25 DEF GraceTimeout, EndCall, Become, Disarm
<1>26. ASSUME NEW d \in Devices, NEW c \in Calls, ContextFails(d, c) \/ FailureReported(d, c)
       PROVE  BoundTypes'
  BY <1>26 DEF ContextFails, FailureReported, Close, EndCall, Become, Disarm
<1>27. ASSUME NEW d \in Devices, NEW c \in Calls, Applied(d, c) PROVE BoundTypes'
  BY <1>27 DEF Applied, Described, EndCall, Become, Disarm
<1>28. ASSUME NEW d \in Devices, Reconnect(d) PROVE BoundTypes'
  BY <1>28 DEF Reconnect
<1>29. ASSUME NEW d \in Devices, Expire(d) PROVE BoundTypes'
  BY <1>29 DEF Expire
<1>30. ASSUME NEW d \in Devices, Demote(d) PROVE BoundTypes'
  <2>1. /\ demotions < MaxDemotions /\ demotions' = demotions + 1 /\ leads' = leads \ {d}
        /\ UNCHANGED <<losses, flaps, aborted>>
    BY <1>30 DEF Demote
  <2>2. timer' \subseteq timer /\ grace' \subseteq grace
    BY <1>30 DEF Demote, EndCall, Disarm
  <2> QED
    BY <2>1, <2>2
<1> QED
  BY <1>1, <1>2, <1>3, <1>4, <1>5, <1>6, <1>7, <1>8, <1>9, <1>10, <1>11, <1>12, <1>13, <1>14,
     <1>15, <1>16, <1>17, <1>18, <1>19, <1>20, <1>21, <1>22, <1>23, <1>24, <1>25, <1>26, <1>27,
     <1>28, <1>29, <1>30
     DEF Next, Progress, Media, Work

Functions ==
    /\ lock = [d \in Devices |-> lock[d]] /\ tasks = [d \in Devices |-> tasks[d]]
    /\ wire = [d \in Devices |-> wire[d]] /\ running = [d \in Devices |-> running[d]]

\* The queues stay functions.
LEMMA FunctionsStep ==
    ASSUME Inv, Next
    PROVE  Functions'
<1> USE DEF Inv, TypeOK, QueueTypes, Functions, manager, network
<1>1. ASSUME NEW d \in Devices, NEW c \in Calls, Place(d, c) PROVE Functions'
  BY <1>1 DEF Place, Goto
<1>2. ASSUME NEW d \in Devices, NEW c \in Calls, Register(d, c) PROVE Functions'
  BY <1>2 DEF Register, Leave, Goto, Become
<1>3. ASSUME NEW d \in Devices, NEW c \in Calls, Accept(d, c) PROVE Functions'
  BY <1>3 DEF Accept, Goto, Disarm
<1>4. ASSUME NEW d \in Devices, NEW c \in Calls, Hangup(d, c) PROVE Functions'
  BY <1>4 DEF Hangup, Schedule, EndCall, Become, Disarm
<1>5. ASSUME NEW d \in Devices, NEW c \in Calls, Turn(d, c) PROVE Functions'
  BY <1>5 DEF Turn, Fail, Leave, Goto, EndCall, Become, Disarm
<1>6. ASSUME NEW d \in Devices, NEW c \in Calls, TurnFails(d, c) PROVE Functions'
  BY <1>6 DEF TurnFails, Fail, Leave, Goto, EndCall, Become, Disarm
<1>7. ASSUME NEW d \in Devices, NEW c \in Calls, Create(d, c) PROVE Functions'
  BY <1>7 DEF Create, Fail, Leave, Goto, EndCall, Become, Disarm
<1>8. ASSUME NEW d \in Devices, NEW c \in Calls, Capture(d, c) PROVE Functions'
  BY <1>8 DEF Capture, Described
<1>9. ASSUME NEW d \in Devices, NEW c \in Calls, CaptureFails(d, c) PROVE Functions'
  BY <1>9 DEF CaptureFails, Fail, Leave, Goto, EndCall, Become, Disarm
<1>10. ASSUME NEW d \in Devices, NEW c \in Calls, SetUp(d, c) PROVE Functions'
  BY <1>10 DEF SetUp, Schedule, Goto
<1>11. ASSUME NEW c \in Calls, Trickle(c) PROVE Functions'
  BY <1>11 DEF Trickle, Schedule
<1>12. ASSUME NEW d \in Devices, NEW c \in Calls, Teardown(d, c) PROVE Functions'
  BY <1>12 DEF Teardown, Close
<1>13. ASSUME NEW d \in Devices, Send(d) PROVE Functions'
  BY <1>13 DEF Send
<1>14. ASSUME NEW d \in Devices, FinishTask(d) PROVE Functions'
  BY <1>14 DEF FinishTask, Fail, Leave, Goto, EndCall, Become, Disarm
<1>15. ASSUME NEW d \in Devices, OfferRefused(d) PROVE Functions'
  BY <1>15 DEF OfferRefused, Receive, Schedule
<1>16. ASSUME NEW d \in Devices, OfferArrives(d) PROVE Functions'
  BY <1>16 DEF OfferArrives, Receive
<1>17. ASSUME NEW d \in Devices, Offer(d) PROVE Functions'
  BY <1>17 DEF Offer, Schedule, Ring, Become
<1>18. ASSUME NEW d \in Devices, Reject(d) PROVE Functions'
  BY <1>18 DEF Reject, Receive, EndCall, Become, Disarm
<1>19. ASSUME NEW d \in Devices, Answer(d) PROVE Functions'
  BY <1>19 DEF Answer, Receive, Become, Disarm
<1>20. ASSUME NEW d \in Devices, Candidate(d) PROVE Functions'
  BY <1>20 DEF Candidate, Receive
<1>21. ASSUME NEW d \in Devices, HangupArrives(d) PROVE Functions'
  BY <1>21 DEF HangupArrives, Receive, EndCall, Become, Disarm
<1>22. ASSUME NEW d \in Devices, NEW c \in Calls, RingingTimeout(d, c) PROVE Functions'
  BY <1>22 DEF RingingTimeout, Schedule, EndCall, Become, Disarm
<1>23. ASSUME NEW d \in Devices, NEW c \in Calls, Connected(d, c) PROVE Functions'
  BY <1>23 DEF Connected, Become
<1>24. ASSUME NEW d \in Devices, NEW c \in Calls, Interrupted(d, c) PROVE Functions'
  BY <1>24 DEF Interrupted, Become
<1>25. ASSUME NEW d \in Devices, NEW c \in Calls, GraceTimeout(d, c) PROVE Functions'
  BY <1>25 DEF GraceTimeout, EndCall, Become, Disarm
<1>26. ASSUME NEW d \in Devices, NEW c \in Calls, ContextFails(d, c) \/ FailureReported(d, c)
       PROVE  Functions'
  BY <1>26 DEF ContextFails, FailureReported, Close, EndCall, Become, Disarm
<1>27. ASSUME NEW d \in Devices, NEW c \in Calls, Applied(d, c) PROVE Functions'
  BY <1>27 DEF Applied, Described, EndCall, Become, Disarm
<1>28. ASSUME NEW d \in Devices, Reconnect(d) PROVE Functions'
  BY <1>28 DEF Reconnect
<1>29. ASSUME NEW d \in Devices, Expire(d) PROVE Functions'
  BY <1>29 DEF Expire
<1>30. ASSUME NEW d \in Devices, Demote(d) PROVE Functions'
  BY <1>30 DEF Demote, EndCall, Become, Disarm
<1> QED
  BY <1>1, <1>2, <1>3, <1>4, <1>5, <1>6, <1>7, <1>8, <1>9, <1>10, <1>11, <1>12, <1>13, <1>14,
     <1>15, <1>16, <1>17, <1>18, <1>19, <1>20, <1>21, <1>22, <1>23, <1>24, <1>25, <1>26, <1>27,
     <1>28, <1>29, <1>30
     DEF Next, Progress, Media, Work

\* The active task keeps its type.
LEMMA RunningStep ==
    ASSUME Inv, Next, NEW e \in Devices
    PROVE  running'[e] \in {Idle} \cup [stage : Stages, msg : Messages]
<1> DEFINE Runs(f) == running[f] \in {Idle} \cup [stage : Stages, msg : Messages]
<1> USE DEF Inv, TypeOK, QueueTypes, network, Stages
<1>1. ASSUME NEW d \in Devices, NEW c \in Calls, Place(d, c) PROVE Runs(e)'
  BY <1>1 DEF Place, Goto
<1>2. ASSUME NEW d \in Devices, NEW c \in Calls, Register(d, c) PROVE Runs(e)'
  BY <1>2 DEF Register, Leave, Goto, Become
<1>3. ASSUME NEW d \in Devices, NEW c \in Calls, Accept(d, c) PROVE Runs(e)'
  BY <1>3 DEF Accept, Goto, Disarm
<1>4. ASSUME NEW d \in Devices, NEW c \in Calls, Hangup(d, c) PROVE Runs(e)'
  BY <1>4 DEF Hangup, Schedule, EndCall, Become, Disarm
<1>5. ASSUME NEW d \in Devices, NEW c \in Calls, Turn(d, c) PROVE Runs(e)'
  BY <1>5 DEF Turn, Fail, Leave, Goto, EndCall, Become, Disarm
<1>6. ASSUME NEW d \in Devices, NEW c \in Calls, TurnFails(d, c) PROVE Runs(e)'
  BY <1>6 DEF TurnFails, Fail, Leave, Goto, EndCall, Become, Disarm
<1>7. ASSUME NEW d \in Devices, NEW c \in Calls, Create(d, c) PROVE Runs(e)'
  BY <1>7 DEF Create, Fail, Leave, Goto, EndCall, Become, Disarm
<1>8. ASSUME NEW d \in Devices, NEW c \in Calls, Capture(d, c) PROVE Runs(e)'
  BY <1>8 DEF Capture, Described
<1>9. ASSUME NEW d \in Devices, NEW c \in Calls, CaptureFails(d, c) PROVE Runs(e)'
  BY <1>9 DEF CaptureFails, Fail, Leave, Goto, EndCall, Become, Disarm
<1>10. ASSUME NEW d \in Devices, NEW c \in Calls, SetUp(d, c) PROVE Runs(e)'
  BY <1>10 DEF SetUp, Schedule, Goto
<1>11. ASSUME NEW c \in Calls, Trickle(c) PROVE Runs(e)'
  BY <1>11 DEF Trickle, Schedule
<1>12. ASSUME NEW d \in Devices, NEW c \in Calls, Teardown(d, c) PROVE Runs(e)'
  BY <1>12 DEF Teardown, Close
<1>13. ASSUME NEW d \in Devices, Send(d) PROVE Runs(e)'
  BY <1>13 DEF Send
<1>14. ASSUME NEW d \in Devices, FinishTask(d) PROVE Runs(e)'
  BY <1>14 DEF FinishTask, Fail, Leave, Goto, EndCall, Become, Disarm
<1>15. ASSUME NEW d \in Devices, OfferRefused(d) PROVE Runs(e)'
  BY <1>15 DEF OfferRefused, Receive, Schedule
<1>16. ASSUME NEW d \in Devices, OfferArrives(d) PROVE Runs(e)'
  BY <1>16 DEF OfferArrives, Receive
<1>17. ASSUME NEW d \in Devices, Offer(d) PROVE Runs(e)'
  BY <1>17 DEF Offer, Schedule, Ring, Become
<1>18. ASSUME NEW d \in Devices, Reject(d) PROVE Runs(e)'
  BY <1>18 DEF Reject, Receive, EndCall, Become, Disarm
<1>19. ASSUME NEW d \in Devices, Answer(d) PROVE Runs(e)'
  <2>1. wire[d] \in Seq(Messages) /\ wire[d] # <<>>
    BY <1>19 DEF Answer, Receive
  <2>2. Head(wire[d]) \in Messages
    BY <2>1
  <2>3. \/ UNCHANGED running
        \/ running' = [running EXCEPT ![d] = [stage |-> "applying", msg |-> Head(wire[d])]]
        \/ running' = [running EXCEPT ![d] = [stage |-> Idle, msg |-> Head(wire[d])]] /\ Idle # Idle
    BY <1>19 DEF Answer, Receive
  <2> QED
    BY <2>2, <2>3
<1>20. ASSUME NEW d \in Devices, Candidate(d) PROVE Runs(e)'
  BY <1>20 DEF Candidate, Receive
<1>21. ASSUME NEW d \in Devices, HangupArrives(d) PROVE Runs(e)'
  BY <1>21 DEF HangupArrives, Receive, EndCall, Become, Disarm
<1>22. ASSUME NEW d \in Devices, NEW c \in Calls, RingingTimeout(d, c) PROVE Runs(e)'
  BY <1>22 DEF RingingTimeout, Schedule, EndCall, Become, Disarm
<1>23. ASSUME NEW d \in Devices, NEW c \in Calls, Connected(d, c) PROVE Runs(e)'
  BY <1>23 DEF Connected, Become
<1>24. ASSUME NEW d \in Devices, NEW c \in Calls, Interrupted(d, c) PROVE Runs(e)'
  BY <1>24 DEF Interrupted, Become
<1>25. ASSUME NEW d \in Devices, NEW c \in Calls, GraceTimeout(d, c) PROVE Runs(e)'
  BY <1>25 DEF GraceTimeout, EndCall, Become, Disarm
<1>26. ASSUME NEW d \in Devices, NEW c \in Calls, ContextFails(d, c) \/ FailureReported(d, c)
       PROVE  Runs(e)'
  BY <1>26 DEF ContextFails, FailureReported, Close, EndCall, Become, Disarm
<1>27. ASSUME NEW d \in Devices, NEW c \in Calls, Applied(d, c) PROVE Runs(e)'
  BY <1>27 DEF Applied, Described, EndCall, Become, Disarm
<1>28. ASSUME NEW d \in Devices, Reconnect(d) PROVE Runs(e)'
  BY <1>28 DEF Reconnect
<1>29. ASSUME NEW d \in Devices, Expire(d) PROVE Runs(e)'
  BY <1>29 DEF Expire
<1>30. ASSUME NEW d \in Devices, Demote(d) PROVE Runs(e)'
  BY <1>30 DEF Demote, EndCall, Become, Disarm
<1> QED
  BY <1>1, <1>2, <1>3, <1>4, <1>5, <1>6, <1>7, <1>8, <1>9, <1>10, <1>11, <1>12, <1>13, <1>14,
     <1>15, <1>16, <1>17, <1>18, <1>19, <1>20, <1>21, <1>22, <1>23, <1>24, <1>25, <1>26, <1>27,
     <1>28, <1>29, <1>30
     DEF Next, Progress, Media, Work

\* So do the queues.
LEMMA QueueTypesStep ==
    ASSUME Inv, Next
    PROVE  QueueTypes'
<1> DEFINE L == {"call", "offer"} \X Calls
<1> DEFINE Fits(f, g, S) == \/ g = f
                            \/ g = <<>>
                            \/ f # <<>> /\ g = Tail(f)
                            \/ \E x \in S : g = Append(f, x)
<1>0. ASSUME NEW S, NEW f \in Seq(S), NEW g, Fits(f, g, S) PROVE g \in Seq(S)
  <2>1. ASSUME NEW x \in S, g = Append(f, x) PROVE g \in Seq(S)
    BY <2>1, AppendFacts
  <2>2. <<>> \in Seq(S) /\ (f # <<>> => Tail(f) \in Seq(S))
    BY TailFacts
  <2>3. g = f \/ g = <<>> \/ (f # <<>> /\ g = Tail(f)) \/ \E x \in S : g = Append(f, x)
    BY <1>0
  <2> HIDE DEF Fits
  <2> QED
    BY <2>1, <2>2, <2>3, Zenon
<1> HIDE DEF Fits
<1>1. ASSUME NEW d \in Devices
      PROVE  lock[d] \in Seq(L) /\ tasks[d] \in Seq(Messages) /\ wire[d] \in Seq(Messages)
  BY DEF Inv, TypeOK, QueueTypes
<1>2. ASSUME NEW d \in Devices PROVE lock'[d] \in Seq(L)
  <2>1. \A c \in Calls : <<"call", c>> \in L /\ <<"offer", c>> \in L
    OBVIOUS
  <2> HIDE DEF L
  <2> QED
    BY <1>0, <1>1, <2>1, LockCases DEF LockStep, Fits
<1> HIDE DEF L
<1>3. ASSUME NEW d \in Devices PROVE tasks'[d] \in Seq(Messages)
  <2>1. Fits(tasks[d], tasks'[d], Messages)
    BY TasksCases DEF TasksStep, Fits
  <2> QED
    BY <1>0, <1>1, <2>1
<1>4. ASSUME NEW d \in Devices PROVE wire'[d] \in Seq(Messages)
  BY <1>0, <1>1, WireCases DEF WireStep, Fits
<1>5. /\ lock' \in [Devices -> Seq(L)]
      /\ tasks' \in [Devices -> Seq(Messages)] /\ wire' \in [Devices -> Seq(Messages)]
  BY <1>2, <1>3, <1>4, FunctionsStep DEF Functions
<1>6. running' \in [Devices -> {Idle} \cup [stage : Stages, msg : Messages]]
  BY RunningStep, FunctionsStep DEF Functions
<1> QED
  BY <1>5, <1>6 DEF QueueTypes, L

-----------------------------------------------------------------------------
\* Roles, the lock, and where a message comes from

\* The caller rings out and the callee rings in.
LEMMA RoleStep ==
    ASSUME Inv, Next
    PROVE  RoleOf'
<1> SUFFICES ASSUME NEW d \in Devices, NEW c \in Calls
             PROVE  /\ status'[<<d, c>>] = "ringing-out" => d = Caller[c]
                    /\ status'[<<d, c>>] = "ringing-in" => d # Caller[c]
                    /\ step'[<<d, c>>] = "lock" => d = Caller[c]
                    /\ d = Caller[c] /\ step'[<<d, c>>] \in {"idle", "lock"} =>
                          status'[<<d, c>>] = "idle"
                    /\ d # Caller[c] /\ status'[<<d, c>>] = "idle" => step'[<<d, c>>] = "idle"
  BY DEF RoleOf
<1>1. StatusStep(d, c) /\ StepStep(d, c)
  BY StatusCases, StepCases
<1>2. /\ status[<<d, c>>] = "ringing-out" => d = Caller[c]
      /\ status[<<d, c>>] = "ringing-in" => d # Caller[c]
      /\ step[<<d, c>>] = "lock" => d = Caller[c]
      /\ d = Caller[c] /\ step[<<d, c>>] \in {"idle", "lock"} => status[<<d, c>>] = "idle"
      /\ d # Caller[c] /\ status[<<d, c>>] = "idle" => step[<<d, c>>] = "idle"
  BY DEF Inv, RoleOf
<1> QED
  BY <1>1, <1>2 DEF StatusStep, StepStep, Live, Ringing, InCall

\* The queues are sequences.
LEMMA SeqTypes ==
    ASSUME Inv, NEW d \in Devices
    PROVE  /\ lock[d] \in Seq({"call", "offer"} \X Calls)
           /\ tasks[d] \in Seq(Messages) /\ wire[d] \in Seq(Messages)
BY DEF Inv, TypeOK, QueueTypes

\* The executor of `call` is in the lock, once, and at its head while it
\* runs.
LEMMA LockOfStep ==
    ASSUME Inv, Next
    PROVE  LockOf'
<1> DEFINE L == {"call", "offer"} \X Calls
<1> SUFFICES ASSUME NEW d \in Devices, NEW c \in Calls
             PROVE  /\ Once(lock'[d], <<"call", c>>)
                    /\ <<"call", c>> \in Within(lock'[d]) =>
                          d = Caller[c] /\ step'[<<d, c>>] \notin {"idle", "done"}
                    /\ step'[<<d, c>>] = "lock" => <<"call", c>> \in Within(lock'[d])
                    /\ d = Caller[c] /\ step'[<<d, c>>] \in {"turn", "create", "media", "task"} =>
                          lock'[d] # <<>> /\ Head(lock'[d]) = <<"call", c>>
  BY DEF LockOf, Once, Within
<1>1. /\ Once(lock[d], <<"call", c>>)
      /\ <<"call", c>> \in Within(lock[d]) => d = Caller[c] /\ step[<<d, c>>] \notin {"idle", "done"}
      /\ step[<<d, c>>] = "lock" => <<"call", c>> \in Within(lock[d])
      /\ d = Caller[c] /\ step[<<d, c>>] \in {"turn", "create", "media", "task"} =>
            lock[d] # <<>> /\ Head(lock[d]) = <<"call", c>>
  BY DEF Inv, LockOf
<1>2. lock[d] \in Seq(L) /\ StepStep(d, c) /\ (step'[<<d, c>>] = "lock" => d = Caller[c])
  BY SeqTypes, StepCases, RoleStep DEF RoleOf
<1>3. \A k \in Calls : <<"call", k>> \in L /\ <<"offer", k>> \in L
  OBVIOUS
<1>4. \A k \in Calls : <<"offer", k>> # <<"call", c>> /\ (k # c => <<"call", k>> # <<"call", c>>)
  OBVIOUS
<1> HIDE DEF L
<1>5. CASE lock'[d] = lock[d] /\ \A k \in Calls : d = Caller[k] => Stays(d, k)
  <2>1. step[<<d, c>>] = "lock" => lock[d] # <<>>
    BY <1>1, EmptyFacts
  <2> QED
    BY <1>1, <1>2, <1>5, <2>1 DEF Stays, StepStep
<1>6. ASSUME NEW k \in Calls, d = Caller[k], step[<<d, k>>] = "idle", step'[<<d, k>>] = "lock",
             lock'[d] = Append(lock[d], <<"call", k>>),
             \A l \in Calls \ {k} : step'[<<d, l>>] = step[<<d, l>>]
      PROVE  /\ Once(lock'[d], <<"call", c>>)
             /\ <<"call", c>> \in Within(lock'[d]) =>
                   d = Caller[c] /\ step'[<<d, c>>] \notin {"idle", "done"}
             /\ step'[<<d, c>>] = "lock" => <<"call", c>> \in Within(lock'[d])
             /\ d = Caller[c] /\ step'[<<d, c>>] \in {"turn", "create", "media", "task"} =>
                   lock'[d] # <<>> /\ Head(lock'[d]) = <<"call", c>>
  <2> DEFINE x == <<"call", k>>
  <2>4. x \in L /\ (k # c => <<"call", c>> # x) /\ lock'[d] = Append(lock[d], x)
    BY <1>3, <1>4, <1>6
  <2>5. k = c => x = <<"call", c>>
    OBVIOUS
  <2> HIDE DEF x
  <2>6. /\ Within(lock'[d]) = Within(lock[d]) \cup {x}
        /\ Once(lock[d], <<"call", c>>) /\ (c # k \/ <<"call", c>> \notin Within(lock[d]))
              => Once(lock'[d], <<"call", c>>)
        /\ lock[d] # <<>> => lock'[d] # <<>> /\ Head(lock'[d]) = Head(lock[d])
    BY <1>2, <2>4, <2>5, AppendFacts
  <2>1. /\ Within(lock'[d]) = Within(lock[d]) \cup {<<"call", k>>}
        /\ Once(lock[d], <<"call", c>>) /\ (c # k \/ <<"call", c>> \notin Within(lock[d]))
              => Once(lock'[d], <<"call", c>>)
        /\ lock[d] # <<>> => lock'[d] # <<>> /\ Head(lock'[d]) = Head(lock[d])
    BY <2>6 DEF x
  <2>2. CASE k = c
    BY <1>1, <1>6, <2>1, <2>2
  <2>3. CASE k # c
    BY <1>1, <1>4, <1>6, <2>1, <2>3
  <2> QED
    BY <2>2, <2>3
<1>7. ASSUME NEW k \in Calls, lock'[d] = Append(lock[d], <<"offer", k>>),
             \A l \in Calls : step'[<<d, l>>] = step[<<d, l>>]
      PROVE  /\ Once(lock'[d], <<"call", c>>)
             /\ <<"call", c>> \in Within(lock'[d]) =>
                   d = Caller[c] /\ step'[<<d, c>>] \notin {"idle", "done"}
             /\ step'[<<d, c>>] = "lock" => <<"call", c>> \in Within(lock'[d])
             /\ d = Caller[c] /\ step'[<<d, c>>] \in {"turn", "create", "media", "task"} =>
                   lock'[d] # <<>> /\ Head(lock'[d]) = <<"call", c>>
  <2> DEFINE x == <<"offer", k>>
  <2>4. x \in L /\ <<"call", c>> # x /\ lock'[d] = Append(lock[d], x)
    BY <1>3, <1>4, <1>7
  <2> HIDE DEF x
  <2>5. /\ Within(lock'[d]) = Within(lock[d]) \cup {x}
        /\ Once(lock[d], <<"call", c>>) => Once(lock'[d], <<"call", c>>)
        /\ lock[d] # <<>> => lock'[d] # <<>> /\ Head(lock'[d]) = Head(lock[d])
    BY <1>2, <2>4, AppendFacts
  <2>1. /\ Within(lock'[d]) = Within(lock[d]) \cup {<<"offer", k>>}
        /\ Once(lock[d], <<"call", c>>) => Once(lock'[d], <<"call", c>>)
        /\ lock[d] # <<>> => lock'[d] # <<>> /\ Head(lock'[d]) = Head(lock[d])
    BY <2>5 DEF x
  <2> QED
    BY <1>1, <1>4, <1>7, <2>1
<1>8. ASSUME NEW k \in Calls, lock[d] # <<>>, Head(lock[d]) = <<"call", k>>,
             lock'[d] = Tail(lock[d]), step'[<<d, k>>] = "done",
             \A l \in Calls \ {k} : d = Caller[l] => step'[<<d, l>>] = step[<<d, l>>]
      PROVE  /\ Once(lock'[d], <<"call", c>>)
             /\ <<"call", c>> \in Within(lock'[d]) =>
                   d = Caller[c] /\ step'[<<d, c>>] \notin {"idle", "done"}
             /\ step'[<<d, c>>] = "lock" => <<"call", c>> \in Within(lock'[d])
             /\ d = Caller[c] /\ step'[<<d, c>>] \in {"turn", "create", "media", "task"} =>
                   lock'[d] # <<>> /\ Head(lock'[d]) = <<"call", c>>
  <2>1. /\ Within(lock[d]) = {<<"call", k>>} \cup Within(lock'[d])
        /\ Once(lock'[d], <<"call", c>>)
        /\ k = c => <<"call", c>> \notin Within(lock'[d])
    BY <1>1, <1>2, <1>8, TailFacts
  <2>2. CASE k = c
    BY <1>8, <2>1, <2>2
  <2>3. CASE k # c
    BY <1>1, <1>2, <1>4, <1>8, <2>1, <2>3
  <2> QED
    BY <2>2, <2>3
<1>9. ASSUME NEW k \in Calls, lock[d] # <<>>, Head(lock[d]) = <<"offer", k>>,
             lock'[d] = Tail(lock[d]), \A l \in Calls : step'[<<d, l>>] = step[<<d, l>>]
      PROVE  /\ Once(lock'[d], <<"call", c>>)
             /\ <<"call", c>> \in Within(lock'[d]) =>
                   d = Caller[c] /\ step'[<<d, c>>] \notin {"idle", "done"}
             /\ step'[<<d, c>>] = "lock" => <<"call", c>> \in Within(lock'[d])
             /\ d = Caller[c] /\ step'[<<d, c>>] \in {"turn", "create", "media", "task"} =>
                   lock'[d] # <<>> /\ Head(lock'[d]) = <<"call", c>>
  <2>1. /\ Within(lock[d]) = {<<"offer", k>>} \cup Within(lock'[d])
        /\ Once(lock'[d], <<"call", c>>)
    BY <1>1, <1>2, <1>9, TailFacts
  <2> QED
    BY <1>1, <1>4, <1>9, <2>1
<1> QED
  BY <1>5, <1>6, <1>7, <1>8, <1>9, LockCases DEF LockStep

\* What is in a queue after a step was there before, or has just come.
LEMMA TasksFrom ==
    ASSUME Inv, Next, NEW d \in Devices, NEW m \in Messages, m \in Within(tasks'[d])
    PROVE  m \in Within(tasks[d]) \/ Made(d, m)
<1>1. TasksStep(d) /\ tasks[d] \in Seq(Messages)
  BY TasksCases, SeqTypes
<1>2. ASSUME NEW x \in Messages, tasks'[d] = Append(tasks[d], x), Made(d, x)
      PROVE  m \in Within(tasks[d]) \/ Made(d, m)
  BY <1>1, <1>2, AppendFacts
<1> QED
  BY <1>1, <1>2, TailFacts, EmptyFacts DEF TasksStep

\* What is on the wire was there, or was the head of the peer's tasks.
LEMMA WireFrom ==
    ASSUME Inv, Next, NEW d \in Devices, NEW m \in Messages, m \in Within(wire'[d])
    PROVE  m \in Within(wire[d]) \/ (Sent(Peer(d), m) /\ m \in Within(tasks[Peer(d)]))
<1>1. WireStep(d) /\ wire[d] \in Seq(Messages)
  BY WireCases, SeqTypes
<1>2. ASSUME NEW x \in Messages, wire'[d] = Append(wire[d], x), Sent(Peer(d), x)
      PROVE  m \in Within(wire[d]) \/ (Sent(Peer(d), m) /\ m \in Within(tasks[Peer(d)]))
  <2>1. Peer(d) \in Devices
    BY Two
  <2>2. x \in Within(tasks[Peer(d)])
    BY <1>2, <2>1, SeqTypes, TailFacts DEF Sent
  <2> QED
    BY <1>1, <1>2, <2>2, AppendFacts
<1> QED
  BY <1>1, <1>2, TailFacts DEF WireStep

\* An offer in the lock was there, or is the message that was just received.
LEMMA LockFrom ==
    ASSUME Inv, Next, NEW d \in Devices, NEW c \in Calls, <<"offer", c>> \in Within(lock'[d])
    PROVE  \/ <<"offer", c>> \in Within(lock[d])
           \/ Came(d, Msg("OFFER", c)) /\ Msg("OFFER", c) \in Within(wire[d])
<1> DEFINE L == {"call", "offer"} \X Calls
<1>1. LockStep(d) /\ lock[d] \in Seq(L) /\ wire[d] \in Seq(Messages)
  BY LockCases, SeqTypes
<1>2. \A k \in Calls : <<"call", k>> \in L /\ <<"offer", k>> \in L
  OBVIOUS
<1>3. \A k \in Calls : <<"call", k>> # <<"offer", c>> /\ (k # c => <<"offer", k>> # <<"offer", c>>)
  OBVIOUS
<1> HIDE DEF L
<1>4. ASSUME NEW k \in Calls, lock'[d] = Append(lock[d], <<"call", k>>)
      PROVE  <<"offer", c>> \in Within(lock[d])
  <2> DEFINE x == <<"call", k>>
  <2>1. x \in L /\ x # <<"offer", c>> /\ lock'[d] = Append(lock[d], x)
    BY <1>2, <1>3, <1>4
  <2> HIDE DEF x
  <2> QED
    BY <1>1, <2>1, AppendFacts
<1>5. ASSUME NEW k \in Calls, Came(d, Msg("OFFER", k)), lock'[d] = Append(lock[d], <<"offer", k>>)
      PROVE  \/ <<"offer", c>> \in Within(lock[d])
             \/ Came(d, Msg("OFFER", c)) /\ Msg("OFFER", c) \in Within(wire[d])
  <2>1. Msg("OFFER", k) \in Within(wire[d])
    BY <1>1, <1>5, TailFacts DEF Came
  <2> QED
    <3> DEFINE x == <<"offer", k>>
    <3>1. x \in L /\ (x = <<"offer", c>> => k = c) /\ lock'[d] = Append(lock[d], x)
      BY <1>2, <1>3, <1>5
    <3> HIDE DEF x
    <3>2. Within(lock'[d]) = Within(lock[d]) \cup {x}
      BY <1>1, <3>1, AppendFacts
    <3>3. <<"offer", c>> \in Within(lock[d]) \/ k = c
      BY <3>1, <3>2
    <3> QED
      BY <1>5, <2>1, <3>3
<1> QED
  BY <1>1, <1>4, <1>5, TailFacts DEF LockStep

\* No message goes the wrong way.
LEMMA DirectionStep ==
    ASSUME Inv, Next
    PROVE  DirectionOf'
<1> SUFFICES ASSUME NEW d \in Devices, NEW c \in Calls
             PROVE  /\ d # Caller[c] => Msg("OFFER", c) \notin Within(tasks'[d])
                    /\ d # Caller[c] => Msg("CANDIDATE", c) \notin Within(tasks'[d])
                    /\ d = Caller[c] => Msg("ACCEPT", c) \notin Within(tasks'[d])
                    /\ d = Caller[c] => /\ Msg("OFFER", c) \notin Within(wire'[d])
                                        /\ Msg("CANDIDATE", c) \notin Within(wire'[d])
                                        /\ <<"offer", c>> \notin Within(lock'[d])
  BY DEF DirectionOf, Within, Msg
<1>1. \A e \in Devices :
        /\ e # Caller[c] => Msg("OFFER", c) \notin Within(tasks[e])
        /\ e # Caller[c] => Msg("CANDIDATE", c) \notin Within(tasks[e])
        /\ e = Caller[c] => Msg("ACCEPT", c) \notin Within(tasks[e])
        /\ e = Caller[c] => /\ Msg("OFFER", c) \notin Within(wire[e])
                            /\ Msg("CANDIDATE", c) \notin Within(wire[e])
                            /\ <<"offer", c>> \notin Within(lock[e])
  BY DEF Inv, DirectionOf
<1>2. \A k \in Kinds : Msg(k, c) \in Messages /\ Msg(k, c).kind = k /\ Msg(k, c).call = c
  BY MsgFacts
<1>3. Peer(d) \in Devices /\ Peer(d) # d
  BY Two
<1>4. ASSUME NEW k \in {"OFFER", "CANDIDATE", "ACCEPT"}, Msg(k, c) \in Within(tasks'[d])
      PROVE  (k = "ACCEPT" => d # Caller[c]) /\ (k # "ACCEPT" => d = Caller[c])
  <2>1. Msg(k, c) \in Messages /\ Msg(k, c).kind = k /\ Msg(k, c).call = c
    BY <1>2 DEF Kinds
  <2>2. Msg(k, c) \in Within(tasks[d]) \/ Made(d, Msg(k, c))
    BY <1>4, <2>1, TasksFrom
  <2> QED
    BY <1>1, <2>1, <2>2 DEF Made
<1>5. ASSUME NEW k \in {"OFFER", "CANDIDATE"}, Msg(k, c) \in Within(wire'[d])
      PROVE  d # Caller[c]
  BY <1>1, <1>2, <1>3, <1>5, WireFrom DEF Kinds
<1>6. <<"offer", c>> \in Within(lock'[d]) => d # Caller[c]
  BY <1>1, LockFrom
<1> QED
  BY <1>4, <1>5, <1>6

-----------------------------------------------------------------------------
\* The offer is in one place

\* What a step leaves of the queues of a device
LEMMA HeadGone ==
    ASSUME Inv, NEW d \in Devices, NEW c \in Calls
    PROVE  /\ Sent(d, Msg("OFFER", c)) =>
                Msg("OFFER", c) \in Within(tasks[d]) /\ Msg("OFFER", c) \notin Within(tasks'[d])
           /\ Came(d, Msg("OFFER", c)) =>
                Msg("OFFER", c) \in Within(wire[d]) /\ Msg("OFFER", c) \notin Within(wire'[d])
           /\ lock[d] # <<>> /\ Head(lock[d]) = <<"offer", c>> =>
                /\ <<"offer", c>> \in Within(lock[d])
                /\ lock'[d] = Tail(lock[d]) => <<"offer", c>> \notin Within(lock'[d])
<1>1. /\ Once(tasks[d], Msg("OFFER", c)) /\ Once(wire[d], Msg("OFFER", c))
      /\ Once(lock[d], <<"offer", c>>)
  BY DEF Inv, OfferOf
<1>2. Sent(d, Msg("OFFER", c)) =>
         Msg("OFFER", c) \in Within(tasks[d]) /\ Msg("OFFER", c) \notin Within(tasks'[d])
  BY <1>1, SeqTypes, TailFacts DEF Sent
<1>3. Came(d, Msg("OFFER", c)) =>
         Msg("OFFER", c) \in Within(wire[d]) /\ Msg("OFFER", c) \notin Within(wire'[d])
  BY <1>1, SeqTypes, TailFacts DEF Came
<1>4. lock[d] # <<>> /\ Head(lock[d]) = <<"offer", c>> =>
        /\ <<"offer", c>> \in Within(lock[d])
        /\ lock'[d] = Tail(lock[d]) => <<"offer", c>> \notin Within(lock'[d])
  BY <1>1, SeqTypes, TailFacts
<1> QED
  BY <1>2, <1>3, <1>4

\* No step makes a second copy of an offer.
LEMMA OnceStep ==
    ASSUME Inv, Next, NEW d \in Devices, NEW c \in Calls
    PROVE  /\ Once(tasks'[d], Msg("OFFER", c)) /\ Once(wire'[d], Msg("OFFER", c))
           /\ Once(lock'[d], <<"offer", c>>)
<1> DEFINE m == Msg("OFFER", c)
           L == {"call", "offer"} \X Calls
<1>1. /\ Once(tasks[d], m) /\ Once(wire[d], m) /\ Once(lock[d], <<"offer", c>>)
      /\ m \in Within(tasks[d]) => step[<<d, c>>] # "media"
      /\ m \in Within(tasks[Peer(d)]) => m \notin Within(wire[d])
      /\ m \in Within(wire[d]) => <<"offer", c>> \notin Within(lock[d])
  BY Two DEF Inv, OfferOf, Early
<1>2. lock[d] \in Seq(L) /\ tasks[d] \in Seq(Messages) /\ wire[d] \in Seq(Messages)
  BY SeqTypes
<1>3. m \in Messages /\ m.kind = "OFFER" /\ m.call = c
  BY MsgFacts DEF Kinds
<1>4. \A k \in Calls : /\ <<"call", k>> \in L /\ <<"offer", k>> \in L
                       /\ <<"offer", c>> # <<"call", k>>
                       /\ Msg("OFFER", k) = m => k = c
                       /\ <<"offer", k>> = <<"offer", c>> => k = c
  BY MsgFacts DEF Kinds
<1>5. Peer(d) \in Devices
  BY Two
<1> HIDE DEF m, L
<1>6. Once(tasks'[d], m)
  <2>1. ASSUME NEW x \in Messages, tasks'[d] = Append(tasks[d], x), Made(d, x)
        PROVE  Once(tasks'[d], m)
    <3>1. x = m => m \notin Within(tasks[d])
      BY <1>1, <1>3, <2>1 DEF Made
    <3> QED
      BY <1>1, <1>2, <2>1, <3>1, AppendFacts
  <2> QED
    BY <1>1, <1>2, <2>1, TasksCases, TailFacts, EmptyFacts DEF TasksStep
<1>7. Once(wire'[d], m)
  <2>1. ASSUME NEW x \in Messages, wire'[d] = Append(wire[d], x), Sent(Peer(d), x)
        PROVE  Once(wire'[d], m)
    <3>1. x \in Within(tasks[Peer(d)])
      BY <1>5, <2>1, SeqTypes, TailFacts DEF Sent
    <3>2. x = m => m \notin Within(wire[d])
      BY <1>1, <3>1
    <3> QED
      BY <1>1, <1>2, <2>1, <3>2, AppendFacts
  <2> QED
    BY <1>1, <1>2, <2>1, WireCases, TailFacts DEF WireStep
<1>8. Once(lock'[d], <<"offer", c>>)
  <2>1. ASSUME NEW k \in Calls, lock'[d] = Append(lock[d], <<"call", k>>)
        PROVE  Once(lock'[d], <<"offer", c>>)
    <3> DEFINE x == <<"call", k>>
    <3>1. x \in L /\ <<"offer", c>> # x /\ lock'[d] = Append(lock[d], x)
      BY <1>4, <2>1
    <3> HIDE DEF x
    <3> QED
      BY <1>1, <1>2, <3>1, AppendFacts
  <2>2. ASSUME NEW k \in Calls, Came(d, Msg("OFFER", k)),
               lock'[d] = Append(lock[d], <<"offer", k>>)
        PROVE  Once(lock'[d], <<"offer", c>>)
    <3> DEFINE x == <<"offer", k>>
    <3>1. x \in L /\ lock'[d] = Append(lock[d], x) /\ (x = <<"offer", c>> => k = c)
      BY <1>4, <2>2
    <3>2. Msg("OFFER", k) \in Within(wire[d])
      BY <1>2, <2>2, TailFacts DEF Came
    <3>3. k = c => <<"offer", c>> \notin Within(lock[d])
      BY <1>1, <3>2 DEF m
    <3> HIDE DEF x
    <3> QED
      BY <1>1, <1>2, <3>1, <3>3, AppendFacts
  <2>3. lock[d] # <<>> /\ lock'[d] = Tail(lock[d]) => Once(lock'[d], <<"offer", c>>)
    BY <1>1, <1>2, TailFacts
  <2> QED
    BY <1>1, <2>1, <2>2, <2>3, LockCases DEF LockStep
<1> QED
  BY <1>6, <1>7, <1>8 DEF m

\* A call of the callee begins with its offer, taken from the lock.
LEMMA StillIdle ==
    ASSUME Inv, Next, NEW d \in Devices, NEW c \in Calls, d # Caller[c],
           status[<<d, c>>] = "idle", status'[<<d, c>>] # "idle"
    PROVE  <<"offer", c>> \in Within(lock[d]) /\ <<"offer", c>> \notin Within(lock'[d])
<1>1. lock[d] # <<>> /\ Head(lock[d]) = <<"offer", c>> /\ lock'[d] = Tail(lock[d])
  BY StatusCases DEF StatusStep, Live, Ringing, InCall
<1> QED
  BY <1>1, HeadGone

\* A call does not return to its first steps.
LEMMA StillLate ==
    ASSUME Inv, Next, NEW d \in Devices, NEW c \in Calls, step'[<<d, c>>] \in Early
    PROVE  step[<<d, c>>] \in Early
BY StepCases DEF StepStep, Early

\* The offer of a call stays in one place.
LEMMA OfferStep ==
    ASSUME Inv, Next
    PROVE  OfferOf'
<1> SUFFICES ASSUME NEW d \in Devices, NEW c \in Calls
             PROVE  /\ Once(tasks'[d], Msg("OFFER", c)) /\ Once(wire'[d], Msg("OFFER", c))
                    /\ Once(lock'[d], <<"offer", c>>)
                    /\ Msg("OFFER", c) \in Within(tasks'[d]) =>
                          /\ step'[<<d, c>>] \notin Early
                          /\ status'[<<Peer(d), c>>] = "idle"
                          /\ Msg("OFFER", c) \notin Within(wire'[Peer(d)])
                          /\ <<"offer", c>> \notin Within(lock'[Peer(d)])
                    /\ Msg("OFFER", c) \in Within(wire'[d]) =>
                          /\ step'[<<Peer(d), c>>] \notin Early
                          /\ status'[<<d, c>>] = "idle"
                          /\ <<"offer", c>> \notin Within(lock'[d])
                    /\ <<"offer", c>> \in Within(lock'[d]) =>
                          step'[<<Peer(d), c>>] \notin Early /\ status'[<<d, c>>] = "idle"
                    /\ d = Caller[c] /\ step'[<<d, c>>] \in Early =>
                          status'[<<Peer(d), c>>] = "idle"
  BY DEF OfferOf, Once, Within, Msg, Early
<1> DEFINE m == Msg("OFFER", c)
<1>1. /\ m \in Messages /\ m.kind = "OFFER" /\ m.call = c
      /\ Peer(d) \in Devices /\ Peer(d) # d /\ Peer(Peer(d)) = d
  BY MsgFacts, Two DEF Kinds
<1>2. ASSUME NEW e \in Devices
      PROVE  /\ m \in Within(tasks[e]) =>
                   /\ step[<<e, c>>] \notin Early
                   /\ status[<<Peer(e), c>>] = "idle"
                   /\ m \notin Within(wire[Peer(e)])
                   /\ <<"offer", c>> \notin Within(lock[Peer(e)])
             /\ m \in Within(wire[e]) =>
                   /\ step[<<Peer(e), c>>] \notin Early
                   /\ status[<<e, c>>] = "idle"
                   /\ <<"offer", c>> \notin Within(lock[e])
             /\ <<"offer", c>> \in Within(lock[e]) =>
                   step[<<Peer(e), c>>] \notin Early /\ status[<<e, c>>] = "idle"
             /\ e = Caller[c] /\ step[<<e, c>>] \in Early => status[<<Peer(e), c>>] = "idle"
  BY DEF Inv, OfferOf
<1>3. /\ m \in Within(tasks'[d]) => d = Caller[c]
      /\ m \in Within(wire'[d]) => d # Caller[c]
      /\ <<"offer", c>> \in Within(lock'[d]) => d # Caller[c]
  BY DirectionStep DEF DirectionOf, Within, Msg
<1>4. \A e \in Devices : Sent(e, m) => m \in Within(tasks[e]) /\ m \notin Within(tasks'[e])
  BY HeadGone
<1>5. \A e \in Devices : Came(e, m) => m \in Within(wire[e]) /\ m \notin Within(wire'[e])
  BY HeadGone
<1> HIDE DEF m
<1>6. ASSUME m \in Within(tasks'[d])
      PROVE  /\ step'[<<d, c>>] \notin Early
             /\ status'[<<Peer(d), c>>] = "idle"
             /\ m \notin Within(wire'[Peer(d)])
             /\ <<"offer", c>> \notin Within(lock'[Peer(d)])
  <2>1. \/ m \in Within(tasks[d])
        \/ step[<<d, c>>] = "media" /\ step'[<<d, c>>] = "task"
    BY <1>1, <1>6, TasksFrom DEF Made
  <2>2. /\ status[<<Peer(d), c>>] = "idle" /\ m \notin Within(wire[Peer(d)])
        /\ <<"offer", c>> \notin Within(lock[Peer(d)])
    BY <1>1, <1>2, <1>3, <1>6, <2>1 DEF Early
  <2>3. step'[<<d, c>>] \notin Early
    BY <1>2, <2>1, StillLate DEF Early
  <2>4. m \notin Within(wire'[Peer(d)])
    BY <1>1, <1>4, <1>6, <2>2, WireFrom
  <2>5. <<"offer", c>> \notin Within(lock'[Peer(d)])
    BY <1>1, <2>2, LockFrom DEF m
  <2>6. status'[<<Peer(d), c>>] = "idle"
    BY <1>1, <1>3, <1>6, <2>2, StillIdle
  <2> QED
    BY <2>3, <2>4, <2>5, <2>6
<1>7. ASSUME m \in Within(wire'[d])
      PROVE  /\ step'[<<Peer(d), c>>] \notin Early
             /\ status'[<<d, c>>] = "idle"
             /\ <<"offer", c>> \notin Within(lock'[d])
  <2>1. m \in Within(wire[d]) \/ m \in Within(tasks[Peer(d)])
    BY <1>1, <1>7, WireFrom
  <2>2. /\ step[<<Peer(d), c>>] \notin Early /\ status[<<d, c>>] = "idle"
        /\ <<"offer", c>> \notin Within(lock[d])
    BY <1>1, <1>2, <2>1
  <2>3. step'[<<Peer(d), c>>] \notin Early
    BY <1>1, <2>2, StillLate
  <2>4. <<"offer", c>> \notin Within(lock'[d])
    BY <1>5, <1>7, <2>2, LockFrom DEF m
  <2>5. status'[<<d, c>>] = "idle"
    BY <1>3, <1>7, <2>2, StillIdle
  <2> QED
    BY <2>3, <2>4, <2>5
<1>8. ASSUME <<"offer", c>> \in Within(lock'[d])
      PROVE  step'[<<Peer(d), c>>] \notin Early /\ status'[<<d, c>>] = "idle"
  <2>1. <<"offer", c>> \in Within(lock[d]) \/ m \in Within(wire[d])
    BY <1>8, LockFrom DEF m
  <2>2. step[<<Peer(d), c>>] \notin Early /\ status[<<d, c>>] = "idle"
    BY <1>2, <2>1
  <2> QED
    BY <1>1, <1>3, <1>8, <2>2, StillLate, StillIdle
<1>9. ASSUME d = Caller[c], step'[<<d, c>>] \in Early
      PROVE  status'[<<Peer(d), c>>] = "idle"
  <2>1. step[<<d, c>>] \in Early /\ status[<<Peer(d), c>>] = "idle"
    BY <1>2, <1>9, StillLate
  <2>2. <<"offer", c>> \notin Within(lock[Peer(d)])
    BY <1>1, <1>2, <2>1
  <2> QED
    BY <1>1, <1>9, <2>1, <2>2, StillIdle
<1> QED
  BY <1>6, <1>7, <1>8, <1>9, OnceStep DEF m

-----------------------------------------------------------------------------
\* The end of a call

\* A device that is done with a call stays so.
LEMMA StillOver ==
    ASSUME Inv, Next, NEW d \in Devices, NEW c \in Calls, Over(d, c)
    PROVE  Over(d, c)'
<1> DEFINE m == Msg("OFFER", c)
<1>1. m \in Messages /\ m.kind = "OFFER" /\ m.call = c /\ Peer(d) \in Devices /\ Peer(d) # d
  BY MsgFacts, Two DEF Kinds
<1>2. CASE status[<<d, c>>] = "ended"
  BY <1>2, StatusCases DEF StatusStep, Live, Ringing, InCall, Over
<1>3. CASE /\ d # Caller[c] /\ status[<<d, c>>] = "idle"
           /\ step[<<Peer(d), c>>] \notin Early
           /\ m \notin Within(tasks[Peer(d)]) \cup Within(wire[d])
           /\ <<"offer", c>> \notin Within(lock[d])
  <2>1. status'[<<d, c>>] = "idle"
    BY <1>3, StillIdle
  <2>2. step'[<<Peer(d), c>>] \notin Early
    BY <1>1, <1>3, StillLate
  <2>3. <<"offer", c>> \notin Within(lock'[d])
    BY <1>3, LockFrom
  <2> HIDE DEF m
  <2>4. m \notin Within(tasks'[Peer(d)])
    BY <1>1, <1>3, TasksFrom DEF Made, Early
  <2>5. m \notin Within(wire'[d])
    BY <1>1, <1>3, WireFrom
  <2> QED
    BY <1>3, <2>1, <2>2, <2>3, <2>4, <2>5 DEF Over, m, Msg, Within, Early
<1> QED
  BY <1>2, <1>3 DEF Over

\* A refused offer was the only one.
LEMMA RefusedIsOver ==
    ASSUME Inv, Next, NEW d \in Devices, NEW c \in Calls, Refused(d, c)
    PROVE  Over(d, c)'
<1> DEFINE m == Msg("OFFER", c)
<1>1. Peer(d) \in Devices /\ Peer(d) # d /\ Peer(Peer(d)) = d
  BY Two
<1>2. /\ m \in Within(tasks[Peer(d)]) =>
            m \notin Within(wire[d]) /\ <<"offer", c>> \notin Within(lock[d])
      /\ m \in Within(wire[d]) =>
            /\ step[<<Peer(d), c>>] \notin Early
            /\ status[<<d, c>>] = "idle" /\ <<"offer", c>> \notin Within(lock[d])
      /\ <<"offer", c>> \in Within(lock[d]) =>
            step[<<Peer(d), c>>] \notin Early /\ status[<<d, c>>] = "idle"
  BY <1>1 DEF Inv, OfferOf
<1>3. /\ d # Caller[c] /\ tasks'[Peer(d)] = tasks[Peer(d)] /\ step' = step /\ status' = status
      /\ \/ m \in Within(wire[d]) /\ m \notin Within(wire'[d]) /\ lock'[d] = lock[d]
         \/ /\ <<"offer", c>> \in Within(lock[d]) /\ <<"offer", c>> \notin Within(lock'[d])
            /\ wire'[d] = wire[d]
  BY HeadGone DEF Refused
<1> HIDE DEF m
<1>4. /\ d # Caller[c] /\ status'[<<d, c>>] = "idle" /\ step'[<<Peer(d), c>>] \notin Early
      /\ m \notin Within(tasks'[Peer(d)]) \cup Within(wire'[d])
      /\ <<"offer", c>> \notin Within(lock'[d])
  BY <1>2, <1>3
<1> QED
  BY <1>4 DEF Over, m, Msg, Within, Early

\* Who sends the end of a call is done with it.
LEMMA EndStep ==
    ASSUME Inv, Next
    PROVE  EndOf'
<1> SUFFICES ASSUME NEW d \in Devices, NEW c \in Calls, NEW k \in {"HANGUP", "REJECT"},
                    Msg(k, c) \in Within(tasks'[d]) \cup Within(wire'[Peer(d)])
             PROVE  Over(d, c)'
  BY DEF EndOf, Within, Msg
<1> DEFINE m == Msg(k, c)
<1>1. /\ m \in Messages /\ m.kind = k /\ m.call = c
      /\ Peer(d) \in Devices /\ Peer(Peer(d)) = d
  BY MsgFacts, Two DEF Kinds
<1>2. m \in Within(tasks[d]) \cup Within(wire[Peer(d)]) => Over(d, c)
  BY DEF Inv, EndOf
<1> HIDE DEF m
<1>3. m \in Within(tasks[d]) \cup Within(wire[Peer(d)]) \/ Made(d, m)
  BY <1>1, TasksFrom, WireFrom DEF m
<1>4. CASE Made(d, m)
  <2>1. status'[<<d, c>>] = "ended" \/ Refused(d, c)
    BY <1>1, <1>4 DEF Made
  <2>2. CASE status'[<<d, c>>] = "ended"
    BY <2>2 DEF Over
  <2> QED
    BY <2>1, <2>2, RefusedIsOver
<1> QED
  BY <1>2, <1>3, <1>4, StillOver

\* What is sent behind the end of a call is not its setup: the precondition
\* of the task does not hold any more.
LEMMA SetupStep ==
    ASSUME Inv, Next
    PROVE  SetupPrecedesEnd'
<1> SUFFICES ASSUME NEW d \in Devices, NEW i \in 1 .. Len(wire'[d]), NEW j \in 1 .. Len(wire'[d]),
                    i < j, wire'[d][i].call = wire'[d][j].call,
                    wire'[d][i].kind \in {"HANGUP", "REJECT"}
             PROVE  wire'[d][j].kind \notin {"OFFER", "ACCEPT"}
  <2>1. \A d \in Devices : DOMAIN wire'[d] = 1 .. Len(wire'[d])
    BY QueueTypesStep DEF QueueTypes
  <2> QED
    BY <2>1 DEF SetupPrecedesEnd
<1>1. wire[d] \in Seq(Messages)
  BY SeqTypes
<1>2. \A a, b \in 1 .. Len(wire[d]) :
         /\ a < b /\ wire[d][a].call = wire[d][b].call
         /\ wire[d][a].kind \in {"HANGUP", "REJECT"}
         => wire[d][b].kind \notin {"OFFER", "ACCEPT"}
  BY <1>1 DEF Inv, SetupPrecedesEnd
<1>3. CASE wire'[d] = wire[d]
  BY <1>2, <1>3
<1>4. CASE wire[d] # <<>> /\ wire'[d] = Tail(wire[d])
  <2>1. /\ Len(wire'[d]) = Len(wire[d]) - 1 /\ Len(wire[d]) \in Nat
        /\ \A a \in 1 .. Len(wire'[d]) : wire'[d][a] = wire[d][a + 1]
    BY <1>1, <1>4
  <2>2. /\ i + 1 \in 1 .. Len(wire[d]) /\ j + 1 \in 1 .. Len(wire[d]) /\ i + 1 < j + 1
        /\ wire'[d][i] = wire[d][i + 1] /\ wire'[d][j] = wire[d][j + 1]
    BY <2>1
  <2> QED
    BY <1>2, <2>2
<1>5. ASSUME NEW m \in Messages, Sent(Peer(d), m), wire'[d] = Append(wire[d], m)
      PROVE  wire'[d][j].kind \notin {"OFFER", "ACCEPT"}
  <2>1. /\ Len(wire'[d]) = Len(wire[d]) + 1 /\ Len(wire[d]) \in Nat
        /\ \A a \in 1 .. Len(wire[d]) : wire'[d][a] = wire[d][a]
        /\ wire'[d][Len(wire[d]) + 1] = m
    BY <1>1, <1>5
  <2>2. i \in 1 .. Len(wire[d]) /\ (j \in 1 .. Len(wire[d]) \/ j = Len(wire[d]) + 1)
    BY <2>1
  <2>3. CASE j \in 1 .. Len(wire[d])
    BY <1>2, <2>1, <2>2, <2>3
  <2>4. CASE j = Len(wire[d]) + 1
    <3>1. wire'[d][j] = m /\ wire[d][i] \in Messages /\ wire'[d][i] = wire[d][i]
      BY <1>1, <2>1, <2>2, <2>4
    <3>2. wire[d][i] = Msg(wire[d][i].kind, m.call) /\ wire[d][i] \in Within(wire[d])
      BY <2>2, <3>1, MsgFacts DEF Within
    <3>3. Over(Peer(d), m.call)
      BY <3>1, <3>2, MsgFacts, Two DEF Inv, EndOf
    <3>4. status[<<Peer(d), m.call>>] \in {"ended", "idle"}
      BY <3>3 DEF Over
    <3> QED
      BY <1>5, <3>1, <3>4 DEF Sent, Wanted
  <2> QED
    BY <2>2, <2>3, <2>4
<1> QED
  BY <1>3, <1>4, <1>5, WireCases DEF WireStep

-----------------------------------------------------------------------------
\* The context of the answerer

\* The steps that touch a context, and the one that makes an answer
ContextStep(d, c) ==
    \/ /\ UNCHANGED <<dom, aborted, remote, candidate>>
       /\ step'[<<d, c>>] = "task" => step[<<d, c>>] = "task"
    \/ \E e \in Devices, k \in Calls :
          \/ Create(e, k) \/ Capture(e, k) \/ SetUp(e, k)
          \/ Teardown(e, k) \/ ContextFails(e, k) \/ Applied(e, k)
    \/ \E e \in Devices : Answer(e) \/ Candidate(e)
    \/ \E k \in Calls : Trickle(k)

\* Every step leaves the contexts alone, or is one of these actions.
LEMMA ContextCases ==
    ASSUME Inv, Next, NEW e \in Devices, NEW k \in Calls
    PROVE  ContextStep(e, k)
<1> DEFINE Kept == /\ UNCHANGED <<dom, aborted, remote, candidate>>
                   /\ step'[<<e, k>>] = "task" => step[<<e, k>>] = "task"
<1> USE DEF Inv, TypeOK, StatusTypes, Both, manager, context, network
<1>1. ASSUME NEW d \in Devices, NEW c \in Calls, Place(d, c) PROVE Kept
  BY <1>1 DEF Place, Goto
<1>2. ASSUME NEW d \in Devices, NEW c \in Calls, Register(d, c) PROVE Kept
  BY <1>2 DEF Register, Leave, Goto, Become
<1>3. ASSUME NEW d \in Devices, NEW c \in Calls, Accept(d, c) PROVE Kept
  BY <1>3 DEF Accept, Goto, Disarm
<1>4. ASSUME NEW d \in Devices, NEW c \in Calls, Hangup(d, c) PROVE Kept
  BY <1>4 DEF Hangup, Schedule, EndCall, Become, Disarm
<1>5. ASSUME NEW d \in Devices, NEW c \in Calls, Turn(d, c) PROVE Kept
  BY <1>5 DEF Turn, Fail, Leave, Goto, EndCall, Become, Disarm
<1>6. ASSUME NEW d \in Devices, NEW c \in Calls, TurnFails(d, c) PROVE Kept
  BY <1>6 DEF TurnFails, Fail, Leave, Goto, EndCall, Become, Disarm
<1>7. ASSUME NEW d \in Devices, NEW c \in Calls, CaptureFails(d, c) PROVE Kept
  BY <1>7 DEF CaptureFails, Fail, Leave, Goto, EndCall, Become, Disarm
<1>8. ASSUME NEW d \in Devices, Send(d) PROVE Kept
  BY <1>8 DEF Send
<1>9. ASSUME NEW d \in Devices, FinishTask(d) PROVE Kept
  BY <1>9 DEF FinishTask, Fail, Leave, Goto, EndCall, Become, Disarm
<1>10. ASSUME NEW d \in Devices, OfferRefused(d) PROVE Kept
  BY <1>10 DEF OfferRefused, Receive, Schedule
<1>11. ASSUME NEW d \in Devices, OfferArrives(d) PROVE Kept
  BY <1>11 DEF OfferArrives, Receive
<1>12. ASSUME NEW d \in Devices, Offer(d) PROVE Kept
  BY <1>12 DEF Offer, Schedule, Ring, Become
<1>13. ASSUME NEW d \in Devices, Reject(d) PROVE Kept
  BY <1>13 DEF Reject, Receive, EndCall, Become, Disarm
<1>14. ASSUME NEW d \in Devices, HangupArrives(d) PROVE Kept
  BY <1>14 DEF HangupArrives, Receive, EndCall, Become, Disarm
<1>15. ASSUME NEW d \in Devices, NEW c \in Calls, RingingTimeout(d, c) PROVE Kept
  BY <1>15 DEF RingingTimeout, Schedule, EndCall, Become, Disarm
<1>16. ASSUME NEW d \in Devices, NEW c \in Calls, Connected(d, c) PROVE Kept
  BY <1>16 DEF Connected, Become
<1>17. ASSUME NEW d \in Devices, NEW c \in Calls, Interrupted(d, c) PROVE Kept
  BY <1>17 DEF Interrupted, Become
<1>18. ASSUME NEW d \in Devices, NEW c \in Calls, GraceTimeout(d, c) PROVE Kept
  BY <1>18 DEF GraceTimeout, EndCall, Become, Disarm
<1>19. ASSUME NEW d \in Devices, Reconnect(d) PROVE Kept
  BY <1>19 DEF Reconnect
<1>20. ASSUME NEW d \in Devices, Expire(d) PROVE Kept
  BY <1>20 DEF Expire
<1>21. ASSUME NEW d \in Devices, Demote(d) PROVE Kept
  BY <1>21 DEF Demote, EndCall, Become, Disarm
<1>22. ASSUME NEW d \in Devices, NEW c \in Calls, FailureReported(d, c) PROVE Kept
  BY <1>22 DEF FailureReported, EndCall, Become, Disarm
<1> QED
  BY <1>1, <1>2, <1>3, <1>4, <1>5, <1>6, <1>7, <1>8, <1>9, <1>10, <1>11, <1>12, <1>13, <1>14,
     <1>15, <1>16, <1>17, <1>18, <1>19, <1>20, <1>21, <1>22
     DEF ContextStep, Next, Progress, Media, Work

\* The description and the candidates of an answerer keep their order.
LEMMA AnswerStep ==
    ASSUME Inv, Next
    PROVE  AnswerOf'
<1> SUFFICES ASSUME NEW e \in Devices, NEW k \in Calls, e # Caller[k]
             PROVE  Answering(e, k)'
  BY DEF AnswerOf, Answering, Live
<1> DEFINE p == <<e, k>>
           Late == Live(e, k) /\ step[p] \in {"task", "done"}
<1>1. Answering(e, k)
  BY DEF Inv, AnswerOf
<1>2. /\ p \in Both /\ e = Callee(k)
      /\ dom \in [Both -> {"none", "open", "live"}] /\ remote \in [Both -> {"none", "applying", "set"}]
      /\ DOMAIN candidate = Calls /\ step \in [Both -> Steps]
  BY Two DEF Inv, TypeOK, StatusTypes, ContextTypes, Both
<1>3. ASSUME Late', ~Late
      PROVE  step[p] = "media" /\ step'[p] = "task" /\ dom[p] = "live"
  <2>1. StatusStep(e, k) /\ StepStep(e, k)
    BY StatusCases, StepCases
  <2>2. status[p] = "idle" => step[p] = "idle"
    BY DEF Inv, RoleOf
  <2>3. Live(e, k)
    BY <1>3, <2>1, <2>2 DEF StatusStep, StepStep, Live, Ringing, InCall
  <2> QED
    BY <1>3, <2>1, <2>3 DEF StepStep
<1>4. CASE /\ UNCHANGED <<dom, aborted, remote, candidate>>
           /\ step'[p] = "task" => step[p] = "task"
  BY <1>1, <1>3, <1>4 DEF Answering
<1>5. ASSUME NEW d \in Devices, NEW c \in Calls, Create(d, c) PROVE Answering(e, k)'
  <2>1. /\ UNCHANGED <<remote, candidate>> /\ (dom'[p] = "live" <=> dom[p] = "live")
        /\ aborted \subseteq aborted'
    BY <1>2, <1>5 DEF Create
  <2>2. step[<<d, c>>] = "create" /\ (p # <<d, c>> => step'[p] = step[p])
    BY <1>2, <1>5 DEF Create, Fail, Leave, Goto
  <2> QED
    BY <1>1, <1>3, <2>1, <2>2 DEF Answering
<1>6. ASSUME NEW d \in Devices, NEW c \in Calls, Capture(d, c) PROVE Answering(e, k)'
  <2>1. step' = step /\ aborted' = aborted /\ dom' = [dom EXCEPT ![<<d, c>>] = "live"]
    BY <1>6 DEF Capture, manager
  <2>2. Late' => Late
    BY <1>3, <2>1
  <2>3. CASE <<d, c>> = p
    <3>1. Described(e, k)
      BY <1>6, <2>3 DEF Capture
    <3>2. remote'[p] = "set" /\ candidate'[k] # "cached"
      BY <1>2, <3>1 DEF Described
    <3>3. candidate'[k] = "buffered" => candidate[k] = "buffered"
      BY <1>2, <3>1 DEF Described
    <3> QED
      BY <1>1, <1>2, <2>1, <2>2, <2>3, <3>2, <3>3 DEF Answering
  <2>4. CASE <<d, c>> # p
    <3>1. remote'[p] = remote[p] /\ dom'[p] = dom[p]
      BY <1>2, <1>6, <2>1, <2>4 DEF Capture, Described, Both
    <3>2. candidate'[k] \in {candidate[k], "added"}
      BY <1>2, <1>6 DEF Capture, Described
    <3> QED
      BY <1>1, <2>1, <2>2, <3>1, <3>2 DEF Answering
  <2> QED
    BY <2>3, <2>4
<1>7. ASSUME NEW d \in Devices, NEW c \in Calls, SetUp(d, c) PROVE Answering(e, k)'
  <2>1. /\ UNCHANGED <<dom, aborted, remote>> /\ dom[<<d, c>>] = "live"
        /\ candidate'[k] \in {candidate[k], "added"}
        /\ <<d, c>> # p => step'[p] = step[p]
    BY <1>2, <1>7 DEF SetUp, Goto
  <2>2. <<d, c>> = p => candidate'[k] # "buffered"
    BY <1>2, <1>7 DEF SetUp
  <2> QED
    BY <1>1, <1>3, <2>1, <2>2 DEF Answering
<1>8. ASSUME NEW d \in Devices, NEW c \in Calls, Teardown(d, c) \/ ContextFails(d, c)
      PROVE  Answering(e, k)'
  <2>1. UNCHANGED <<candidate, step>> /\ Close(d, c)
    BY <1>8 DEF Teardown, ContextFails, manager
  <2>2. Late' => Late
    BY <1>3, <2>1
  <2>3. CASE <<d, c>> = p
    BY <1>1, <1>2, <2>1, <2>2, <2>3 DEF Answering, Close
  <2>4. CASE <<d, c>> # p
    BY <1>1, <1>2, <2>1, <2>2, <2>4 DEF Answering, Close
  <2> QED
    BY <2>3, <2>4
<1>9. ASSUME NEW d \in Devices, NEW c \in Calls, Applied(d, c) PROVE Answering(e, k)'
  <2>1. <<d, c>> # p
    BY <1>1, <1>9 DEF Applied, Answering
  <2>2. UNCHANGED <<dom, aborted, step>> /\ remote'[p] = remote[p]
    BY <1>2, <1>9, <2>1 DEF Applied, Described
  <2>3. candidate'[k] \in {candidate[k], "added"}
    BY <1>2, <1>9 DEF Applied, Described
  <2> QED
    BY <1>1, <1>3, <2>2, <2>3 DEF Answering
<1>10. ASSUME NEW d \in Devices, Answer(d) PROVE Answering(e, k)'
  <2>1. UNCHANGED <<dom, aborted, step, candidate>>
    BY <1>10 DEF Answer
  <2>2. remote'[p] = remote[p]
    <3> DEFINE c == Head(wire[d]).call
    <3>1. \/ UNCHANGED remote
          \/ Answerable(d, c) /\ remote' = [remote EXCEPT ![<<d, c>>] = "applying"]
      BY <1>10 DEF Answer
    <3>2. Answerable(d, c) => <<d, c>> # p
      BY DEF Answerable, Inv, RoleOf
    <3> QED
      BY <1>2, <3>1, <3>2
  <2> QED
    BY <1>1, <1>3, <2>1, <2>2 DEF Answering
<1>11. ASSUME NEW d \in Devices, Candidate(d) PROVE Answering(e, k)'
  <2> DEFINE c == Head(wire[d]).call
  <2>1. wire[d] # <<>> /\ Head(wire[d]).kind = "CANDIDATE" /\ UNCHANGED <<dom, aborted, remote, step>>
    BY <1>11 DEF Candidate, Receive, manager
  <2>2. Head(wire[d]) \in Messages /\ Head(wire[d]) \in Within(wire[d])
    BY <2>1, SeqTypes, TailFacts
  <2>3. c \in Calls /\ d # Caller[c]
    <3>1. c \in Calls /\ Head(wire[d]) = Msg("CANDIDATE", c)
      BY <2>1, <2>2, MsgFacts
    <3>2. Msg("CANDIDATE", c) \in Within(wire[d])
      BY <2>2, <3>1
    <3> HIDE DEF c
    <3> QED
      BY <3>1, <3>2 DEF Inv, DirectionOf
  <2>4. Late' => Late
    BY <1>3, <2>1
  <2>5. CASE c = k
    <3>1. d = e
      BY <1>2, <2>3, <2>5, Two
    <3>2. candidate'[k] =
           CASE ~Live(e, k) -> "ignored"
             [] Live(e, k) /\ step[p] \in {"idle", "turn", "create"} -> "buffered"
             [] Live(e, k) /\ step[p] \in {"media", "task", "done"} ->
                  IF remote[p] = "set" THEN "added" ELSE "cached"
      BY <1>2, <1>11, <2>5, <3>1 DEF Candidate
    <3>3. Live(e, k) => step[p] # "lock"
      BY DEF Inv, RoleOf
    <3>4. /\ remote[p] = "set" => candidate'[k] # "cached"
          /\ Late => candidate'[k] # "buffered"
      BY <1>2, <3>2, <3>3 DEF Steps
    <3> QED
      BY <1>1, <2>1, <2>4, <3>4 DEF Answering
  <2>6. CASE c # k
    <3>1. candidate'[k] = candidate[k]
      BY <1>2, <1>11, <2>6 DEF Candidate
    <3> QED
      BY <1>1, <2>1, <2>4, <3>1 DEF Answering
  <2> QED
    BY <2>5, <2>6
<1>12. ASSUME NEW c \in Calls, Trickle(c) PROVE Answering(e, k)'
  <2>1. UNCHANGED <<dom, aborted, remote, step>> /\ candidate'[k] \in {candidate[k], "scheduled"}
    BY <1>2, <1>12 DEF Trickle, manager
  <2> QED
    BY <1>1, <1>3, <2>1 DEF Answering
<1> QED
  BY <1>4, <1>5, <1>6, <1>7, <1>8, <1>9, <1>10, <1>11, <1>12, ContextCases DEF ContextStep

-----------------------------------------------------------------------------
\* The theorems

\* The invariant is inductive.
LEMMA StepInv ==
    ASSUME Inv, [Next]_vars
    PROVE  Inv'
<1>1. CASE Next
  <2>1. TypeOK'
    BY <1>1, StatusTypesStep, OneActiveStep, ContextTypesStep, QueueTypesStep, BoundTypesStep
       DEF TypeOK
  <2> QED
    BY <1>1, <2>1, RoleStep, LockOfStep, DirectionStep, OfferStep, EndStep, SetupStep, AnswerStep
       DEF Inv
<1>2. CASE UNCHANGED vars
  <2> USE <1>2 DEF Inv, vars, manager, context, network, bounds
  <2>1. TypeOK'
    BY DEF TypeOK, StatusTypes, OneActive, Live, ContextTypes, QueueTypes, BoundTypes
  <2>2. RoleOf' /\ LockOf' /\ DirectionOf'
    BY DEF RoleOf, LockOf, DirectionOf
  <2>3. OfferOf'
    BY DEF OfferOf
  <2>4. EndOf'
    BY DEF EndOf, Over
  <2>5. SetupPrecedesEnd' /\ AnswerOf'
    BY DEF SetupPrecedesEnd, AnswerOf, Answering, Live
  <2> QED
    BY <2>1, <2>2, <2>3, <2>4, <2>5
<1> QED
  BY <1>1, <1>2

\* The inductive invariant holds in every reachable state.
THEOREM InvAlways == Spec => []Inv
BY InitInv, StepInv, PTL DEF Spec

\* Every variable has its type, and a device conducts one call at a time: the
\* executors of call and handleIncomingOffer look for another call in the lock.
THEOREM TypeCorrect == Spec => []TypeOK
<1>1. Inv => TypeOK
  BY DEF Inv
<1> QED
  BY <1>1, InvAlways, PTL

\* No offer or answer follows the hangup or the rejection of its call on the
\* way to the peer: the tasks evaluate their precondition when they send, and
\* who sends an end is done with the call for good.
THEOREM SetupBeforeEnd == Spec => []SetupPrecedesEnd
<1>1. Inv => SetupPrecedesEnd
  BY DEF Inv
<1> QED
  BY <1>1, InvAlways, PTL

\* When the answer of a live call is made, a candidate that came before it is
\* with the peer connection, whether it came before the context or before the
\* description, unless the context has closed itself meanwhile.
THEOREM CandidatesFlushed == Spec => []CandidateFlushed
<1>1. ASSUME Inv PROVE CandidateFlushed
  <2> SUFFICES ASSUME NEW c \in Calls,
                      step[<<Callee(c), c>>] \in {"task", "done"}, Live(Callee(c), c),
                      <<Callee(c), c>> \notin aborted
               PROVE  candidate[c] \notin {"buffered", "cached"}
    BY DEF CandidateFlushed
  <2>1. Callee(c) \in Devices /\ Callee(c) # Caller[c]
    BY Two
  <2>2. Answering(Callee(c), c)
    BY <1>1, <2>1 DEF Inv, AnswerOf
  <2> QED
    BY <2>2 DEF Answering
<1> QED
  BY <1>1, InvAlways, PTL
================================================================================
