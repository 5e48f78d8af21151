----------------------------- MODULE DurableTasks -----------------------------
(***************************************************************************)
(* What the task manager promises its callers about persistent tasks,      *)
(* whatever happens to the connections underneath: a task that was         *)
(* accepted is kept until it has run to completion, tasks complete in the  *)
(* order in which they were accepted, and each of them settles once.       *)
(***************************************************************************)
EXTENDS Sequences

CONSTANT Persistent     \* the persistent tasks

VARIABLES
    queue,              \* accepted and not yet complete, in order of acceptance
    settled             \* run to completion

vars == <<queue, settled>>

Queued == {queue[i] : i \in DOMAIN queue}

Init ==
    /\ queue = <<>>
    /\ settled = {}

Accept(t) ==
    /\ t \notin Queued \cup settled
    /\ queue' = Append(queue, t)
    /\ UNCHANGED settled

Complete ==
    /\ queue # <<>>
    /\ queue' = Tail(queue)
    /\ settled' = settled \cup {Head(queue)}

Next ==
    \/ \E t \in Persistent : Accept(t)
    \/ Complete

Spec == Init /\ [][Next]_vars
===============================================================================
