------------------------------- MODULE MCOutgoing -------------------------------
(***************************************************************************)
(* Instances of Outgoing. In the first, messages 1 and 2 belong to the     *)
(* same conversation: a large file and a text behind it; message 3 is a    *)
(* large file of another conversation. In the second, for the competition  *)
(* for slots, there are two large files and a small one, each in a         *)
(* conversation of its own.                                                *)
(***************************************************************************)
EXTENDS Outgoing

CONSTANTS c1, c2, c3

ThreeMessages == 1..3

TwoConversations == {c1, c2}
FileTextFile == <<c1, c1, c2>>
BlobsOfFileTextFile == <<{"main", "thumbnail"}, {}, {"main"}>>

\* OrderKept says nothing of messages of one millisecond, so that 2 is enrolled
\* later than 1. With ties, for SentAsEnrolled, it may be the same time.
ClockMovesOn == <<{1}, {2}, {1}>>
ClockWithTies == <<{1}, {1, 2}, {1}>>

ThreeConversations == {c1, c2, c3}
OneEach == <<c1, c2, c3>>
BlobsOfOneEach == [m \in ThreeMessages |-> {"main"}]
================================================================================
