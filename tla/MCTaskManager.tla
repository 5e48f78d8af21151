---------------------------- MODULE MCTaskManager ----------------------------
(***************************************************************************)
(* Small instances of TaskManager.                                         *)
(***************************************************************************)
EXTENDS TaskManager

\* a: a message that is reflected or sent and acknowledged.
\* b: uploads something first and may return without touching a queue.
\* v: a non-persistent request.
CONSTANTS a, b, v

MCProgram == [t \in Tasks |-> IF t = b THEN <<"off">> ELSE <<"io">>]
MCMsgProgram == <<"io", "ack">>
===============================================================================
