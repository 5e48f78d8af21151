------------------------------- MODULE MCInbound -------------------------------
\* One message, with each timer its sender may advertise or none, in a
\* conversation whose own timer is on or off: messages only wait for each
\* other, faults and repetitions are what a longer run adds.
EXTENDS Inbound

MCTimers == {0, 30}
MCNoTimer == 99
================================================================================
