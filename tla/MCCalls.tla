-------------------------------- MODULE MCCalls --------------------------------
(***************************************************************************)
(* Instances of Calls for TLC: every call from one device, or one from each.*)
(***************************************************************************)
EXTENDS Calls

CONSTANTS Alice, Bob

OneWay == [c \in Calls |-> Alice]
Glare == [c \in Calls |-> IF c = 1 THEN Alice ELSE Bob]
================================================================================
