---------------------------- MODULE MCEpicsLink ----------------------------
(***************************************************************************)
(* Instances of EpicsLink for TLC, with the mutants of its server.         *)
(***************************************************************************)
EXTENDS EpicsLink

(* One client whose nonces pass through zero, as a 32-bit counter does.    *)
WrappingNonces == [c \in Clients |-> [i \in Ids |-> (MaxId + i) % (MaxId + 1)]]

(* Clients whose nonces are all different.                                 *)
CONSTANTS c1, c2
DisjointNonces ==
  [c \in Clients |-> [i \in Ids |-> 1 + 2 * i + (IF c = c1 THEN 0 ELSE 1)]]
=============================================================================
