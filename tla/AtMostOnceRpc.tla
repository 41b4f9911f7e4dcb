--------------------------- MODULE AtMostOnceRpc ---------------------------
(***************************************************************************)
(* What a client of the command server relies on: within one boot a        *)
(* command runs at most once, commands of a client run in the order they   *)
(* were issued, and a command is acknowledged with the run that answers    *)
(* it, once it ran.                                                        *)
(***************************************************************************)
EXTENDS Naturals

CONSTANTS Clients, Ids

VARIABLES
  boots,     \* number of times the server has booted
  executed,  \* the commands that ran, each with its boot
  repeated,  \* those that ran more than once in a boot: there are none
  acked      \* the commands answered, each with the run it is told of
vars == <<boots, executed, repeated, acked>>

Init ==
  /\ boots = 1
  /\ executed = {}
  /\ repeated = {}
  /\ acked = {}

(* Only a command later than all those of this client that ran may run.    *)
Execute(c, i) ==
  /\ \A e \in executed : e.boot = boots /\ e.client = c => e.id < i
  /\ executed' = executed \cup {[boot |-> boots, client |-> c, id |-> i]}
  /\ UNCHANGED <<boots, repeated, acked>>

Acknowledge(e) ==
  /\ e \in executed
  /\ acked' = acked \cup {[client |-> e.client, id |-> e.id, body |-> e]}
  /\ UNCHANGED <<boots, executed, repeated>>

Boot ==
  /\ boots' = boots + 1
  /\ UNCHANGED <<executed, repeated, acked>>

Next ==
  \/ \E c \in Clients, i \in Ids : Execute(c, i)
  \/ \E e \in executed : Acknowledge(e)
  \/ Boot

Spec == Init /\ [][Next]_vars
=============================================================================
