-------------------------- MODULE OperatorSettings --------------------------
(***************************************************************************)
(* What an operator relies on when changing settings from a console that   *)
(* several people may type into: an address changes only when a question   *)
(* is answered with yes, to the address that the question showed.          *)
(***************************************************************************)
CONSTANTS
  Addresses,   \* the values that an IP or Ethernet address may have
  Adjustments, \* the values that the offset of the clock may have
  NoQuestion

VARIABLES
  kept,   \* the settings: addresses net and mac, and offset
  asked   \* the open question: which address and its new value
absVars == <<kept, asked>>

Questions == [of : {"net", "mac"}, value : Addresses]

AbsInit == /\ kept \in [net : Addresses, mac : Addresses, offset : Adjustments]
           /\ asked = NoQuestion

Ask == asked = NoQuestion /\ asked' \in Questions /\ UNCHANGED kept
Confirm ==
  /\ asked # NoQuestion /\ asked' = NoQuestion
  /\ kept' = IF asked.of = "net" THEN [kept EXCEPT !.net = asked.value]
             ELSE [kept EXCEPT !.mac = asked.value]
Forget == asked # NoQuestion /\ asked' = NoQuestion /\ UNCHANGED kept
SetOffset == /\ asked = NoQuestion /\ UNCHANGED asked
             /\ \E v \in Adjustments : kept' = [kept EXCEPT !.offset = v]

AbsNext == Ask \/ Confirm \/ Forget \/ SetOffset
AbsSpec == AbsInit /\ [][AbsNext]_absVars
=============================================================================
