----------------------------- MODULE TimeForward -----------------------------
(***************************************************************************)
(* The time of day on its way from the clock of the receiver to that of    *)
(* the bus, where the processor reads it (timestamp_forward.v): a request  *)
(* toggle goes over with the latched time, and comes back as acknowledge.  *)
(* The two clocks have any phase and any ratio.  What an edge of one has   *)
(* just changed, the next edge of the other may see before or after the    *)
(* change, a word of many bits in part; it has settled by the edge after.  *)
(* A time is the number of the cycle in which it was at the input.         *)
(***************************************************************************)
EXTENDS Integers

CONSTANTS
  MaxCycles,  \* bound: the time goes no further, the clocks do
  Torn        \* a word of bits of two times

ASSUME ForwardAssumption == MaxCycles \in Nat /\ Torn \notin Nat

VARIABLES
  timestamp_in, timestamp_in_latched, req_in, ack_in,  \* clk_in
  req_out, req_d_out, timestamp_out,                   \* clk_out
  inMoves, outMoves  \* the last edge of that clock has changed its toggle
forwardVars == <<timestamp_in, timestamp_in_latched, req_in, ack_in,
                 req_out, req_d_out, timestamp_out, inMoves, outMoves>>
----------------------------------------------------------------------------
Seen(toggle, moves) == IF moves THEN BOOLEAN ELSE {toggle}

(* What comes back is the toggle after the word was taken.                 *)
AcknowledgedEarly == req_out
Acknowledged == req_d_out

MayLatch == req_in = ack_in
InEdge ==
  /\ timestamp_in' = IF timestamp_in < MaxCycles THEN timestamp_in + 1 ELSE timestamp_in
  /\ req_in' = IF MayLatch THEN ~req_in ELSE req_in
  /\ timestamp_in_latched' = IF MayLatch THEN timestamp_in ELSE timestamp_in_latched
  /\ inMoves' = MayLatch
  /\ ack_in' \in Seen(Acknowledged, outMoves)
  /\ outMoves' = FALSE
  /\ UNCHANGED <<req_out, req_d_out, timestamp_out>>

Requested == req_d_out # req_out
OutEdge ==
  /\ req_out' \in Seen(req_in, inMoves)
  /\ req_d_out' = req_out
  /\ timestamp_out' = IF ~Requested THEN timestamp_out
                      ELSE IF inMoves THEN Torn ELSE timestamp_in_latched
  /\ outMoves' = Requested
  /\ inMoves' = FALSE
  /\ UNCHANGED <<timestamp_in, timestamp_in_latched, req_in, ack_in>>

ForwardInit ==
  /\ timestamp_in = 0 /\ timestamp_in_latched = 0 /\ timestamp_out = 0
  /\ req_in = FALSE /\ ack_in = FALSE /\ req_out = FALSE /\ req_d_out = FALSE
  /\ inMoves = FALSE /\ outMoves = FALSE
ForwardNext == InEdge \/ OutEdge
ForwardSpec == ForwardInit /\ [][ForwardNext]_forwardVars
----------------------------------------------------------------------------
(* The time on the bus is at every edge the one before or a later one that *)
(* was at the input: never torn, never back, whatever the clocks do.  The  *)
(* reading of the time in two words (evrCurrentTime) relies on it.         *)
TimeGoesForward == [][timestamp_out' \in timestamp_out .. timestamp_in']_forwardVars

(* A time that stays at the input comes over: each request is acknowledged *)
(* in the end, and a next one follows.                                     *)
TimeArrives == timestamp_in = MaxCycles ~> timestamp_out = MaxCycles
=============================================================================
