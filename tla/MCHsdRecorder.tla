--------------------------- MODULE MCHsdRecorder ---------------------------
(* Small memories for HsdRecorder.  Latencies, samples per clock and the   *)
(* number of discarded samples are the real ones.                          *)
EXTENDS HsdRecorder

SegmentOf32 == [contiguous |-> 32, long |-> 16, short |-> 8]
SegmentOf16 == [contiguous |-> 16, long |-> 16, short |-> 8]

IntervalsSet == [contiguous |-> [early |-> 0, later |-> 0],
                 long |-> [early |-> 18, later |-> 19],
                 short |-> [early |-> 10, later |-> 13]]
(* One more than the segment length.                                       *)
IntervalsMinimum == [contiguous |-> [early |-> 0, later |-> 0],
                     long |-> [early |-> 17, later |-> 17],
                     short |-> [early |-> 9, later |-> 9]]

(* The documented maxima: six clocks less than the buffer or the long      *)
(* segment, and a single clock in short segments.                          *)
Documented32 == [contiguous |-> 8 * 26, long |-> 8 * 10, short |-> 8]
(* Only short segments; only the whole buffer.                             *)
ShortOnly16 == [contiguous |-> 0, long |-> 0, short |-> 8]
ContiguousOnly16 == [contiguous |-> 8 * 10, long |-> 0, short |-> 0]
(* Whatever acquisitionSetPretriggerCount accepts.                         *)
Unlimited32 == [m \in Modes |-> CapSamples]

(* The instances are used as documented, which the theorems suppose.       *)
ASSUME UseAssumption == DocumentedUse
=============================================================================
