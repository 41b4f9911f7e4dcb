-------------------------- MODULE DigitizerProofs --------------------------
(***************************************************************************)
(* Theorems about the digitizer that records waveforms.                    *)
(*                                                                         *)
(* A full recorder holds the whole waveform where the processor looks for  *)
(* it, and its trigger in place: for memories, segments, counters and      *)
(* intervals of any size, any moment of the trigger and any number of      *)
(* acquisitions.                                                           *)
(*                                                                         *)
(* The packets in which a client reads a waveform fit and are of one       *)
(* acquisition, for groups, packets and words of any size and any number of *)
(* acquisitions.                                                           *)
(*                                                                         *)
(* The screen of the front panel shows what it stands for, for pages of any *)
(* length and any number and size of warnings.                             *)
(***************************************************************************)
EXTENDS MCDigitizer, SequenceTheorems, TLAPS

----------------------------------------------------------------------------
(* Where the words of a waveform are, and when they are due.  Word w of    *)
(* segment k is the word k * Segment[m] + w of all, and its time counts    *)
(* from the first word.                                                    *)
Begins(m, k) ==
  LET early == Min({k, EARLY_SEGMENTS_COUNT - 1}) IN
  early * Intervals[m].early + (k - early) * Intervals[m].later
Interval(m, k) == IF k < EARLY_SEGMENTS_COUNT - 1 THEN Intervals[m].early ELSE Intervals[m].later
Longest == 2 ^ Max({EarlyBits, LaterBits})
Place(from, n) == (from + n) % Cap

LEMMA Quotient ==
  ASSUME NEW a \in Int, NEW r \in Nat \ {0}
  PROVE  a = r * (a \div r) + (a % r) /\ a % r \in 0 .. r - 1 /\ a \div r \in Int
OBVIOUS

LEMMA Closer ==
  ASSUME NEW r \in Nat \ {0}, NEW a \in Int, NEW b \in Int, NEW d \in Int,
         a - b = r * d, a - b < r, b - a < r
  PROVE  a = b /\ d = 0
<1>1. CASE d >= 1
  <2>1. r * d >= r
    BY <1>1
  <2> QED BY <2>1
<1>2. CASE d <= -1
  <2>1. r * d <= -r
    BY <1>2
  <2> QED BY <2>1
<1>3. CASE d = 0
  BY <1>3
<1> QED BY <1>1, <1>2, <1>3

LEMMA Growing ==
  ASSUME NEW a \in Int, NEW b \in Int, NEW r \in Nat, a <= b
  PROVE  a * r <= b * r /\ a * r \in Int /\ b * r \in Int
<1>1. b * r - a * r = (b - a) * r
  OBVIOUS
<1>2. (b - a) * r >= 0
  OBVIOUS
<1> QED BY <1>1, <1>2

LEMMA Geometry ==
  ASSUME NEW m \in Modes
  PROVE  /\ Segment[m] \in Nat \ {0} /\ Segments(m) \in Nat \ {0} /\ Cap \in Nat \ {0}
         /\ Segment[m] <= Cap
         /\ Segments(m) * Segment[m] = Cap /\ (m = "contiguous" => Segments(m) = 1)
<1>1. /\ Segment[m] \in Nat \ {0} /\ Cap \in Nat \ {0} /\ Segment[m] <= Cap /\ Cap % Segment[m] = 0
      /\ (m = "contiguous" => Segment[m] = Cap)
  BY GeometryAssumption
<1>2. PICK s \in Nat \ {0}, c \in Nat \ {0} : s = Segment[m] /\ c = Cap
  BY <1>1
<1>3. c = s * (c \div s) + (c % s) /\ c \div s \in Int
  BY Quotient
<1>4. PICK q \in Int : q = c \div s
  BY <1>3
<1>5. c % s = 0
  BY <1>1, <1>2
<1>6. c = s * q
  BY <1>3, <1>4, <1>5
<1>7. q > 0 /\ (s = c => q = 1)
  <2>1. CASE q <= 0
    <3>1. q * s <= 0 * s /\ q * s = s * q
      BY <2>1, Growing
    <3> QED BY <1>6, <3>1
  <2>2. CASE q >= 2
    <3>1. 2 * s <= q * s /\ q * s = s * q
      BY <2>2, Growing
    <3> QED BY <1>6, <2>2, <3>1
  <2>3. CASE q = 1
    BY <2>3
  <2> QED BY <2>1, <2>2, <2>3
<1>8. Segments(m) = q
  BY <1>2, <1>4 DEF Segments
<1>9. q * s = c /\ q \in Nat \ {0}
  BY <1>6, <1>7
<1> QED BY <1>1, <1>2, <1>7, <1>8, <1>9

LEMMA WordIs ==
  ASSUME NEW m \in Modes, NEW k \in 0 .. Segments(m) - 1, NEW w \in 0 .. Segment[m] - 1
  PROVE  /\ k * Segment[m] + w \in 0 .. Cap - 1 /\ k * Segment[m] \in Nat
         /\ (k + 1) * Segment[m] = k * Segment[m] + Segment[m]
         /\ (k = Segments(m) - 1 => k * Segment[m] + Segment[m] = Cap)
         /\ k > 0 => k * Segment[m] >= Segment[m]
<1>1. /\ Segment[m] \in Nat \ {0} /\ Segments(m) \in Nat \ {0} /\ Cap \in Nat
      /\ Segments(m) * Segment[m] = Cap
  BY Geometry
<1>2. PICK s \in Nat \ {0}, t \in Nat \ {0} : s = Segment[m] /\ t = Segments(m)
  BY <1>1
<1>3. t * s = Cap /\ k \in 0 .. t - 1 /\ w \in 0 .. s - 1
  BY <1>1, <1>2
<1>4. k * s <= (t - 1) * s /\ k * s \in Int
  BY <1>2, <1>3, Growing
<1>5. (t - 1) * s = Cap - s
  BY <1>2, <1>3
<1>6. k * s \in Nat /\ (k > 0 => k * s >= s) /\ (k + 1) * s = k * s + s
  <2>1. 0 * s <= k * s /\ (k > 0 => 1 * s <= k * s)
    BY <1>2, <1>3, Growing
  <2> QED BY <1>2, <1>3, <1>4, <2>1
<1>7. k = t - 1 => k * s + s = Cap
  <2> SUFFICES ASSUME k = t - 1 PROVE k * s + s = Cap
    OBVIOUS
  <2>1. k * s = Cap - s
    BY <1>5
  <2> QED BY <1>1, <1>2, <2>1
<1>8. k * s + w \in 0 .. Cap - 1
  <2>1. k * s <= Cap - s
    BY <1>4, <1>5
  <2>2. PICK x \in Nat : x = k * s
    BY <1>6
  <2>3. x + w \in 0 .. Cap - 1
    BY <1>1, <1>2, <1>3, <2>1, <2>2
  <2> QED BY <2>2, <2>3
<1> QED BY <1>2, <1>6, <1>7, <1>8

LEMMA WordsDiffer ==
  ASSUME NEW m \in Modes, NEW k \in 0 .. Segments(m) - 1, NEW w \in 0 .. Segment[m] - 1,
         NEW i \in 0 .. Segments(m) - 1, NEW v \in 0 .. Segment[m] - 1,
         k * Segment[m] + w = i * Segment[m] + v
  PROVE  k = i /\ w = v
<1>1. PICK s \in Nat \ {0} : s = Segment[m]
  BY Geometry
<1>2. k \in Int /\ i \in Int /\ w \in 0 .. s - 1 /\ v \in 0 .. s - 1
  BY <1>1, Geometry
<1>3. w - v = s * (i - k)
  BY <1>1, <1>2
<1>4. w = v /\ i - k = 0
  BY <1>1, <1>2, <1>3, Closer
<1> QED BY <1>2, <1>4

LEMMA PlaceIs ==
  ASSUME NEW from \in Int, NEW n \in Int
  PROVE  /\ Place(from, n) \in Addresses
         /\ NextAddress(Place(from, n)) = Place(from, n + 1)
<1>1. PICK c \in Nat \ {0, 1} : c = Cap
  BY GeometryAssumption
<1>2. PICK x \in Int : x = from + n
  OBVIOUS
<1>3. x % c \in 0 .. c - 1
  BY <1>1, Quotient
<1>4. ((x % c) + 1) % c = (x + 1) % c
  <2>1. x = c * (x \div c) + (x % c) /\ x \div c \in Int /\ x % c \in Int
    BY <1>1, Quotient
  <2>2. (x % c) + 1 = c * (((x % c) + 1) \div c) + (((x % c) + 1) % c)
        /\ ((x % c) + 1) \div c \in Int /\ ((x % c) + 1) % c \in 0 .. c - 1
    BY <1>1, <2>1, Quotient
  <2>3. x + 1 = c * ((x + 1) \div c) + ((x + 1) % c)
        /\ (x + 1) \div c \in Int /\ (x + 1) % c \in 0 .. c - 1
    <3>1. PICK y \in Int : y = x + 1
      OBVIOUS
    <3>2. y = c * (y \div c) + (y % c) /\ y \div c \in Int /\ y % c \in 0 .. c - 1
      BY Quotient
    <3> QED BY <3>1, <3>2
  <2>4. PICK q \in Int, r \in Int, u \in Int :
          q = x \div c /\ r = ((x % c) + 1) \div c /\ u = (x + 1) \div c
    BY <2>1, <2>2, <2>3
  <2>5. PICK a \in 0 .. c - 1, b \in 0 .. c - 1 : a = ((x % c) + 1) % c /\ b = (x + 1) % c
    BY <2>2, <2>3
  <2>6. a - b = c * (u - q - r)
    BY <2>1, <2>2, <2>3, <2>4, <2>5
  <2>7. a = b
    BY <1>1, <2>5, <2>6, Closer
  <2> QED BY <2>5, <2>7
<1>5. from + (n + 1) = x + 1
  BY <1>2
<1> QED BY <1>1, <1>2, <1>3, <1>4, <1>5 DEF Place, Addresses, NextAddress

LEMMA PlacesDiffer ==
  ASSUME NEW from \in Int, NEW n \in Int, NEW i \in Int, n - i < Cap, i - n < Cap,
         Place(from, n) = Place(from, i)
  PROVE  n = i
<1>1. PICK c \in Nat \ {0, 1} : c = Cap
  BY GeometryAssumption
<1>2. from + n = c * ((from + n) \div c) + ((from + n) % c) /\ (from + n) \div c \in Int
  BY <1>1, Quotient
<1>3. from + i = c * ((from + i) \div c) + ((from + i) % c) /\ (from + i) \div c \in Int
  BY <1>1, Quotient
<1>4. PICK a \in Int, b \in Int : a = (from + n) \div c /\ b = (from + i) \div c
  BY <1>2, <1>3
<1>5. (from + n) % c = (from + i) % c
  BY <1>1 DEF Place
<1>6. n - i = c * (a - b)
  <2>1. PICK r \in Int : r = (from + n) % c
    <3>1. PICK y \in Int : y = from + n
      OBVIOUS
    <3>2. y % c \in 0 .. c - 1
      BY Quotient
    <3> QED BY <3>1, <3>2
  <2>2. from + n = c * a + r /\ from + i = c * b + r
    BY <1>2, <1>3, <1>4, <1>5, <2>1
  <2> QED BY <2>2
<1> QED BY <1>1, <1>6, Closer

LEMMA MinOfTwo ==
  ASSUME NEW a \in Int, NEW b \in Int
  PROVE  Min({a, b}) = IF a <= b THEN a ELSE b
BY DEF Min

LEMMA MaxOfTwo ==
  ASSUME NEW a \in Int, NEW b \in Int
  PROVE  Max({a, b}) = IF a >= b THEN a ELSE b
BY DEF Max

LEMMA BeginsNext ==
  ASSUME NEW m \in Modes, NEW k \in Nat
  PROVE  /\ Begins(m, 0) = 0 /\ Begins(m, k) \in Nat
         /\ Begins(m, k + 1) = Begins(m, k) + Interval(m, k) /\ Interval(m, k) \in Nat
<1>1. PICK a \in Nat, b \in Nat, n \in Nat \ {0} :
        a = Intervals[m].early /\ b = Intervals[m].later /\ n = EARLY_SEGMENTS_COUNT - 1
  BY ClientAssumption, GeometryAssumption
<1>2. \A i \in Nat : Begins(m, i) = IF i <= n THEN i * a ELSE n * a + (i - n) * b
  <2> SUFFICES ASSUME NEW i \in Nat
               PROVE  Begins(m, i) = IF i <= n THEN i * a ELSE n * a + (i - n) * b
    OBVIOUS
  <2>1. Min({i, EARLY_SEGMENTS_COUNT - 1}) = IF i <= n THEN i ELSE n
    BY <1>1, MinOfTwo
  <2>2. CASE i <= n
    <3>1. Begins(m, i) = i * a + (i - i) * b
      BY <1>1, <2>1, <2>2 DEF Begins
    <3> QED BY <2>2, <3>1
  <2>3. CASE i > n
    BY <1>1, <2>1, <2>3 DEF Begins
  <2> QED BY <2>2, <2>3
<1>3. \A i \in Nat : i * a \in Nat /\ i * b \in Nat /\ (i + 1) * a = i * a + a /\ (i + 1) * b = i * b + b
  OBVIOUS
<1>4. Interval(m, k) = IF k < n THEN a ELSE b
  BY <1>1 DEF Interval
<1>5. Begins(m, 0) = 0
  BY <1>2, <1>3
<1>6. CASE k < n
  <2>1. Begins(m, k) = k * a /\ Begins(m, k + 1) = (k + 1) * a
    BY <1>2, <1>6
  <2> QED BY <1>3, <1>4, <1>5, <1>6, <2>1
<1>7. CASE k = n
  <2>1. Begins(m, k) = n * a /\ Begins(m, k + 1) = n * a + (n + 1 - n) * b
    BY <1>2, <1>7
  <2> QED BY <1>3, <1>4, <1>5, <1>7, <2>1
<1>8. CASE k > n
  <2>1. PICK i \in Nat : i = k - n
    BY <1>8
  <2>2. Begins(m, k) = n * a + i * b /\ Begins(m, k + 1) = n * a + (i + 1) * b
    BY <1>2, <1>8, <2>1
  <2> QED BY <1>3, <1>4, <1>5, <1>8, <2>2
<1> QED BY <1>6, <1>7, <1>8

(* Intervals are those of their fields, and an acquisition is shorter than *)
(* the age that counts as old.                                             *)
LEMMA Fields ==
  /\ 2 ^ EarlyBits \in Nat \ {0} /\ 2 ^ LaterBits \in Nat \ {0} /\ Longest \in Nat \ {0}
  /\ 2 ^ EarlyBits <= Longest /\ 2 ^ LaterBits <= Longest
<1>1. 2 ^ EarlyBits \in Nat \ {0} /\ 2 ^ LaterBits \in Nat \ {0}
  BY FieldsAssumption
<1>2. Longest = Max({2 ^ EarlyBits, 2 ^ LaterBits})
  BY FieldsAssumption DEF Longest
<1> QED BY <1>1, <1>2, MaxOfTwo

LEMMA BeginsBound ==
  ASSUME NEW m \in Modes, NEW k \in Nat, NEW x \in Nat,
         Intervals[m].early <= x, Intervals[m].later <= x
  PROVE  Begins(m, k) <= k * x
<1>1. PICK a \in Nat, b \in Nat, n \in Nat \ {0} :
        a = Intervals[m].early /\ b = Intervals[m].later /\ n = EARLY_SEGMENTS_COUNT - 1
  BY ClientAssumption, GeometryAssumption
<1>2. PICK i \in Nat, j \in Nat : i = Min({k, EARLY_SEGMENTS_COUNT - 1}) /\ i + j = k
  <2>1. Min({k, EARLY_SEGMENTS_COUNT - 1}) = IF k <= n THEN k ELSE n
    BY <1>1, MinOfTwo
  <2> QED BY <2>1
<1>3. Begins(m, k) = i * a + j * b
  BY <1>1, <1>2 DEF Begins
<1>4. i * a <= i * x /\ j * b <= j * x /\ i * a \in Int /\ j * b \in Int /\ i * x \in Int /\ j * x \in Int
  <2>1. a * i <= x * i /\ b * j <= x * j
    BY <1>1, Growing
  <2> QED BY <2>1
<1>5. k * x = i * x + j * x
  BY <1>2
<1> QED BY <1>3, <1>4, <1>5

LEMMA SegmentsOrdered ==
  ASSUME NEW m \in Modes
  PROVE  Segments(m) <= Segments("short")
<1>1. Segment["short"] <= Segment[m]
  BY GeometryAssumption DEF Modes
<1>2. PICK s \in Nat \ {0}, t \in Nat \ {0}, q \in Nat \ {0}, r \in Nat \ {0} :
        s = Segment["short"] /\ t = Segment[m] /\ q = Segments("short") /\ r = Segments(m)
  BY Geometry DEF Modes
<1>3. q * s = r * t
  BY <1>2, Geometry DEF Modes
<1>4. CASE r >= q + 1
  <2>1. (q + 1) * t <= r * t /\ (q + 1) * t = q * t + t /\ q * t \in Int
    BY <1>4, Growing
  <2>2. s * q <= t * q
    BY <1>1, <1>2, Growing
  <2> QED BY <1>3, <2>1, <2>2
<1> QED BY <1>2, <1>4

LEMMA OldIs == Old = Cap + Segments("short") * (Longest + 2)
BY DEF Old, Longest

LEMMA RoomForIntervals ==
  ASSUME DocumentedUse, NEW m \in Modes, NEW k \in 0 .. Segments(m) - 1
  PROVE  /\ Begins(m, k) \in Nat /\ Old \in Nat /\ Begins(m, k) + Segment[m] + 1 <= Old
         /\ Old > Cap + 2
<1>1. PICK s \in Nat \ {0}, t \in Nat \ {0}, q \in Nat \ {0}, b \in Nat \ {0}, c \in Nat \ {0} :
        /\ s = Segment[m] /\ t = Segments(m) /\ q = Segments("short") /\ b = Longest /\ c = Cap
        /\ t * s = c /\ t <= q
  BY Geometry, SegmentsOrdered, Fields DEF Modes
<1>2. Old = c + q * (b + 2)
  BY <1>1, OldIs
<1>3. q * (b + 2) = q * b + 2 * q /\ q * b \in Nat /\ t * b <= q * b /\ t * b \in Nat
  <2>1. t * b <= q * b
    BY <1>1, Growing
  <2> QED BY <2>1
<1>4. q * b >= 1
  <2>1. 1 * b <= q * b
    BY Growing
  <2> QED BY <2>1
<1>5. Begins(m, k) \in Nat /\ Begins(m, 0) = 0
  BY BeginsNext
<1>6. CASE k = 0
  <2>1. s <= c
    BY <1>1, Geometry
  <2> QED BY <1>1, <1>2, <1>3, <1>4, <1>5, <1>6, <2>1
<1>7. CASE k # 0
  <2>1. m # "contiguous"
    BY <1>7, Geometry
  <2>2. Intervals[m].early <= s + 1 + b /\ Intervals[m].later <= s + 1 + b
    <3>1. PICK e \in Int, l \in Int : e = Intervals[m].early /\ l = Intervals[m].later
      BY ClientAssumption
    <3>2. e - s - 2 <= 2 ^ EarlyBits - 1 /\ l - s - 2 <= 2 ^ LaterBits - 1
      BY <1>1, <2>1, <3>1 DEF DocumentedUse
    <3> QED BY <1>1, <3>1, <3>2, Fields
  <2>3. Begins(m, k) <= k * (s + 1 + b)
    BY <2>2, BeginsBound
  <2>4. k * (s + 1 + b) <= (t - 1) * (s + 1 + b)
    BY <1>1, Growing
  <2>5. (t - 1) * (s + 1 + b) = t * s + t + t * b - s - 1 - b
    OBVIOUS
  <2> QED BY <1>1, <1>2, <1>3, <1>4, <1>5, <2>3, <2>4, <2>5
<1> QED BY <1>6, <1>7

----------------------------------------------------------------------------
(* Types.  The counters go as low as the states let them.                  *)
States == {"START", "FILL", "ARMED", "ACQUIRE", "PAUSE", "DONE"}
CounterKind == -8 .. Cap - 1
SegmentKind == -2 .. Cap
EarlyKind == -1 .. EARLY_SEGMENTS_COUNT - 2
GapKind == -1 .. Longest - 1
MachineKind ==
  [acqState : States, acqCounter : CounterKind, segmentCounter : SegmentKind,
   earlySegmentsCounter : EarlyKind, segGapCounter : GapKind,
   watchForTrigger : BOOLEAN, dpramWriteEnable : BOOLEAN,
   triggerDpramAddr : Addresses, acqFinish : BOOLEAN]
ConfigKind ==
  [pre : 0 .. Cap - 1, early : 0 .. 2 ^ EarlyBits - 1, later : 0 .. 2 ^ LaterBits - 1]
CountersAbove(f) ==
  /\ f.acqState = "FILL" => f.acqCounter >= -1
  /\ f.acqState = "ACQUIRE" => f.acqCounter >= -7
  /\ f.acqState # "DONE" => f.segmentCounter >= -1
SettingsOK == segMode \in Modes /\ pretriggerCount \in 1 .. CapSamples - SamplesPerClock
BitsOK ==
  /\ {sysAcqActive, sysFull, sysAcqFinish_d, acqActive_m, acqActive} \subseteq BOOLEAN
  /\ {watchForTrigger_d, triggersBeenIdle, triggered} \subseteq BOOLEAN
  /\ triggerLocation \in 0 .. SamplesPerClock - 1
MemoryOK ==
  /\ dpramWriteAddress \in Addresses /\ channelWriteAddress \in Addresses
  /\ channelWriteEnable \in BOOLEAN
  /\ age \in [Addresses -> 0 .. Old] /\ triggerAge \in 0 .. Old
ArmsOK == arms \in 0 .. MaxArms
Typed ==
  /\ SettingsOK /\ BitsOK /\ MemoryOK /\ ArmsOK
  /\ acqConfig \in ConfigKind /\ fsm \in MachineKind /\ CountersAbove(fsm)

LEMMA TypedIs == Typed => TypeOK
BY DEF Typed, TypeOK, SettingsOK, BitsOK, MemoryOK, ArmsOK, ConfigKind, MachineKind, States, Longest,
     CounterKind, SegmentKind, EarlyKind, GapKind

LEMMA Numbers ==
  /\ Cap \in Nat \ {0, 1} /\ EARLY_SEGMENTS_COUNT \in Nat \ {0, 1}
  /\ SamplesPerClock \in Nat \ {0} /\ Discard \in Nat
  /\ Old \in Nat \ {0} /\ Old >= 3
  /\ CapSamples \in Nat /\ CapSamples - SamplesPerClock \in Nat \ {0}
  /\ CapSamples = Cap * SamplesPerClock
<1>1. /\ Cap \in Nat \ {0, 1} /\ EARLY_SEGMENTS_COUNT \in Nat \ {0, 1}
      /\ SamplesPerClock \in Nat \ {0} /\ Discard \in Nat
  BY GeometryAssumption
<1>2. PICK c \in Nat \ {0, 1}, p \in Nat \ {0}, q \in Nat \ {0}, b \in Nat \ {0} :
        c = Cap /\ p = SamplesPerClock /\ q = Segments("short") /\ b = Longest
  BY <1>1, Fields, Geometry DEF Modes
<1>3. CapSamples \in Nat /\ CapSamples - p \in Nat \ {0}
  <2>1. CapSamples = c * p
    BY <1>2 DEF CapSamples
  <2>2. 2 * p <= c * p /\ c * p \in Int
    BY Growing
  <2> QED BY <2>1, <2>2
<1>4. Old \in Nat \ {0} /\ Old >= 3
  <2>1. Old = c + q * (b + 2)
    BY <1>2, OldIs
  <2>2. 1 * (b + 2) <= q * (b + 2) /\ q * (b + 2) \in Int
    BY Growing
  <2> QED BY <2>1, <2>2
<1> QED BY <1>1, <1>2, <1>3, <1>4 DEF CapSamples

LEMMA OlderIs ==
  ASSUME NEW n \in 0 .. Old
  PROVE  Older(n) = (IF n < Old THEN n + 1 ELSE Old) /\ Older(n) \in 0 .. Old
<1>1. Older(n) = IF n + 1 <= Old THEN n + 1 ELSE Old
  BY Numbers, MinOfTwo DEF Older
<1> QED BY <1>1, Numbers

LEMMA ClocksIs ==
  ASSUME NEW p \in 1 .. CapSamples - SamplesPerClock
  PROVE  LET c == (p + SamplesPerClock - 1) \div SamplesPerClock IN
         /\ c \in 1 .. Cap - 1
         /\ (c - 1) * SamplesPerClock + 1 <= p /\ p <= c * SamplesPerClock
<1>1. PICK s \in Nat \ {0}, t \in Nat \ {0} : s = SamplesPerClock /\ t = Cap
  BY Numbers
<1>2. PICK x \in Int : x = p + s - 1
  BY <1>1, Numbers
<1>3. x = s * (x \div s) + (x % s) /\ x % s \in 0 .. s - 1 /\ x \div s \in Int
  BY Quotient
<1>4. PICK c \in Int : c = x \div s
  BY <1>3
<1>5. p <= t * s - s /\ p >= 1 /\ p \in Int
  BY <1>1, Numbers
<1>6. (c - 1) * s = s * c - s /\ c * s = s * c
  OBVIOUS
<1>7. c >= 1
  <2> SUFFICES ASSUME c <= 0 PROVE FALSE
    OBVIOUS
  <2>1. c * s <= 0 * s
    BY Growing
  <2> QED BY <1>2, <1>3, <1>4, <1>5, <1>6, <2>1
<1>8. c <= t - 1
  <2> SUFFICES ASSUME c >= t PROVE FALSE
    OBVIOUS
  <2>1. t * s <= c * s
    BY Growing
  <2> QED BY <1>2, <1>3, <1>4, <1>5, <1>6, <2>1
<1>9. (c - 1) * s + 1 <= p /\ p <= c * s
  BY <1>2, <1>3, <1>4, <1>5, <1>6
<1>10. (p + SamplesPerClock - 1) \div SamplesPerClock = c
  BY <1>1, <1>2, <1>4
<1> QED BY <1>1, <1>7, <1>8, <1>9, <1>10

LEMMA ClampIs == \A n \in Nat : clampPretrigger(n) \in 1 .. CapSamples - SamplesPerClock
<1> SUFFICES ASSUME NEW n \in Nat PROVE clampPretrigger(n) \in 1 .. CapSamples - SamplesPerClock
  OBVIOUS
<1>1. PICK x \in Nat \ {0} : x = CapSamples - SamplesPerClock
  BY Numbers
<1>2. PICK y \in Nat \ {0} : y = Max({n, 1})
  <2>1. Max({n, 1}) = IF n >= 1 THEN n ELSE 1
    BY MaxOfTwo
  <2> QED BY <2>1
<1>3. Min({y, x}) = IF y <= x THEN y ELSE x
  BY MinOfTwo
<1>4. clampPretrigger(n) = Min({y, x})
  BY <1>1, <1>2 DEF clampPretrigger
<1> QED BY <1>1, <1>3, <1>4

LEMMA SegmentsFew ==
  ASSUME NEW m \in Modes
  PROVE  Segments(m) \in 1 .. Cap
<1>1. PICK s \in Nat \ {0}, t \in Nat \ {0} : s = Segment[m] /\ t = Segments(m) /\ t * s = Cap
  BY Geometry
<1>2. 1 * t <= s * t
  BY Growing
<1> QED BY <1>1, <1>2

(* What the counters are loaded with.                                      *)
LEMMA Remainder ==
  ASSUME NEW x \in Int
  PROVE  x % Cap \in 0 .. Cap - 1
BY Quotient, Numbers

LEMMA SmallRemainder ==
  ASSUME NEW x \in 0 .. Cap - 1
  PROVE  x % Cap = x
<1>1. PICK c \in Nat \ {0} : c = Cap
  BY Numbers
<1>2. x = c * (x \div c) + (x % c) /\ x % c \in 0 .. c - 1 /\ x \div c \in Int
  BY Quotient, <1>1
<1>3. PICK q \in Int, r \in 0 .. c - 1 : q = x \div c /\ r = x % c
  BY <1>2
<1>4. x - r = c * q
  BY <1>1, <1>2, <1>3
<1>5. x = r
  BY <1>1, <1>3, <1>4, Closer
<1> QED BY <1>1, <1>3, <1>5

LEMMA Loads ==
  ASSUME Typed
  PROVE  /\ PretriggerLoad \in 0 .. Cap - 1 /\ PosttriggerLoad \in -7 .. Cap - 1
         /\ SegmentCounterLoad \in -1 .. Cap /\ SegmentLoad \in -1 .. Cap - 1
         /\ SegmentGap \in 0 .. Longest - 1
<1>1. segMode \in Modes /\ acqConfig \in ConfigKind
  BY DEF Typed, SettingsOK
<1>2. acqConfig.pre \in Int /\ acqConfig.early \in 0 .. Longest - 1 /\ acqConfig.later \in 0 .. Longest - 1
  <2>1. /\ acqConfig.pre \in 0 .. Cap - 1 /\ acqConfig.early \in 0 .. 2 ^ EarlyBits - 1
        /\ acqConfig.later \in 0 .. 2 ^ LaterBits - 1
    BY <1>1 DEF ConfigKind
  <2> QED BY <2>1, Fields, Numbers
<1>3. Segment[segMode] \in Int
  BY <1>1, Geometry
<1>4. PretriggerLoad \in 0 .. Cap - 1
  <2>1. PICK x \in Int : x = acqConfig.pre + TRIGGER_DETECTION_LATENCY - 2
    BY <1>2 DEF TRIGGER_DETECTION_LATENCY
  <2> QED BY <2>1, Remainder DEF PretriggerLoad
<1>5. PosttriggerLoad \in -7 .. Cap - 1
  <2>1. PICK x \in Int : x = Segment[segMode] - acqConfig.pre
    BY <1>2, <1>3
  <2>2. PICK r \in 0 .. Cap - 1 : r = x % Cap
    BY Remainder
  <2>3. PosttriggerLoad = r - 7
    BY <2>1, <2>2, Numbers DEF PosttriggerLoad, TRIGGER_DETECTION_LATENCY, TRIGGER_RESPONSE_LATENCY
  <2> QED BY <2>2, <2>3, Numbers
<1>6. SegmentCounterLoad \in -1 .. Cap
  BY <1>1, SegmentsFew, Numbers DEF SegmentCounterLoad
<1>7. SegmentLoad \in -1 .. Cap - 1
  <2>1. \A m \in Modes : Segment[m] \in 1 .. Cap
    BY Geometry
  <2> QED BY <2>1, Numbers DEF SegmentLoad, Modes
<1>8. SegmentGap \in 0 .. Longest - 1
  BY <1>2 DEF SegmentGap
<1> QED BY <1>4, <1>5, <1>6, <1>7, <1>8

(* What each state of the machine does to its registers.                   *)
LEMMA InactiveMoves ==
  ASSUME Typed, StateMachine, ~acqActive
  PROVE  /\ fsm' \in MachineKind /\ CountersAbove(fsm')
         /\ fsm'.acqState = "START"
         /\ fsm'.segmentCounter = SegmentCounterLoad
         /\ fsm'.earlySegmentsCounter = EARLY_SEGMENTS_COUNT - 2
         /\ fsm'.acqFinish = FALSE
         /\ fsm'.acqCounter = fsm.acqCounter /\ fsm'.segGapCounter = fsm.segGapCounter
         /\ fsm'.watchForTrigger = fsm.watchForTrigger
         /\ fsm'.dpramWriteEnable = fsm.dpramWriteEnable
         /\ fsm'.triggerDpramAddr = fsm.triggerDpramAddr
<1>1. fsm \in MachineKind /\ CountersAbove(fsm) /\ dpramWriteAddress \in Addresses
  BY DEF Typed, MemoryOK
<1>2. fsm' = [fsm EXCEPT !.acqState = "START",
                         !.segmentCounter = SegmentCounterLoad,
                         !.earlySegmentsCounter = EARLY_SEGMENTS_COUNT - 2,
                         !.acqFinish = FALSE]
  BY <1>1 DEF StateMachine, Inactive, Done, MachineKind
<1>3. /\ "START" \in States
      /\ SegmentCounterLoad \in SegmentKind
      /\ EARLY_SEGMENTS_COUNT - 2 \in EarlyKind
  BY <1>1, Loads, Numbers, Fields
  DEF MachineKind, CountersAbove, States, CounterKind, SegmentKind, EarlyKind, GapKind, Done
<1>4. fsm' \in MachineKind
  BY <1>1, <1>2, <1>3 DEF MachineKind
<1>5. CountersAbove(fsm')
  BY <1>1, <1>2, <1>3, Loads, Numbers DEF CountersAbove, MachineKind, CounterKind, SegmentKind, Done
<1> QED BY <1>1, <1>2, <1>3, <1>4, <1>5 DEF MachineKind

LEMMA StartMoves ==
  ASSUME Typed, StateMachine, acqActive, fsm.acqState = "START"
  PROVE  /\ fsm' \in MachineKind /\ CountersAbove(fsm')
         /\ fsm'.acqState = "FILL"
         /\ fsm'.acqCounter = PretriggerLoad
         /\ fsm'.dpramWriteEnable = TRUE
         /\ fsm'.segmentCounter = fsm.segmentCounter
         /\ fsm'.earlySegmentsCounter = fsm.earlySegmentsCounter
         /\ fsm'.segGapCounter = fsm.segGapCounter
         /\ fsm'.watchForTrigger = fsm.watchForTrigger
         /\ fsm'.triggerDpramAddr = fsm.triggerDpramAddr
         /\ fsm'.acqFinish = fsm.acqFinish
<1>1. fsm \in MachineKind /\ CountersAbove(fsm) /\ dpramWriteAddress \in Addresses
  BY DEF Typed, MemoryOK
<1>2. fsm' = [fsm EXCEPT !.acqState = "FILL",
                         !.acqCounter = PretriggerLoad,
                         !.dpramWriteEnable = TRUE]
  BY <1>1 DEF StateMachine, Start, Done, MachineKind
<1>3. /\ "FILL" \in States
      /\ PretriggerLoad \in CounterKind
  BY <1>1, Loads, Numbers, Fields
  DEF MachineKind, CountersAbove, States, CounterKind, SegmentKind, EarlyKind, GapKind, Done
<1>4. fsm' \in MachineKind
  BY <1>1, <1>2, <1>3 DEF MachineKind
<1>5. CountersAbove(fsm')
  BY <1>1, <1>2, <1>3, Loads, Numbers DEF CountersAbove, MachineKind, CounterKind, SegmentKind, Done
<1> QED BY <1>1, <1>2, <1>3, <1>4, <1>5 DEF MachineKind

LEMMA FillMoves ==
  ASSUME Typed, StateMachine, acqActive, fsm.acqState = "FILL", ~Done(fsm.acqCounter)
  PROVE  /\ fsm' \in MachineKind /\ CountersAbove(fsm')
         /\ fsm'.acqState = "FILL"
         /\ fsm'.acqCounter = fsm.acqCounter - 1
         /\ fsm'.watchForTrigger = fsm.watchForTrigger
         /\ fsm'.segmentCounter = fsm.segmentCounter
         /\ fsm'.earlySegmentsCounter = fsm.earlySegmentsCounter
         /\ fsm'.segGapCounter = fsm.segGapCounter
         /\ fsm'.dpramWriteEnable = fsm.dpramWriteEnable
         /\ fsm'.triggerDpramAddr = fsm.triggerDpramAddr
         /\ fsm'.acqFinish = fsm.acqFinish
<1>1. fsm \in MachineKind /\ CountersAbove(fsm) /\ dpramWriteAddress \in Addresses
  BY DEF Typed, MemoryOK
<1>2. fsm' = [fsm EXCEPT !.acqCounter = fsm.acqCounter - 1,
                         !.watchForTrigger = fsm.watchForTrigger]
  BY <1>1 DEF StateMachine, Fill, Done, MachineKind
<1>3. /\ fsm.acqCounter - 1 \in CounterKind
      /\ fsm.watchForTrigger \in BOOLEAN
  BY <1>1, Loads, Numbers, Fields
  DEF MachineKind, CountersAbove, States, CounterKind, SegmentKind, EarlyKind, GapKind, Done
<1>4. fsm' \in MachineKind
  BY <1>1, <1>2, <1>3 DEF MachineKind
<1>5. CountersAbove(fsm')
  BY <1>1, <1>2, <1>3, Loads, Numbers DEF CountersAbove, MachineKind, CounterKind, SegmentKind, Done
<1> QED BY <1>1, <1>2, <1>3, <1>4, <1>5 DEF MachineKind

LEMMA FilledMoves ==
  ASSUME Typed, StateMachine, acqActive, fsm.acqState = "FILL", Done(fsm.acqCounter)
  PROVE  /\ fsm' \in MachineKind /\ CountersAbove(fsm')
         /\ fsm'.acqState = "ARMED"
         /\ fsm'.acqCounter = fsm.acqCounter - 1
         /\ fsm'.watchForTrigger = TRUE
         /\ fsm'.segmentCounter = fsm.segmentCounter
         /\ fsm'.earlySegmentsCounter = fsm.earlySegmentsCounter
         /\ fsm'.segGapCounter = fsm.segGapCounter
         /\ fsm'.dpramWriteEnable = fsm.dpramWriteEnable
         /\ fsm'.triggerDpramAddr = fsm.triggerDpramAddr
         /\ fsm'.acqFinish = fsm.acqFinish
<1>1. fsm \in MachineKind /\ CountersAbove(fsm) /\ dpramWriteAddress \in Addresses
  BY DEF Typed, MemoryOK
<1>2. fsm' = [fsm EXCEPT !.acqState = "ARMED",
                         !.acqCounter = fsm.acqCounter - 1,
                         !.watchForTrigger = TRUE]
  BY <1>1 DEF StateMachine, Fill, Done, MachineKind
<1>3. /\ "ARMED" \in States
      /\ fsm.acqCounter - 1 \in CounterKind
  BY <1>1, Loads, Numbers, Fields
  DEF MachineKind, CountersAbove, States, CounterKind, SegmentKind, EarlyKind, GapKind, Done
<1>4. fsm' \in MachineKind
  BY <1>1, <1>2, <1>3 DEF MachineKind
<1>5. CountersAbove(fsm')
  BY <1>1, <1>2, <1>3, Loads, Numbers DEF CountersAbove, MachineKind, CounterKind, SegmentKind, Done
<1> QED BY <1>1, <1>2, <1>3, <1>4, <1>5 DEF MachineKind

LEMMA WaitMoves ==
  ASSUME Typed, StateMachine, acqActive, fsm.acqState = "ARMED", ~triggered
  PROVE  /\ fsm' \in MachineKind /\ CountersAbove(fsm')
         /\ fsm'.acqState = "ARMED"
         /\ fsm'.acqCounter = PosttriggerLoad
         /\ fsm'.segmentCounter = fsm.segmentCounter
         /\ fsm'.earlySegmentsCounter = fsm.earlySegmentsCounter
         /\ fsm'.segGapCounter = fsm.segGapCounter
         /\ fsm'.watchForTrigger = fsm.watchForTrigger
         /\ fsm'.dpramWriteEnable = fsm.dpramWriteEnable
         /\ fsm'.triggerDpramAddr = fsm.triggerDpramAddr
         /\ fsm'.acqFinish = fsm.acqFinish
<1>1. fsm \in MachineKind /\ CountersAbove(fsm) /\ dpramWriteAddress \in Addresses
  BY DEF Typed, MemoryOK
<1>2. fsm' = [fsm EXCEPT !.acqCounter = PosttriggerLoad]
  BY <1>1 DEF StateMachine, Armed, Done, MachineKind
<1>3. /\ PosttriggerLoad \in CounterKind
  BY <1>1, Loads, Numbers, Fields
  DEF MachineKind, CountersAbove, States, CounterKind, SegmentKind, EarlyKind, GapKind, Done
<1>4. fsm' \in MachineKind
  BY <1>1, <1>2, <1>3 DEF MachineKind
<1>5. CountersAbove(fsm')
  BY <1>1, <1>2, <1>3, Loads, Numbers DEF CountersAbove, MachineKind, CounterKind, SegmentKind, Done
<1> QED BY <1>1, <1>2, <1>3, <1>4, <1>5 DEF MachineKind

LEMMA TriggerMoves ==
  ASSUME Typed, StateMachine, acqActive, fsm.acqState = "ARMED", triggered
  PROVE  /\ fsm' \in MachineKind /\ CountersAbove(fsm')
         /\ fsm'.acqState = "ACQUIRE"
         /\ fsm'.acqCounter = PosttriggerLoad
         /\ fsm'.watchForTrigger = FALSE
         /\ fsm'.dpramWriteEnable = TRUE
         /\ fsm'.triggerDpramAddr = dpramWriteAddress
         /\ fsm'.segmentCounter = fsm.segmentCounter
         /\ fsm'.earlySegmentsCounter = fsm.earlySegmentsCounter
         /\ fsm'.segGapCounter = fsm.segGapCounter /\ fsm'.acqFinish = fsm.acqFinish
<1>1. fsm \in MachineKind /\ CountersAbove(fsm) /\ dpramWriteAddress \in Addresses
  BY DEF Typed, MemoryOK
<1>2. fsm' = [fsm EXCEPT !.acqState = "ACQUIRE",
                         !.acqCounter = PosttriggerLoad,
                         !.watchForTrigger = FALSE,
                         !.dpramWriteEnable = TRUE,
                         !.triggerDpramAddr = dpramWriteAddress]
  BY <1>1 DEF StateMachine, Armed, Done, MachineKind
<1>3. /\ "ACQUIRE" \in States
      /\ PosttriggerLoad \in CounterKind
  BY <1>1, Loads, Numbers, Fields
  DEF MachineKind, CountersAbove, States, CounterKind, SegmentKind, EarlyKind, GapKind, Done
<1>4. fsm' \in MachineKind
  BY <1>1, <1>2, <1>3 DEF MachineKind
<1>5. CountersAbove(fsm')
  BY <1>1, <1>2, <1>3, Loads, Numbers DEF CountersAbove, MachineKind, CounterKind, SegmentKind, Done
<1> QED BY <1>1, <1>2, <1>3, <1>4, <1>5 DEF MachineKind

LEMMA AcquireMoves ==
  ASSUME Typed, StateMachine, acqActive, fsm.acqState = "ACQUIRE", ~Done(fsm.acqCounter)
  PROVE  /\ fsm' \in MachineKind /\ CountersAbove(fsm')
         /\ fsm'.acqState = "ACQUIRE"
         /\ fsm'.acqCounter = fsm.acqCounter - 1
         /\ fsm'.segGapCounter = SegmentGap
         /\ fsm'.segmentCounter = fsm.segmentCounter
         /\ fsm'.earlySegmentsCounter = fsm.earlySegmentsCounter
         /\ fsm'.watchForTrigger = fsm.watchForTrigger
         /\ fsm'.dpramWriteEnable = fsm.dpramWriteEnable
         /\ fsm'.triggerDpramAddr = fsm.triggerDpramAddr
         /\ fsm'.acqFinish = fsm.acqFinish
<1>1. fsm \in MachineKind /\ CountersAbove(fsm) /\ dpramWriteAddress \in Addresses
  BY DEF Typed, MemoryOK
<1>2. fsm' = [fsm EXCEPT !.acqCounter = fsm.acqCounter - 1,
                         !.segGapCounter = SegmentGap]
  BY <1>1 DEF StateMachine, Acquire, Done, MachineKind
<1>3. /\ fsm.acqCounter - 1 \in CounterKind
      /\ SegmentGap \in GapKind
  BY <1>1, Loads, Numbers, Fields
  DEF MachineKind, CountersAbove, States, CounterKind, SegmentKind, EarlyKind, GapKind, Done
<1>4. fsm' \in MachineKind
  BY <1>1, <1>2, <1>3 DEF MachineKind
<1>5. CountersAbove(fsm')
  BY <1>1, <1>2, <1>3, Loads, Numbers DEF CountersAbove, MachineKind, CounterKind, SegmentKind, Done
<1> QED BY <1>1, <1>2, <1>3, <1>4, <1>5 DEF MachineKind

LEMMA AcquiredMoves ==
  ASSUME Typed, StateMachine, acqActive, fsm.acqState = "ACQUIRE", Done(fsm.acqCounter)
  PROVE  /\ fsm' \in MachineKind /\ CountersAbove(fsm')
         /\ fsm'.acqState = IF Done(fsm.segmentCounter) THEN "DONE" ELSE "PAUSE"
         /\ fsm'.acqCounter = fsm.acqCounter - 1
         /\ fsm'.segmentCounter = fsm.segmentCounter - 1
         /\ fsm'.earlySegmentsCounter = IF Done(fsm.earlySegmentsCounter) THEN fsm.earlySegmentsCounter
                                 ELSE fsm.earlySegmentsCounter - 1
         /\ fsm'.segGapCounter = SegmentGap
         /\ fsm'.dpramWriteEnable = FALSE
         /\ fsm'.watchForTrigger = fsm.watchForTrigger
         /\ fsm'.triggerDpramAddr = fsm.triggerDpramAddr
         /\ fsm'.acqFinish = fsm.acqFinish
<1>1. fsm \in MachineKind /\ CountersAbove(fsm) /\ dpramWriteAddress \in Addresses
  BY DEF Typed, MemoryOK
<1>2. fsm' = [fsm EXCEPT !.acqState = IF Done(fsm.segmentCounter) THEN "DONE" ELSE "PAUSE",
                         !.acqCounter = fsm.acqCounter - 1,
                         !.segmentCounter = fsm.segmentCounter - 1,
                         !.earlySegmentsCounter = IF Done(fsm.earlySegmentsCounter) THEN fsm.earlySegmentsCounter ELSE fsm.earlySegmentsCounter - 1,
                         !.segGapCounter = SegmentGap,
                         !.dpramWriteEnable = FALSE]
  BY <1>1 DEF StateMachine, Acquire, Done, MachineKind
<1>3. /\ (IF Done(fsm.segmentCounter) THEN "DONE" ELSE "PAUSE") \in States
      /\ fsm.acqCounter - 1 \in CounterKind
      /\ fsm.segmentCounter - 1 \in SegmentKind
      /\ (IF Done(fsm.earlySegmentsCounter) THEN fsm.earlySegmentsCounter ELSE fsm.earlySegmentsCounter - 1) \in EarlyKind
      /\ SegmentGap \in GapKind
  BY <1>1, Loads, Numbers, Fields
  DEF MachineKind, CountersAbove, States, CounterKind, SegmentKind, EarlyKind, GapKind, Done
<1>4. fsm' \in MachineKind
  BY <1>1, <1>2, <1>3 DEF MachineKind
<1>5. CountersAbove(fsm')
  BY <1>1, <1>2, <1>3, Loads, Numbers DEF CountersAbove, MachineKind, CounterKind, SegmentKind, Done
<1> QED BY <1>1, <1>2, <1>3, <1>4, <1>5 DEF MachineKind

LEMMA PauseMoves ==
  ASSUME Typed, StateMachine, acqActive, fsm.acqState = "PAUSE", ~Done(fsm.segGapCounter)
  PROVE  /\ fsm' \in MachineKind /\ CountersAbove(fsm')
         /\ fsm'.acqState = "PAUSE"
         /\ fsm'.acqCounter = SegmentLoad
         /\ fsm'.segGapCounter = fsm.segGapCounter - 1
         /\ fsm'.segmentCounter = fsm.segmentCounter
         /\ fsm'.earlySegmentsCounter = fsm.earlySegmentsCounter
         /\ fsm'.watchForTrigger = fsm.watchForTrigger
         /\ fsm'.dpramWriteEnable = fsm.dpramWriteEnable
         /\ fsm'.triggerDpramAddr = fsm.triggerDpramAddr
         /\ fsm'.acqFinish = fsm.acqFinish
<1>1. fsm \in MachineKind /\ CountersAbove(fsm) /\ dpramWriteAddress \in Addresses
  BY DEF Typed, MemoryOK
<1>2. fsm' = [fsm EXCEPT !.acqCounter = SegmentLoad,
                         !.segGapCounter = fsm.segGapCounter - 1]
  BY <1>1 DEF StateMachine, Pause, Done, MachineKind
<1>3. /\ SegmentLoad \in CounterKind
      /\ fsm.segGapCounter - 1 \in GapKind
  BY <1>1, Loads, Numbers, Fields
  DEF MachineKind, CountersAbove, States, CounterKind, SegmentKind, EarlyKind, GapKind, Done
<1>4. fsm' \in MachineKind
  BY <1>1, <1>2, <1>3 DEF MachineKind
<1>5. CountersAbove(fsm')
  BY <1>1, <1>2, <1>3, Loads, Numbers DEF CountersAbove, MachineKind, CounterKind, SegmentKind, Done
<1> QED BY <1>1, <1>2, <1>3, <1>4, <1>5 DEF MachineKind

LEMMA ResumeMoves ==
  ASSUME Typed, StateMachine, acqActive, fsm.acqState = "PAUSE", Done(fsm.segGapCounter)
  PROVE  /\ fsm' \in MachineKind /\ CountersAbove(fsm')
         /\ fsm'.acqState = "ACQUIRE"
         /\ fsm'.acqCounter = SegmentLoad
         /\ fsm'.dpramWriteEnable = TRUE
         /\ fsm'.segmentCounter = fsm.segmentCounter
         /\ fsm'.earlySegmentsCounter = fsm.earlySegmentsCounter
         /\ fsm'.segGapCounter = fsm.segGapCounter
         /\ fsm'.watchForTrigger = fsm.watchForTrigger
         /\ fsm'.triggerDpramAddr = fsm.triggerDpramAddr
         /\ fsm'.acqFinish = fsm.acqFinish
<1>1. fsm \in MachineKind /\ CountersAbove(fsm) /\ dpramWriteAddress \in Addresses
  BY DEF Typed, MemoryOK
<1>2. fsm' = [fsm EXCEPT !.acqState = "ACQUIRE",
                         !.acqCounter = SegmentLoad,
                         !.dpramWriteEnable = TRUE]
  BY <1>1 DEF StateMachine, Pause, Done, MachineKind
<1>3. /\ "ACQUIRE" \in States
      /\ SegmentLoad \in CounterKind
  BY <1>1, Loads, Numbers, Fields
  DEF MachineKind, CountersAbove, States, CounterKind, SegmentKind, EarlyKind, GapKind, Done
<1>4. fsm' \in MachineKind
  BY <1>1, <1>2, <1>3 DEF MachineKind
<1>5. CountersAbove(fsm')
  BY <1>1, <1>2, <1>3, Loads, Numbers DEF CountersAbove, MachineKind, CounterKind, SegmentKind, Done
<1> QED BY <1>1, <1>2, <1>3, <1>4, <1>5 DEF MachineKind

LEMMA FinishMoves ==
  ASSUME Typed, StateMachine, acqActive, fsm.acqState = "DONE"
  PROVE  /\ fsm' \in MachineKind /\ CountersAbove(fsm')
         /\ fsm'.acqState = "DONE"
         /\ fsm'.acqFinish = TRUE
         /\ fsm'.acqCounter = fsm.acqCounter /\ fsm'.segmentCounter = fsm.segmentCounter
         /\ fsm'.earlySegmentsCounter = fsm.earlySegmentsCounter
         /\ fsm'.segGapCounter = fsm.segGapCounter
         /\ fsm'.watchForTrigger = fsm.watchForTrigger
         /\ fsm'.dpramWriteEnable = fsm.dpramWriteEnable
         /\ fsm'.triggerDpramAddr = fsm.triggerDpramAddr
<1>1. fsm \in MachineKind /\ CountersAbove(fsm) /\ dpramWriteAddress \in Addresses
  BY DEF Typed, MemoryOK
<1>2. fsm' = [fsm EXCEPT !.acqFinish = TRUE]
  BY <1>1 DEF StateMachine, Finished, Done, MachineKind
<1>4. fsm' \in MachineKind
  BY <1>1, <1>2 DEF MachineKind
<1>5. CountersAbove(fsm')
  BY <1>1, <1>2, Loads, Numbers DEF CountersAbove, MachineKind, CounterKind, SegmentKind, Done
<1> QED BY <1>1, <1>2, <1>4, <1>5 DEF MachineKind
LEMMA MachineTyped ==
  ASSUME Typed, StateMachine
  PROVE  fsm' \in MachineKind /\ CountersAbove(fsm')
<1>1. acqActive \in BOOLEAN /\ fsm.acqState \in States
  BY DEF Typed, BitsOK, MachineKind
<1> QED
  BY <1>1, InactiveMoves, StartMoves, FillMoves, FilledMoves, WaitMoves, TriggerMoves,
     AcquireMoves, AcquiredMoves, PauseMoves, ResumeMoves, FinishMoves DEF States

LEMMA NextAddressIs == \A a \in Addresses : NextAddress(a) \in Addresses
<1> SUFFICES ASSUME NEW a \in Addresses PROVE NextAddress(a) \in Addresses
  OBVIOUS
<1>1. PICK x \in Int : x = a + 1
  BY Numbers DEF Addresses
<1> QED BY <1>1, Remainder DEF NextAddress, Addresses

LEMMA TickTyped ==
  ASSUME Typed, Tick
  PROVE  Typed'
<1>1. /\ SettingsOK /\ BitsOK /\ MemoryOK /\ ArmsOK
      /\ acqConfig \in ConfigKind /\ fsm \in MachineKind
  BY DEF Typed
<1>2. SettingsOK' /\ ArmsOK' /\ acqConfig' \in ConfigKind
  BY <1>1 DEF Tick, settings, sys, SettingsOK, ArmsOK
<1>3. PICK strobe \in BOOLEAN, idle \in BOOLEAN, crossing \in Locations \cup {NoCrossing} :
        /\ WatchForTrigger(strobe, crossing, idle)
        /\ FollowTrigger(Fires(strobe, crossing))
  BY DEF Tick
<1>4. BitsOK'
  <2>1. {sysAcqActive, sysFull, sysAcqFinish_d, acqActive_m, acqActive}' \subseteq BOOLEAN
    BY <1>1 DEF Tick, sys, BitsOK
  <2>2. fsm.watchForTrigger \in BOOLEAN
    BY <1>1 DEF MachineKind
  <2>3. {watchForTrigger_d, triggersBeenIdle, triggered}' \subseteq BOOLEAN
    BY <1>1, <1>3, <2>2 DEF WatchForTrigger, BitsOK
  <2>4. triggerLocation' \in 0 .. SamplesPerClock - 1
    <3>1. triggerLocation' = IF Fires(strobe, crossing) THEN IF strobe THEN 0 ELSE crossing
                             ELSE triggerLocation
      BY <1>3 DEF WatchForTrigger
    <3>2. Fires(strobe, crossing) /\ ~strobe => crossing \in Locations
      BY DEF Fires
    <3>3. triggerLocation \in 0 .. SamplesPerClock - 1
      BY <1>1 DEF BitsOK
    <3>4. 0 \in 0 .. SamplesPerClock - 1
      BY GeometryAssumption
    <3>5. Locations \subseteq 0 .. SamplesPerClock - 1
      BY ClientAssumption
    <3> QED BY <3>1, <3>2, <3>3, <3>4, <3>5
  <2> QED BY <2>1, <2>3, <2>4 DEF BitsOK
<1>5. MemoryOK'
  <2>1. WriteMemory
    BY DEF Tick
  <2>2. dpramWriteAddress' \in Addresses /\ channelWriteAddress' \in Addresses
    BY <1>1, <2>1, NextAddressIs DEF WriteMemory, MemoryOK
  <2>3. channelWriteEnable' \in BOOLEAN
    BY <1>1, <2>1 DEF WriteMemory, MachineKind
  <2>4. age' \in [Addresses -> 0 .. Old]
    <3>1. \A a \in Addresses : age[a] \in 0 .. Old
      BY <1>1 DEF MemoryOK
    <3>2. \A a \in Addresses : (IF channelWriteEnable /\ a = channelWriteAddress THEN 1
                                ELSE Older(age[a])) \in 0 .. Old
      BY <3>1, OlderIs, Numbers
    <3>3. CASE Resting
      BY <1>1, <2>1, <3>3 DEF WriteMemory, MemoryOK
    <3>4. CASE ~Resting
      BY <2>1, <3>2, <3>4 DEF WriteMemory
    <3> QED BY <3>3, <3>4
  <2>5. triggerAge' \in 0 .. Old
    BY <1>1, <1>3, OlderIs, Numbers DEF FollowTrigger, MemoryOK
  <2> QED BY <2>2, <2>3, <2>4, <2>5 DEF MemoryOK
<1>6. fsm' \in MachineKind /\ CountersAbove(fsm')
  BY MachineTyped DEF Tick
<1> QED BY <1>2, <1>4, <1>5, <1>6 DEF Typed

LEMMA InitTyped == Init => Typed
<1> SUFFICES ASSUME Init PROVE Typed
  OBVIOUS
<1>1. SettingsOK
  BY Numbers DEF Init, SettingsOK, Modes
<1>2. BitsOK
  <2>1. triggerLocation \in 0 .. SamplesPerClock - 1
    BY Numbers DEF Init
  <2> QED BY <2>1 DEF Init, BitsOK
<1>3. MemoryOK
  <2>1. 0 \in Addresses /\ Old \in 0 .. Old
    BY Numbers DEF Addresses
  <2>2. age = [a \in Addresses |-> Old] /\ triggerAge = Old
    BY DEF Init
  <2>3. dpramWriteAddress = 0 /\ channelWriteAddress = 0 /\ channelWriteEnable = FALSE
    BY DEF Init
  <2> QED BY <2>1, <2>2, <2>3 DEF MemoryOK
<1>4. ArmsOK
  BY ClientAssumption DEF Init, ArmsOK
<1>5. acqConfig \in ConfigKind
  BY Numbers, Fields DEF Init, ConfigKind
<1>6. fsm \in MachineKind /\ CountersAbove(fsm)
  BY Numbers, Fields DEF Init, MachineKind, States, Addresses, CountersAbove,
       CounterKind, SegmentKind, EarlyKind, GapKind
<1> QED BY <1>1, <1>2, <1>3, <1>4, <1>5, <1>6 DEF Typed

LEMMA ArmTyped ==
  ASSUME Typed, Arm
  PROVE  Typed'
<1>1. /\ SettingsOK /\ BitsOK /\ MemoryOK /\ ArmsOK /\ fsm \in MachineKind /\ CountersAbove(fsm)
  BY DEF Typed
<1>2. SettingsOK' /\ fsm' \in MachineKind /\ CountersAbove(fsm')
  <2>1. fsm' = fsm /\ segMode' = segMode /\ pretriggerCount' = pretriggerCount
    BY DEF Arm, settings
  <2> QED BY <1>1, <2>1 DEF SettingsOK
<1>3. BitsOK'
  BY <1>1 DEF Arm, WriteCSR, trigger, BitsOK
<1>4. MemoryOK'
  BY <1>1, Numbers DEF Arm, MemoryOK
<1>5. ArmsOK'
  BY <1>1, ClientAssumption DEF Arm, ArmsOK
<1>6. acqConfig' \in ConfigKind
  <2>1. pretriggerClocks \in 0 .. Cap - 1
    BY <1>1, ClocksIs, Numbers DEF SettingsOK, pretriggerClocks
  <2>2. \A n \in {EarlyBits, LaterBits}, x \in Int : x % 2 ^ n \in 0 .. 2 ^ n - 1
    BY Quotient, FieldsAssumption
  <2>3. GapLoad(Intervals[segMode].early, EarlyBits) \in 0 .. 2 ^ EarlyBits - 1
    <3>1. PICK x \in Int : x = Intervals[segMode].early - Segment[segMode] - 2
      BY <1>1, ClientAssumption, Geometry DEF SettingsOK
    <3> QED BY <2>2, <3>1 DEF GapLoad
  <2>4. GapLoad(Intervals[segMode].later, LaterBits) \in 0 .. 2 ^ LaterBits - 1
    <3>1. PICK x \in Int : x = Intervals[segMode].later - Segment[segMode] - 2
      BY <1>1, ClientAssumption, Geometry DEF SettingsOK
    <3> QED BY <2>2, <3>1 DEF GapLoad
  <2> QED BY <2>1, <2>3, <2>4, Fields DEF Arm, ConfigKind
<1> QED BY <1>2, <1>3, <1>4, <1>5, <1>6 DEF Typed

LEMMA StepTyped ==
  ASSUME Typed, [Next]_vars
  PROVE  Typed'
<1>1. /\ SettingsOK /\ BitsOK /\ MemoryOK /\ ArmsOK
      /\ acqConfig \in ConfigKind /\ fsm \in MachineKind /\ CountersAbove(fsm)
  BY DEF Typed
<1>2. CASE Tick
  BY <1>2, TickTyped
<1>3. CASE SysSeesFinish \/ SysSeesFinishGone
  BY <1>1, <1>3 DEF SysSeesFinish, SysSeesFinishGone, FinishGone, settings, adc, trigger, memory,
       Typed, SettingsOK, BitsOK, MemoryOK, ArmsOK
<1>4. CASE \E n \in PretriggerCounts : acquisitionSetPretriggerCount(n)
  <2>1. PICK n \in Nat : acquisitionSetPretriggerCount(n)
    BY <1>4, ClientAssumption
  <2>2. SettingsOK'
    BY <1>1, <2>1, ClampIs DEF acquisitionSetPretriggerCount, SettingsOK
  <2> QED BY <1>1, <2>1, <2>2 DEF acquisitionSetPretriggerCount, sys, adc, trigger, memory,
            Typed, BitsOK, MemoryOK, ArmsOK
<1>5. CASE \E m \in ClientModes : acquisitionSetSegmentedMode(m)
  BY <1>1, <1>5, ClientAssumption DEF acquisitionSetSegmentedMode, sys, adc, trigger, memory,
       Typed, SettingsOK, BitsOK, MemoryOK, ArmsOK
<1>6. CASE Arm
  BY <1>6, ArmTyped
<1>7. CASE Disarm \/ Fetch
  BY <1>1, <1>7 DEF Disarm, Fetch, WriteCSR, settings, adc, trigger, memory,
       Typed, SettingsOK, BitsOK, MemoryOK, ArmsOK
<1>8. CASE UNCHANGED vars
  BY <1>1, <1>8 DEF vars, settings, sys, adc, trigger, memory,
       Typed, SettingsOK, BitsOK, MemoryOK, ArmsOK
<1> QED BY <1>2, <1>3, <1>4, <1>5, <1>6, <1>7, <1>8 DEF Next

(* Every counter, address and age of the recorder stays in the range of    *)
(* its register, whatever is set and whenever.                             *)
THEOREM TypeCorrect == Spec => []TypeOK
<1>1. Spec => []Typed
  BY InitTyped, StepTyped, PTL DEF Spec
<1> QED BY <1>1, TypedIs, PTL

----------------------------------------------------------------------------
(* The memory holds the first n words of a waveform that begins at address *)
(* from when each of them has the age that it should have in the clock in  *)
(* which a word of time zero has age clock; the last of them may be the    *)
(* one that is being written.                                              *)
Held(mem, from, m, clock, n) ==
  \A k \in 0 .. Segments(m) - 1, w \in 0 .. Segment[m] - 1 :
    k * Segment[m] + w < n =>
      mem[Place(from, k * Segment[m] + w)] = clock - Begins(m, k) - w
DueNow(m, n, clock) ==
  \A k \in 0 .. Segments(m) - 1, w \in 0 .. Segment[m] - 1 :
    k * Segment[m] + w = n => clock = Begins(m, k) + w
HeldOrWritten(on, at, mem, from, m, clock, n) ==
  IF on
  THEN n > 0 /\ at = Place(from, n - 1) /\ DueNow(m, n - 1, clock) /\ Held(mem, from, m, clock, n - 1)
  ELSE Held(mem, from, m, clock, n)
Aged(mem, on, at) == [a \in Addresses |-> IF on /\ a = at THEN 1 ELSE Older(mem[a])]

(* Before the trigger: the last n words, in front of the one that is being *)
(* written, just behind the write address.                                 *)
Recent(mem, addr, n) == \A j \in 1 .. n : mem[Place(addr, -1 - j)] = j

LEMMA SameRemainder ==
  ASSUME NEW x \in Int, NEW y \in Int, NEW d \in Int, x - y = Cap * d
  PROVE  x % Cap = y % Cap
<1>1. PICK c \in Nat \ {0} : c = Cap
  BY Numbers
<1>2. /\ x = c * (x \div c) + (x % c) /\ x % c \in 0 .. c - 1 /\ x \div c \in Int
      /\ y = c * (y \div c) + (y % c) /\ y % c \in 0 .. c - 1 /\ y \div c \in Int
  BY Quotient
<1>3. PICK q \in Int, r \in 0 .. c - 1, p \in Int, s \in 0 .. c - 1 :
        q = x \div c /\ r = x % c /\ p = y \div c /\ s = y % c
  BY <1>2
<1>4. r - s = c * (d - q + p)
  <2>1. x = c * q + r /\ y = c * p + s /\ x - y = c * d
    BY <1>1, <1>2, <1>3
  <2>2. c * (d - q + p) = c * d - c * q + c * p /\ c * d \in Int /\ c * q \in Int /\ c * p \in Int
    OBVIOUS
  <2> QED BY <2>1, <2>2
<1>5. r = s
  <2>1. PICK e \in Int : e = d - q + p
    OBVIOUS
  <2> QED BY <1>1, <1>3, <1>4, <2>1, Closer
<1> QED BY <1>1, <1>3, <1>5

LEMMA PlaceOfPlace ==
  ASSUME NEW from \in Int, NEW n \in Int, NEW i \in Int
  PROVE  Place(Place(from, n), i) = Place(from, n + i)
<1>1. PICK x \in Int, c \in Nat \ {0} : x = from + n /\ c = Cap
  BY Numbers
<1>2. x = c * (x \div c) + (x % c) /\ x % c \in Int /\ x \div c \in Int
  BY Quotient
<1>3. PICK q \in Int, r \in Int : q = x \div c /\ r = x % c
  BY <1>2
<1>4. (r + i) - (x + i) = c * (-q)
  <2>1. x = c * q + r
    BY <1>2, <1>3
  <2>2. c * (-q) = -(c * q) /\ c * q \in Int
    OBVIOUS
  <2> QED BY <2>1, <2>2
<1>5. (r + i) % Cap = (x + i) % Cap
  <2>1. PICK y \in Int, z \in Int, d \in Int : y = r + i /\ z = x + i /\ d = -q
    OBVIOUS
  <2>2. y - z = Cap * d
    BY <1>1, <1>4, <2>1
  <2> QED BY <2>1, <2>2, SameRemainder
<1>6. Place(from, n) = r
  BY <1>1, <1>3 DEF Place
<1>7. from + (n + i) = x + i
  BY <1>1
<1> QED BY <1>5, <1>6, <1>7 DEF Place

LEMMA PlaceHere ==
  ASSUME NEW a \in Addresses
  PROVE  a \in Int /\ Place(a, 0) = a /\ NextAddress(a) = Place(a, 1)
<1>1. a \in 0 .. Cap - 1 /\ a \in Int
  BY Numbers DEF Addresses
<1>2. a % Cap = a
  BY <1>1, SmallRemainder
<1> QED BY <1>1, <1>2 DEF Place, NextAddress

LEMMA NextHeld ==
  ASSUME NEW mem \in [Addresses -> 0 .. Old], NEW on \in BOOLEAN, NEW at \in Addresses,
         NEW from \in Int, NEW m \in Modes, NEW clock \in Int, NEW n \in 0 .. Cap,
         clock < Old, HeldOrWritten(on, at, mem, from, m, clock, n)
  PROVE  Held(Aged(mem, on, at), from, m, clock + 1, n)
<1>0. PICK new : new = Aged(mem, on, at)
  OBVIOUS
<1>7. PICK later \in Int : later = clock + 1
  OBVIOUS
<1> SUFFICES Held(new, from, m, later, n)
  BY <1>0, <1>7
<1> SUFFICES ASSUME NEW k \in 0 .. Segments(m) - 1, NEW w \in 0 .. Segment[m] - 1,
                    k * Segment[m] + w < n
             PROVE  new[Place(from, k * Segment[m] + w)] = later - Begins(m, k) - w
  BY DEF Held
<1>1. PICK i \in 0 .. Cap - 1 : i = k * Segment[m] + w
  BY WordIs
<1>2. PICK b \in Nat : b = Begins(m, k)
  BY BeginsNext, Geometry
<1>3. PICK a \in Addresses : a = Place(from, i)
  BY PlaceIs
<1>4. w \in Nat /\ n \in Nat /\ n <= Cap /\ Cap \in Nat
  BY Geometry
<1>5. CASE on /\ i = n - 1
  <2>1. a = at /\ clock = b + w
    BY <1>1, <1>2, <1>3, <1>5 DEF HeldOrWritten, DueNow
  <2>2. new[a] = 1
    BY <1>0, <1>5, <2>1 DEF Aged
  <2> QED BY <1>7, <1>1, <1>2, <1>3, <1>4, <2>1, <2>2
<1>6. CASE ~(on /\ i = n - 1)
  <2>1. mem[a] = clock - b - w
    <3>1. CASE on
      BY <1>1, <1>2, <1>3, <1>4, <1>6, <3>1 DEF HeldOrWritten, Held
    <3>2. CASE ~on
      BY <1>1, <1>2, <1>3, <3>2 DEF HeldOrWritten, Held
    <3> QED BY <3>1, <3>2
  <2>2. ~(on /\ a = at)
    <3> SUFFICES ASSUME on, a = at PROVE FALSE
      OBVIOUS
    <3>1. PICK j \in Int : j = n - 1
      BY <1>4
    <3>2. Place(from, j) = Place(from, i) /\ j > i
      BY <1>1, <1>3, <1>4, <1>6, <3>1 DEF HeldOrWritten
    <3>3. j - i < Cap /\ i - j < Cap
      BY <1>1, <1>4, <3>1, <3>2
    <3>4. j = i
      BY <3>1, <3>2, <3>3, PlacesDiffer
    <3> QED BY <3>1, <3>2, <3>4
  <2>3. new[a] = Older(mem[a])
    BY <1>0, <2>2 DEF Aged
  <2>4. mem[a] \in 0 .. Old /\ mem[a] < Old
    BY <1>4, <2>1, Numbers
  <2>5. Older(mem[a]) = mem[a] + 1
    BY <2>4, OlderIs
  <2> QED BY <1>7, <1>1, <1>2, <1>3, <1>4, <2>1, <2>3, <2>5
<1> QED BY <1>5, <1>6

LEMMA NextRecent ==
  ASSUME NEW mem \in [Addresses -> 0 .. Old], NEW addr \in Addresses, NEW n \in 0 .. Cap - 1,
         Recent(mem, addr, n)
  PROVE  Recent(Aged(mem, TRUE, Place(addr, -1)), NextAddress(addr), n + 1)
<1> SUFFICES ASSUME NEW j \in 1 .. n + 1
             PROVE  Aged(mem, TRUE, Place(addr, -1))[Place(NextAddress(addr), -1 - j)] = j
  BY DEF Recent
<1>1. addr \in Int /\ NextAddress(addr) = Place(addr, 1) /\ n \in Nat /\ Cap \in Nat /\ n < Cap
  BY PlaceHere, Numbers
<1>2. Place(NextAddress(addr), -1 - j) = Place(addr, -j)
  <2>1. PICK i \in Int : i = -1 - j
    OBVIOUS
  <2>2. Place(Place(addr, 1), i) = Place(addr, 1 + i)
    BY <1>1, PlaceOfPlace
  <2>3. 1 + i = -j
    BY <2>1
  <2> QED BY <1>1, <2>1, <2>2, <2>3
<1>3. PICK a \in Addresses : a = Place(addr, -j)
  <2>1. PICK i \in Int : i = -j
    OBVIOUS
  <2> QED BY <1>1, <2>1, PlaceIs
<1>4. CASE j = 1
  BY <1>2, <1>3, <1>4 DEF Aged
<1>5. CASE j # 1
  <2>1. PICK i \in 1 .. n : i = j - 1
    BY <1>1, <1>5
  <2>2. mem[Place(addr, -1 - i)] = i /\ -1 - i = -j
    BY <2>1 DEF Recent
  <2>3. mem[a] = i
    BY <1>3, <2>2
  <2>4. a # Place(addr, -1)
    <3>1. PICK x \in Int : x = -j
      OBVIOUS
    <3>2. x - (-1) < Cap /\ (-1) - x < Cap /\ x # -1
      BY <1>1, <1>5, <3>1
    <3> QED BY <1>1, <1>3, <3>1, <3>2, PlacesDiffer
  <2>5. i \in 0 .. Old /\ i < Old
    <3>1. Old >= Cap /\ Old \in Nat
      <4>1. PICK c \in Nat, q \in Nat, b \in Nat :
              c = Cap /\ q = Segments("short") /\ b = Longest
        BY Numbers, Fields, Geometry DEF Modes
      <4>2. 0 * (b + 2) <= q * (b + 2)
        BY Growing
      <4> QED BY <4>1, <4>2, OldIs
    <3> QED BY <1>1, <2>1, <3>1
  <2>6. Older(i) = i + 1
    BY <2>5, OlderIs
  <2> QED BY <1>2, <1>3, <2>1, <2>3, <2>4, <2>6 DEF Aged
<1> QED BY <1>4, <1>5

LEMMA RecentHeld ==
  ASSUME NEW mem, NEW m \in Modes, NEW from \in Int, NEW n \in 0 .. Segment[m],
         NEW addr, addr = Place(from, n + 1), Recent(mem, addr, n)
  PROVE  Held(mem, from, m, n, n)
<1> SUFFICES ASSUME NEW k \in 0 .. Segments(m) - 1, NEW w \in 0 .. Segment[m] - 1,
                    k * Segment[m] + w < n
             PROVE  mem[Place(from, k * Segment[m] + w)] = n - Begins(m, k) - w
  BY DEF Held
<1>1. n \in Int /\ w \in Int /\ n <= Segment[m] /\ w >= 0 /\ k \in Nat /\ Segment[m] \in Int
  BY Geometry
<1>2. k = 0
  <2>1. k > 0 => k * Segment[m] >= Segment[m]
    BY WordIs
  <2>2. k * Segment[m] \in Nat
    BY WordIs
  <2> QED BY <1>1, <2>1, <2>2
<1>3. k * Segment[m] = 0 /\ Begins(m, k) = 0
  BY <1>1, <1>2, BeginsNext
<1>4. PICK j \in 1 .. n : j = n - w
  BY <1>1, <1>3
<1>5. Place(addr, -1 - j) = Place(from, w)
  <2>1. PICK x \in Int, i \in Int : x = n + 1 /\ i = -1 - j
    BY <1>1
  <2>2. Place(Place(from, x), i) = Place(from, x + i)
    BY PlaceOfPlace
  <2>3. x + i = w
    BY <1>1, <1>4, <2>1
  <2> QED BY <2>1, <2>2, <2>3
<1>6. mem[Place(from, w)] = j
  BY <1>5 DEF Recent
<1> QED BY <1>1, <1>3, <1>4, <1>6

----------------------------------------------------------------------------
(* The registers hold the settings from when the recorder is armed until   *)
(* its samples have been read.                                             *)
Configured ==
  /\ acqConfig.pre = pretriggerClocks /\ pretriggerCount <= MaxPretrigger[segMode]
  /\ segMode # "contiguous" =>
       /\ acqConfig.early = Intervals[segMode].early - Segment[segMode] - 2
       /\ acqConfig.later = Intervals[segMode].later - Segment[segMode] - 2
InUse == sysAcqActive \/ acqActive_m \/ acqActive \/ fsm.acqState # "START" \/ sysFull
SettingsHold == InUse => Configured

(* At most one change of the active bit is on its way, and none while the  *)
(* state machine works, unless it is told to stop.                         *)
ActiveInStep ==
  /\ acqActive_m = sysAcqActive \/ acqActive_m = acqActive
  /\ fsm.acqState # "START" /\ sysAcqActive => acqActive_m /\ acqActive
  /\ fsm.acqFinish => fsm.acqState = "DONE"
  /\ sysFull => /\ ~sysAcqActive /\ fsm.acqState \in {"START", "DONE"}
                /\ fsm.acqState = "START" => ~acqActive
ControlInv == Typed /\ SettingsHold /\ ActiveInStep

LEMMA ConfiguredSizes ==
  ASSUME DocumentedUse, Typed, Configured
  PROVE  /\ acqConfig.pre \in 1 .. Segment[segMode] - 6
         /\ (acqConfig.pre - 1) * SamplesPerClock + 1 <= pretriggerCount
         /\ pretriggerCount <= acqConfig.pre * SamplesPerClock
<1>1. segMode \in Modes /\ pretriggerCount \in 1 .. CapSamples - SamplesPerClock
  BY DEF Typed, SettingsOK
<1>2. PICK c \in Int, s \in Nat \ {0}, l \in Nat \ {0} :
        c = acqConfig.pre /\ s = SamplesPerClock /\ l = Segment[segMode]
  <2>1. acqConfig.pre \in 0 .. Cap - 1
    BY DEF Typed, ConfigKind
  <2>2. acqConfig.pre \in Int /\ SamplesPerClock \in Nat \ {0} /\ Segment[segMode] \in Nat \ {0}
    BY <1>1, <2>1, Numbers, Geometry
  <2> QED BY <2>2
<1>3. c = (pretriggerCount + s - 1) \div s
  BY <1>2 DEF Configured, pretriggerClocks
<1>4. c >= 1 /\ (c - 1) * s + 1 <= pretriggerCount /\ pretriggerCount <= c * s
  BY <1>1, <1>2, <1>3, ClocksIs
<1>5. pretriggerCount <= (l - 6) * s
  <2>1. MaxPretrigger[segMode] <= (l - 6) * s /\ MaxPretrigger[segMode] \in Nat
    BY <1>1, <1>2, ClientAssumption DEF DocumentedUse
  <2>2. pretriggerCount <= MaxPretrigger[segMode] /\ pretriggerCount \in Int
    BY <1>1, Numbers DEF Configured
  <2>3. (l - 6) * s \in Int
    OBVIOUS
  <2> QED BY <2>1, <2>2, <2>3
<1>6. c <= l - 6
  <2> SUFFICES ASSUME c >= l - 5 PROVE FALSE
    OBVIOUS
  <2>1. (l - 6) * s <= (c - 1) * s /\ (l - 6) * s \in Int /\ (c - 1) * s \in Int
    BY Growing
  <2>2. pretriggerCount \in Int
    BY <1>1, Numbers
  <2> QED BY <1>4, <1>5, <2>1, <2>2
<1> QED BY <1>2, <1>4, <1>6

LEMMA ArmConfigures ==
  ASSUME DocumentedUse, Typed, Arm
  PROVE  Configured'
<1>1. segMode \in Modes /\ segMode' = segMode /\ pretriggerCount' = pretriggerCount
  BY DEF Typed, SettingsOK, Arm, settings
<1>2. acqConfig'.pre = pretriggerClocks /\ pretriggerClocks' = pretriggerClocks
  BY <1>1 DEF Arm, pretriggerClocks
<1>3. pretriggerCount' <= MaxPretrigger[segMode']
  BY <1>1 DEF Arm
<1>4. ASSUME segMode # "contiguous"
      PROVE  /\ acqConfig'.early = Intervals[segMode].early - Segment[segMode] - 2
             /\ acqConfig'.later = Intervals[segMode].later - Segment[segMode] - 2
  <2>1. PICK e \in Int, l \in Int :
          /\ e = Intervals[segMode].early - Segment[segMode] - 2
          /\ l = Intervals[segMode].later - Segment[segMode] - 2
    BY <1>1, ClientAssumption, Geometry
  <2>2. e \in 0 .. 2 ^ EarlyBits - 1 /\ l \in 0 .. 2 ^ LaterBits - 1
    BY <1>1, <1>4, <2>1 DEF DocumentedUse
  <2>3. e % 2 ^ EarlyBits = e /\ l % 2 ^ LaterBits = l
    <3>1. \A p \in Nat \ {0} : \A x \in 0 .. p - 1 : x % p = x
      OBVIOUS
    <3> QED BY <2>2, <3>1, Fields
  <2>4. /\ acqConfig'.early = GapLoad(Intervals[segMode].early, EarlyBits)
        /\ acqConfig'.later = GapLoad(Intervals[segMode].later, LaterBits)
    BY <1>4 DEF Arm
  <2> QED BY <2>1, <2>3, <2>4 DEF GapLoad
<1> QED BY <1>1, <1>2, <1>3, <1>4 DEF Configured

LEMMA TickControl ==
  ASSUME ControlInv, Tick
  PROVE  SettingsHold' /\ ActiveInStep'
<1>1. /\ Typed /\ StateMachine /\ acqActive_m' = sysAcqActive /\ acqActive' = acqActive_m
      /\ sysAcqActive' = sysAcqActive /\ sysFull' = sysFull /\ acqConfig' = acqConfig
      /\ segMode' = segMode /\ pretriggerCount' = pretriggerCount
  BY DEF ControlInv, Tick, settings, sys
<1>2. {acqActive_m, acqActive, sysAcqActive, sysFull} \subseteq BOOLEAN
  BY DEF ControlInv, Typed, BitsOK
<1>3. /\ ~acqActive => fsm'.acqState = "START" /\ fsm'.acqFinish = FALSE
      /\ acqActive /\ fsm.acqState = "DONE" => fsm'.acqState = "DONE"
      /\ acqActive /\ fsm.acqState # "DONE" => fsm'.acqFinish = fsm.acqFinish
  <2>1. fsm.acqState \in States
    BY <1>1 DEF Typed, MachineKind
  <2> QED
    BY <1>1, <2>1, InactiveMoves, StartMoves, FillMoves, FilledMoves, WaitMoves, TriggerMoves,
       AcquireMoves, AcquiredMoves, PauseMoves, ResumeMoves, FinishMoves DEF States
<1>4. SettingsHold'
  <2>1. Configured' <=> Configured
    BY <1>1 DEF Configured, pretriggerClocks
  <2>2. InUse' => InUse
    BY <1>1, <1>2, <1>3 DEF InUse
  <2> QED BY <2>1, <2>2 DEF ControlInv, SettingsHold
<1>5. ActiveInStep'
  BY <1>1, <1>2, <1>3 DEF ControlInv, ActiveInStep
<1> QED BY <1>4, <1>5

LEMMA InitControl == Init => ControlInv
<1> SUFFICES ASSUME Init PROVE ControlInv
  OBVIOUS
<1>1. fsm.acqState = "START" /\ fsm.acqFinish = FALSE
  BY DEF Init
<1>2. Typed /\ ~sysAcqActive /\ ~acqActive_m /\ ~acqActive /\ ~sysFull
      /\ acqActive_m = sysAcqActive
  BY InitTyped DEF Init
<1> QED BY <1>1, <1>2 DEF ControlInv, SettingsHold, InUse, ActiveInStep

(* The settings change only while the recorder is not in use.              *)
LEMMA StepControl ==
  ASSUME DocumentedUse, ControlInv, [Next]_vars
  PROVE  ControlInv'
<1>1. Typed /\ Typed'
  BY StepTyped DEF ControlInv
<1>2. {acqActive_m, acqActive, sysAcqActive, sysFull} \subseteq BOOLEAN
  BY <1>1 DEF Typed, BitsOK
<1> SUFFICES SettingsHold' /\ ActiveInStep'
  BY <1>1 DEF ControlInv
<1>3. CASE Tick
  BY <1>3, TickControl
<1>4. CASE (\E n \in PretriggerCounts : acquisitionSetPretriggerCount(n))
           \/ (\E m \in ClientModes : acquisitionSetSegmentedMode(m))
  <2>1. Settled /\ ~sysFull /\ ~sysAcqActive
    BY <1>2, <1>4 DEF acquisitionSetPretriggerCount, acquisitionSetSegmentedMode, MayConfigure, DocumentedUse
  <2>2. UNCHANGED <<sys, adc>>
    BY <1>4 DEF acquisitionSetPretriggerCount, acquisitionSetSegmentedMode
  <2> QED BY <1>2, <2>1, <2>2
          DEF sys, adc, Settled, ControlInv, SettingsHold, InUse, ActiveInStep
<1>5. CASE SysSeesFinish
  BY <1>2, <1>5 DEF SysSeesFinish, settings, adc, ControlInv, SettingsHold, InUse, ActiveInStep,
       Configured, pretriggerClocks
<1>6. CASE Arm
  <2>1. Configured'
    BY <1>1, <1>6, ArmConfigures
  <2> QED BY <1>2, <1>6, <2>1 DEF Arm, WriteCSR, Settled, ControlInv, SettingsHold, ActiveInStep
<1>7. CASE Disarm \/ Fetch
  BY <1>2, <1>7 DEF Disarm, Fetch, WriteCSR, Settled, settings, adc, ControlInv, SettingsHold, InUse,
       ActiveInStep, Configured, pretriggerClocks
<1>8. CASE SysSeesFinishGone \/ UNCHANGED vars
  BY <1>2, <1>8 DEF SysSeesFinishGone, vars, settings, sys, adc, ControlInv, SettingsHold, InUse,
       ActiveInStep, Configured, pretriggerClocks
<1> QED BY <1>3, <1>4, <1>5, <1>6, <1>7, <1>8 DEF Next

----------------------------------------------------------------------------
(* Segments still to come after the k that are finished.                   *)
EarlyCounter(k) == IF k < EARLY_SEGMENTS_COUNT - 1 THEN EARLY_SEGMENTS_COUNT - 2 - k ELSE -1
CountersAt(k) ==
  fsm.segmentCounter = Segments(segMode) - 2 - k /\ fsm.earlySegmentsCounter = EarlyCounter(k)
InStart == fsm.acqState = "START" /\ acqActive => CountersAt(0)

(* Before the trigger.                                                     *)
Writing == channelWriteEnable /\ channelWriteAddress = Place(dpramWriteAddress, -1)
InFill ==
  fsm.acqState = "FILL" =>
    /\ fsm.dpramWriteEnable /\ CountersAt(0)
    /\ fsm.acqCounter <= acqConfig.pre + 2
    /\ Recent(age, dpramWriteAddress, acqConfig.pre + 1 - fsm.acqCounter)
    /\ fsm.acqCounter < acqConfig.pre + 2 => Writing
InArmed ==
  fsm.acqState = "ARMED" =>
    /\ fsm.dpramWriteEnable /\ CountersAt(0) /\ Writing
    /\ Recent(age, dpramWriteAddress, acqConfig.pre + 3)

(* After the trigger: w words of segment k, and all of those before, have  *)
(* been taken.                                                             *)
First == fsm.triggerDpramAddr - TRIGGER_DETECTION_LATENCY - acqConfig.pre
Taken(clock, n) ==
  HeldOrWritten(channelWriteEnable, channelWriteAddress, age, First, segMode, clock, n)
AcquireAt(k, w) ==
  /\ fsm.acqCounter = Segment[segMode] - 2 - w /\ fsm.dpramWriteEnable /\ CountersAt(k)
  /\ dpramWriteAddress = Place(First, k * Segment[segMode] + w)
  /\ Taken(Begins(segMode, k) + w - 1, k * Segment[segMode] + w)
InAcquire ==
  fsm.acqState = "ACQUIRE" =>
    \E k \in 0 .. Segments(segMode) - 1, w \in 0 .. Segment[segMode] - 1 : AcquireAt(k, w)
PauseAt(k) ==
  /\ ~fsm.dpramWriteEnable /\ CountersAt(k)
  /\ dpramWriteAddress = Place(First, k * Segment[segMode])
  /\ Taken(Begins(segMode, k) - fsm.segGapCounter - 3, k * Segment[segMode])
InPause == fsm.acqState = "PAUSE" => \E k \in 1 .. Segments(segMode) - 1 : PauseAt(k)
Completion == Begins(segMode, Segments(segMode) - 1) + Segment[segMode]
InDone ==
  fsm.acqState = "DONE" =>
    ~fsm.dpramWriteEnable /\ Taken(IF channelWriteEnable THEN Completion - 1 ELSE Completion, Cap)
Phases == InStart /\ InFill /\ InArmed /\ InAcquire /\ InPause /\ InDone

WhenFinished == fsm.acqFinish => ~channelWriteEnable
WhenFull ==
  sysFull => /\ ~fsm.dpramWriteEnable /\ ~channelWriteEnable
             /\ Held(age, First, segMode, Completion, Cap)
RecorderInv == ControlInv /\ Phases /\ WhenFinished /\ WhenFull

LEMMA TickMemory ==
  ASSUME Typed, Tick
  PROVE  /\ StateMachine
         /\ segMode' = segMode /\ acqConfig' = acqConfig /\ sysFull' = sysFull
         /\ acqActive' = acqActive_m
         /\ channelWriteEnable' = fsm.dpramWriteEnable /\ channelWriteAddress' = dpramWriteAddress
         /\ dpramWriteAddress' =
              IF fsm.dpramWriteEnable THEN NextAddress(dpramWriteAddress) ELSE dpramWriteAddress
         /\ fsm.dpramWriteEnable \/ channelWriteEnable \/ fsm.acqState \notin {"START", "DONE"}
              => age' = Aged(age, channelWriteEnable, channelWriteAddress)
         /\ ~fsm.dpramWriteEnable /\ ~channelWriteEnable /\ fsm.acqState \in {"START", "DONE"}
              => age' = age
<1>1. WriteMemory /\ StateMachine /\ UNCHANGED <<settings, sys>> /\ acqActive' = acqActive_m
  BY DEF Tick
<1> QED BY <1>1 DEF WriteMemory, Resting, Aged, settings, sys

LEMMA InactiveTick ==
  ASSUME ControlInv, Tick, ~acqActive
  PROVE  Phases'
<1>1. /\ fsm'.acqState = "START" /\ segMode' = segMode
      /\ fsm'.segmentCounter = SegmentCounterLoad /\ fsm'.earlySegmentsCounter = EARLY_SEGMENTS_COUNT - 2
  BY InactiveMoves, TickMemory DEF ControlInv
<1>2. CountersAt(0)'
  <2>1. Segments(segMode) \in Int
    BY Geometry DEF ControlInv, Typed, SettingsOK
  <2> QED BY <1>1, <2>1, Numbers DEF CountersAt, SegmentCounterLoad, EarlyCounter
<1> QED BY <1>1, <1>2 DEF Phases, InStart, InFill, InArmed, InAcquire, InPause, InDone

(* The sizes that the settings in use have.                                *)
LEMMA InUseSizes ==
  ASSUME DocumentedUse, ControlInv, InUse
  PROVE  /\ segMode \in Modes
         /\ Segment[segMode] \in Nat \ {0} /\ Segments(segMode) \in Nat \ {0}
         /\ Segment[segMode] <= Cap /\ Cap \in Nat
         /\ acqConfig.pre \in 1 .. Segment[segMode] - 6
<1>1. segMode \in Modes /\ Configured /\ Typed
  BY DEF ControlInv, Typed, SettingsOK, SettingsHold
<1> QED BY <1>1, Geometry, ConfiguredSizes

LEMMA StartTick ==
  ASSUME DocumentedUse, ControlInv, Phases, Tick, acqActive, fsm.acqState = "START"
  PROVE  Phases'
<1>1. /\ fsm'.acqState = "FILL" /\ fsm'.dpramWriteEnable = TRUE /\ fsm'.acqCounter = PretriggerLoad
      /\ fsm'.segmentCounter = fsm.segmentCounter
      /\ fsm'.earlySegmentsCounter = fsm.earlySegmentsCounter
      /\ segMode' = segMode /\ acqConfig' = acqConfig
  BY StartMoves, TickMemory DEF ControlInv
<1>2. PICK c \in Nat, l \in Nat :
        c = acqConfig.pre /\ l = Segment[segMode] /\ c <= l - 6 /\ l <= Cap /\ Cap \in Nat
  BY InUseSizes DEF InUse
<1>3. PretriggerLoad = c + 2
  <2>1. PICK x \in 0 .. Cap - 1 : x = c + 2
    BY <1>2
  <2>2. x = acqConfig.pre + TRIGGER_DETECTION_LATENCY - 2
    BY <1>2, <2>1 DEF TRIGGER_DETECTION_LATENCY
  <2> QED BY <2>1, <2>2, SmallRemainder DEF PretriggerLoad
<1>4. CountersAt(0)'
  BY <1>1 DEF Phases, InStart, CountersAt
<1>5. Recent(age, dpramWriteAddress, acqConfig.pre + 1 - fsm.acqCounter)'
  <2>1. acqConfig'.pre + 1 - fsm'.acqCounter = -1
    BY <1>1, <1>2, <1>3
  <2> QED BY <2>1 DEF Recent
<1>6. InFill'
  BY <1>1, <1>2, <1>3, <1>4, <1>5 DEF InFill
<1> QED BY <1>1, <1>6 DEF Phases, InStart, InArmed, InAcquire, InPause, InDone

LEMMA WriteBehind ==
  ASSUME Typed, Tick, fsm.dpramWriteEnable
  PROVE  Writing'
<1>1. dpramWriteAddress \in Addresses
  BY DEF Typed, MemoryOK
<1>2. /\ channelWriteEnable' = fsm.dpramWriteEnable /\ channelWriteAddress' = dpramWriteAddress
      /\ dpramWriteAddress' = NextAddress(dpramWriteAddress)
  BY TickMemory
<1>3. PICK a \in Int : a = dpramWriteAddress
  BY <1>1, PlaceHere
<1>4. Place(Place(a, 1), -1) = Place(a, 1 + (-1))
  BY PlaceOfPlace
<1>5. Place(NextAddress(dpramWriteAddress), -1) = dpramWriteAddress
  BY <1>1, <1>3, <1>4, PlaceHere
<1> QED BY <1>2, <1>5 DEF Writing

(* Before the trigger every clock writes one more word.                    *)
LEMMA WriteRecent ==
  ASSUME Typed, Tick, fsm.dpramWriteEnable, fsm.acqState \notin {"START", "DONE"},
         Writing, NEW n \in 0 .. Cap - 1, Recent(age, dpramWriteAddress, n)
  PROVE  Writing' /\ Recent(age', dpramWriteAddress', n + 1)
<1>1. age \in [Addresses -> 0 .. Old] /\ dpramWriteAddress \in Addresses
  BY DEF Typed, MemoryOK
<1>2. /\ age' = Aged(age, TRUE, Place(dpramWriteAddress, -1))
      /\ dpramWriteAddress' = NextAddress(dpramWriteAddress)
  BY TickMemory DEF Writing, Aged
<1>3. Recent(age', dpramWriteAddress', n + 1)
  BY <1>1, <1>2, NextRecent
<1> QED BY <1>3, WriteBehind

LEMMA FillTick ==
  ASSUME DocumentedUse, ControlInv, Phases, Tick, acqActive, fsm.acqState = "FILL"
  PROVE  Phases'
<1>1. /\ fsm.dpramWriteEnable /\ CountersAt(0)
      /\ fsm.acqCounter <= acqConfig.pre + 2
      /\ Recent(age, dpramWriteAddress, acqConfig.pre + 1 - fsm.acqCounter)
      /\ fsm.acqCounter < acqConfig.pre + 2 => Writing
  BY DEF Phases, InFill
<1>2. PICK c \in Nat, l \in Nat :
        c = acqConfig.pre /\ l = Segment[segMode] /\ c <= l - 6 /\ l <= Cap /\ Cap \in Nat
  BY InUseSizes DEF InUse
<1>3. PICK i \in Int : i = fsm.acqCounter /\ i >= -1 /\ i <= c + 2
  <2>1. fsm.acqCounter \in -8 .. Cap - 1 /\ fsm.acqCounter >= -1
    BY DEF ControlInv, Typed, MachineKind, CounterKind, CountersAbove
  <2>2. fsm.acqCounter \in Int
    BY <2>1, Numbers
  <2> QED BY <1>1, <1>2, <2>1, <2>2
<1>4. /\ fsm'.acqState = IF i < 0 THEN "ARMED" ELSE "FILL"
      /\ fsm'.dpramWriteEnable = fsm.dpramWriteEnable /\ fsm'.acqCounter = i - 1
      /\ fsm'.segmentCounter = fsm.segmentCounter
      /\ fsm'.earlySegmentsCounter = fsm.earlySegmentsCounter
      /\ segMode' = segMode /\ acqConfig' = acqConfig
  BY <1>3, FillMoves, FilledMoves, TickMemory DEF ControlInv, Done
<1>5. Writing'
  BY <1>1, WriteBehind DEF ControlInv
<1>6. CountersAt(0)'
  BY <1>1, <1>4 DEF CountersAt
<1>7. Recent(age', dpramWriteAddress', c + 2 - i)
  <2>1. CASE i = c + 2
    <3>1. c + 2 - i = 0
      BY <2>1
    <3> QED BY <3>1 DEF Recent
  <2>2. CASE i < c + 2
    <3>1. PICK n \in 0 .. Cap - 1 : n = c + 1 - i
      BY <1>2, <1>3, <2>2
    <3>2. Recent(age, dpramWriteAddress, n) /\ Writing
      BY <1>1, <1>2, <1>3, <2>2, <3>1
    <3>3. Recent(age', dpramWriteAddress', n + 1)
      BY <1>1, <3>2, WriteRecent DEF ControlInv
    <3>4. n + 1 = c + 2 - i
      BY <3>1
    <3> QED BY <3>3, <3>4
  <2> QED BY <1>3, <2>1, <2>2
<1>8. CASE i < 0
  <2>1. c + 2 - i = c + 3
    BY <1>3, <1>8
  <2>2. InArmed'
    BY <1>1, <1>2, <1>4, <1>5, <1>6, <1>7, <2>1 DEF InArmed
  <2> QED BY <1>4, <1>8, <2>2 DEF Phases, InStart, InFill, InAcquire, InPause, InDone
<1>9. CASE i >= 0
  <2>1. acqConfig'.pre + 1 - fsm'.acqCounter = c + 2 - i /\ fsm'.acqCounter <= acqConfig'.pre + 2
    BY <1>2, <1>3, <1>4
  <2>2. InFill'
    BY <1>1, <1>4, <1>5, <1>6, <1>7, <2>1 DEF InFill
  <2> QED BY <1>3, <1>4, <1>9, <2>2 DEF Phases, InStart, InArmed, InAcquire, InPause, InDone
<1> QED BY <1>3, <1>8, <1>9

LEMMA WaitTick ==
  ASSUME DocumentedUse, ControlInv, Phases, Tick, acqActive, fsm.acqState = "ARMED", ~triggered
  PROVE  Phases'
<1>1. /\ fsm.dpramWriteEnable /\ CountersAt(0) /\ Writing
      /\ Recent(age, dpramWriteAddress, acqConfig.pre + 3)
  BY DEF Phases, InArmed
<1>2. PICK c \in Nat, l \in Nat :
        c = acqConfig.pre /\ l = Segment[segMode] /\ c <= l - 6 /\ l <= Cap /\ Cap \in Nat
  BY InUseSizes DEF InUse
<1>3. /\ fsm'.acqState = "ARMED" /\ fsm'.dpramWriteEnable = fsm.dpramWriteEnable
      /\ fsm'.segmentCounter = fsm.segmentCounter
      /\ fsm'.earlySegmentsCounter = fsm.earlySegmentsCounter
      /\ segMode' = segMode /\ acqConfig' = acqConfig
  BY WaitMoves, TickMemory DEF ControlInv
<1>4. Writing' /\ Recent(age', dpramWriteAddress', c + 3)
  <2>1. PICK n \in 0 .. Cap - 1 : n = c + 3
    BY <1>2
  <2>2. Writing' /\ Recent(age', dpramWriteAddress', n + 1)
    BY <1>1, <1>2, <2>1, WriteRecent DEF ControlInv
  <2>3. 1 .. n \subseteq 1 .. n + 1
    OBVIOUS
  <2> QED BY <2>1, <2>2, <2>3 DEF Recent
<1>5. CountersAt(0)'
  BY <1>1, <1>3 DEF CountersAt
<1>6. InArmed'
  BY <1>1, <1>2, <1>3, <1>4, <1>5 DEF InArmed
<1> QED BY <1>3, <1>6 DEF Phases, InStart, InFill, InAcquire, InPause, InDone

(* The trigger: the words behind the write address become the first of the *)
(* waveform, of which pre clocks are before the trigger.                   *)
LEMMA TriggerTick ==
  ASSUME DocumentedUse, ControlInv, Phases, Tick, acqActive, fsm.acqState = "ARMED", triggered
  PROVE  Phases' /\ AcquireAt(0, acqConfig.pre + 5)'
<1>1. /\ fsm.dpramWriteEnable /\ CountersAt(0) /\ Writing
      /\ Recent(age, dpramWriteAddress, acqConfig.pre + 3)
  BY DEF Phases, InArmed
<1>2. PICK c \in Nat, l \in Nat :
        /\ c = acqConfig.pre /\ l = Segment[segMode] /\ c <= l - 6 /\ l <= Cap /\ Cap \in Nat
        /\ c >= 1 /\ segMode \in Modes /\ Segments(segMode) \in Nat \ {0}
  BY InUseSizes DEF InUse
<1>3. /\ fsm'.acqState = "ACQUIRE" /\ fsm'.dpramWriteEnable = TRUE
      /\ fsm'.acqCounter = PosttriggerLoad /\ fsm'.triggerDpramAddr = dpramWriteAddress
      /\ fsm'.segmentCounter = fsm.segmentCounter
      /\ fsm'.earlySegmentsCounter = fsm.earlySegmentsCounter
      /\ segMode' = segMode /\ acqConfig' = acqConfig
      /\ channelWriteEnable' = fsm.dpramWriteEnable /\ channelWriteAddress' = dpramWriteAddress
      /\ dpramWriteAddress' = NextAddress(dpramWriteAddress)
  BY <1>1, TriggerMoves, TickMemory DEF ControlInv
<1>4. PICK a \in Int : a = dpramWriteAddress /\ a \in Addresses
  <2>1. dpramWriteAddress \in Addresses
    BY DEF ControlInv, Typed, MemoryOK
  <2> QED BY <2>1, PlaceHere
<1>5. PICK f \in Int : f = First' /\ f + (c + 4) = a
  <2>1. First' = a - 4 - c
    BY <1>2, <1>3, <1>4 DEF First, TRIGGER_DETECTION_LATENCY
  <2> QED BY <1>2, <1>4, <2>1
<1>6. Place(f, c + 4) = a /\ dpramWriteAddress' = Place(f, c + 5)
  <2>1. Place(f, c + 4) = Place(a, 0)
    BY <1>2, <1>4, <1>5 DEF Place
  <2>2. Place(a, 0) = a /\ NextAddress(a) = Place(a, 1)
    BY <1>4, PlaceHere
  <2>3. f + (c + 5) = a + 1
    BY <1>2, <1>4, <1>5
  <2>4. Place(f, c + 5) = Place(a, 1)
    BY <2>3 DEF Place
  <2> QED BY <1>3, <1>4, <2>1, <2>2, <2>4
<1>7. Held(age', f, segMode, c + 4, c + 4)
  <2>1. PICK n \in 0 .. Cap - 1 : n = c + 3
    BY <1>2
  <2>2. Recent(age', dpramWriteAddress', n + 1)
    BY <1>1, <1>2, <2>1, WriteRecent DEF ControlInv
  <2>3. PICK i \in 0 .. Segment[segMode] : i = n + 1 /\ i = c + 4
    BY <1>2, <2>1
  <2>4. dpramWriteAddress' = Place(f, i + 1)
    <3>1. i + 1 = c + 5
      BY <2>3
    <3> QED BY <1>6, <3>1
  <2>5. Held(age', f, segMode, i, i)
    BY <1>2, <2>2, <2>3, <2>4, RecentHeld
  <2> QED BY <2>3, <2>5
<1>8. DueNow(segMode, c + 4, c + 4)
  <2> SUFFICES ASSUME NEW k \in 0 .. Segments(segMode) - 1, NEW w \in 0 .. Segment[segMode] - 1,
                      k * Segment[segMode] + w = c + 4
               PROVE  c + 4 = Begins(segMode, k) + w
    BY DEF DueNow
  <2>1. k = 0 /\ w = c + 4
    <3>1. PICK i \in 0 .. Segments(segMode) - 1, v \in 0 .. Segment[segMode] - 1 : i = 0 /\ v = c + 4
      BY <1>2
    <3>2. i * Segment[segMode] + v = c + 4
      BY <1>2, <3>1
    <3> QED BY <1>2, <3>1, <3>2, WordsDiffer
  <2>2. Begins(segMode, 0) = 0
    BY <1>2, BeginsNext
  <2> QED BY <1>2, <2>1, <2>2
<1>9. PosttriggerLoad = l - 2 - (c + 5)
  <2>1. PICK x \in 0 .. Cap - 1 : x = l - c
    BY <1>2
  <2>2. x % Cap = x
    BY SmallRemainder
  <2>3. PosttriggerLoad = x - 4 - 1 - 2
    BY <1>2, <2>1, <2>2
    DEF PosttriggerLoad, TRIGGER_DETECTION_LATENCY, TRIGGER_RESPONSE_LATENCY
  <2> QED BY <1>2, <2>1, <2>3
<1>10. CountersAt(0)'
  BY <1>1, <1>3 DEF CountersAt
<1>11. AcquireAt(0, c + 5)'
  <2>1. Begins(segMode, 0) = 0 /\ 0 * Segment[segMode] = 0
    BY <1>2, BeginsNext
  <2>2. Taken(c + 4, c + 5)'
    <3>1. c + 5 > 0 /\ (c + 5) - 1 = c + 4
      BY <1>2
    <3>2. HeldOrWritten(TRUE, a, age', f, segMode, c + 4, c + 5)
      BY <1>6, <1>7, <1>8, <3>1 DEF HeldOrWritten
    <3>3. channelWriteEnable' = TRUE
      BY <1>1, <1>3 DEF ControlInv, Typed, MachineKind
    <3> QED BY <1>3, <1>4, <1>5, <3>2, <3>3 DEF Taken
  <2>3. 0 * Segment[segMode] + (c + 5) = c + 5 /\ Begins(segMode, 0) + (c + 5) - 1 = c + 4
    BY <1>2, <2>1
  <2> QED BY <1>2, <1>3, <1>5, <1>6, <1>9, <1>10, <2>2, <2>3 DEF AcquireAt
<1>12. InAcquire'
  <2>1. 0 \in 0 .. Segments(segMode) - 1 /\ c + 5 \in 0 .. Segment[segMode] - 1
    BY <1>2
  <2> QED BY <1>3, <1>11, <2>1 DEF InAcquire
<1> QED BY <1>2, <1>3, <1>11, <1>12 DEF Phases, InStart, InFill, InArmed, InPause, InDone

(* After the trigger a clock writes the next word, or only gets older.     *)
LEMMA FirstIs ==
  ASSUME Typed
  PROVE  First \in Int
<1>1. fsm.triggerDpramAddr \in Addresses /\ acqConfig.pre \in 0 .. Cap - 1
  BY DEF Typed, MachineKind, ConfigKind
<1>2. fsm.triggerDpramAddr \in Int /\ acqConfig.pre \in Int
  BY <1>1, PlaceHere, Numbers
<1> QED BY <1>2 DEF First, TRIGGER_DETECTION_LATENCY

LEMMA WriteWord ==
  ASSUME Typed, Tick, fsm.dpramWriteEnable, fsm.acqState \notin {"START", "DONE"},
         fsm'.triggerDpramAddr = fsm.triggerDpramAddr,
         NEW clock \in Int, NEW n \in 0 .. Cap - 1, clock < Old,
         dpramWriteAddress = Place(First, n), DueNow(segMode, n, clock + 1), Taken(clock, n)
  PROVE  dpramWriteAddress' = Place(First', n + 1) /\ Taken(clock + 1, n + 1)'
<1>1. /\ segMode \in Modes /\ age \in [Addresses -> 0 .. Old] /\ channelWriteEnable \in BOOLEAN
      /\ channelWriteAddress \in Addresses /\ n \in 0 .. Cap /\ n \in Nat
  BY Numbers DEF Typed, SettingsOK, MemoryOK
<1>2. PICK f \in Int : f = First /\ f = First'
  BY FirstIs, TickMemory DEF First
<1>3. /\ segMode' = segMode /\ channelWriteEnable' = fsm.dpramWriteEnable
      /\ channelWriteAddress' = dpramWriteAddress /\ dpramWriteAddress' = NextAddress(dpramWriteAddress)
      /\ age' = Aged(age, channelWriteEnable, channelWriteAddress)
  BY TickMemory
<1>4. Held(age', f, segMode, clock + 1, n)
  BY <1>1, <1>2, <1>3, NextHeld DEF Taken
<1>5. dpramWriteAddress' = Place(f, n + 1)
  <2>1. NextAddress(Place(f, n)) = Place(f, n + 1)
    BY <1>1, PlaceIs
  <2> QED BY <1>2, <1>3, <2>1
<1>6. n + 1 > 0 /\ (n + 1) - 1 = n
  BY <1>1
<1>7. HeldOrWritten(TRUE, Place(f, n), age', f, segMode, clock + 1, n + 1)
  BY <1>4, <1>6 DEF HeldOrWritten
<1>8. channelWriteEnable' = TRUE
  BY <1>3 DEF Typed, MachineKind
<1> QED BY <1>2, <1>3, <1>5, <1>7, <1>8 DEF Taken

LEMMA OnlyOlder ==
  ASSUME Typed, Tick, ~fsm.dpramWriteEnable, channelWriteEnable \/ fsm.acqState \notin {"START", "DONE"},
         fsm'.triggerDpramAddr = fsm.triggerDpramAddr,
         NEW clock \in Int, NEW n \in 0 .. Cap, clock < Old, Taken(clock, n)
  PROVE  dpramWriteAddress' = dpramWriteAddress /\ First' = First /\ ~channelWriteEnable'
         /\ Taken(clock + 1, n)'
<1>1. /\ segMode \in Modes /\ age \in [Addresses -> 0 .. Old] /\ channelWriteEnable \in BOOLEAN
      /\ channelWriteAddress \in Addresses
  BY DEF Typed, SettingsOK, MemoryOK
<1>2. PICK f \in Int : f = First /\ f = First'
  BY FirstIs, TickMemory DEF First
<1>3. /\ segMode' = segMode /\ ~channelWriteEnable' /\ dpramWriteAddress' = dpramWriteAddress
      /\ age' = Aged(age, channelWriteEnable, channelWriteAddress)
  BY TickMemory
<1>4. Held(age', f, segMode, clock + 1, n)
  BY <1>1, <1>2, <1>3, NextHeld DEF Taken
<1> QED BY <1>2, <1>3, <1>4 DEF Taken, HeldOrWritten

(* The words of the segment that is being acquired are due one a clock.    *)
LEMMA NextDue ==
  ASSUME NEW m \in Modes, NEW k \in 0 .. Segments(m) - 1, NEW w \in 0 .. Segment[m] - 1
  PROVE  DueNow(m, k * Segment[m] + w, Begins(m, k) + w)
<1> SUFFICES ASSUME NEW i \in 0 .. Segments(m) - 1, NEW v \in 0 .. Segment[m] - 1,
                    i * Segment[m] + v = k * Segment[m] + w
             PROVE  Begins(m, k) + w = Begins(m, i) + v
  BY DEF DueNow
<1>1. i = k /\ v = w
  BY WordsDiffer
<1> QED BY <1>1

LEMMA AcquireWord ==
  ASSUME DocumentedUse, ControlInv, Tick, acqActive, fsm.acqState = "ACQUIRE",
         fsm'.triggerDpramAddr = fsm.triggerDpramAddr,
         NEW k \in 0 .. Segments(segMode) - 1, NEW w \in 0 .. Segment[segMode] - 1, AcquireAt(k, w)
  PROVE  /\ dpramWriteAddress' = Place(First', k * Segment[segMode] + w + 1)
         /\ Taken(Begins(segMode, k) + w, k * Segment[segMode] + w + 1)'
<1>1. segMode \in Modes /\ Typed
  BY DEF ControlInv, Typed, SettingsOK
<1>2. PICK n \in 0 .. Cap - 1 : n = k * Segment[segMode] + w
  BY <1>1, WordIs
<1>3. PICK b \in Nat : b = Begins(segMode, k) /\ b + Segment[segMode] + 1 <= Old
  BY <1>1, RoomForIntervals
<1>4. Segment[segMode] \in Nat /\ w \in Nat /\ w < Segment[segMode] /\ Old \in Nat
  BY <1>1, Geometry, Numbers
<1>5. PICK clock \in Int : clock = b + w - 1 /\ clock < Old /\ clock + 1 = b + w
  BY <1>3, <1>4
<1>6. DueNow(segMode, n, clock + 1)
  BY <1>1, <1>2, <1>3, <1>5, NextDue
<1>7. dpramWriteAddress = Place(First, n) /\ Taken(clock, n) /\ fsm.dpramWriteEnable
  BY <1>2, <1>3, <1>5 DEF AcquireAt
<1>8. dpramWriteAddress' = Place(First', n + 1) /\ Taken(clock + 1, n + 1)'
  BY <1>1, <1>5, <1>6, <1>7, WriteWord
<1>9. segMode' = segMode
  BY <1>1, TickMemory
<1> QED BY <1>2, <1>3, <1>5, <1>8, <1>9

LEMMA AcquireTick ==
  ASSUME DocumentedUse, ControlInv, Tick, acqActive, fsm.acqState = "ACQUIRE", ~Done(fsm.acqCounter),
         NEW k \in 0 .. Segments(segMode) - 1, NEW w \in 0 .. Segment[segMode] - 1, AcquireAt(k, w)
  PROVE  w + 1 \in 0 .. Segment[segMode] - 1 /\ AcquireAt(k, w + 1)' /\ Phases'
<1>1. segMode \in Modes /\ Typed
  BY DEF ControlInv, Typed, SettingsOK
<1>2. /\ fsm'.acqState = "ACQUIRE" /\ fsm'.acqCounter = fsm.acqCounter - 1
      /\ fsm'.dpramWriteEnable = fsm.dpramWriteEnable
      /\ fsm'.triggerDpramAddr = fsm.triggerDpramAddr
      /\ fsm'.segmentCounter = fsm.segmentCounter
      /\ fsm'.earlySegmentsCounter = fsm.earlySegmentsCounter
      /\ segMode' = segMode
  BY <1>1, AcquireMoves, TickMemory
<1>3. PICK l \in Nat \ {0} : l = Segment[segMode]
  BY <1>1, Geometry
<1>4. fsm.acqCounter = l - 2 - w /\ w \in Nat /\ l - 2 - w >= 0
  BY <1>3 DEF AcquireAt, Done
<1>5. w + 1 \in 0 .. l - 1 /\ fsm'.acqCounter = l - 2 - (w + 1)
  BY <1>2, <1>4
<1>6. PICK n \in Nat, b \in Nat : n = k * l /\ b = Begins(segMode, k)
  <2>1. k * Segment[segMode] \in Nat
    BY <1>1, WordIs
  <2>2. k \in Nat
    BY <1>1, Geometry
  <2>3. Begins(segMode, k) \in Nat
    BY <1>1, <2>2, BeginsNext
  <2> QED BY <1>3, <2>1, <2>3
<1>7. /\ dpramWriteAddress' = Place(First', n + w + 1)
      /\ Taken(b + w, n + w + 1)'
  BY <1>2, <1>3, <1>6, AcquireWord
<1>8. n + w + 1 = n + (w + 1) /\ b + w = b + (w + 1) - 1
  BY <1>4
<1>9. CountersAt(k)' /\ fsm'.dpramWriteEnable
  BY <1>2 DEF AcquireAt, CountersAt
<1>10. AcquireAt(k, w + 1)'
  BY <1>2, <1>3, <1>5, <1>6, <1>7, <1>8, <1>9 DEF AcquireAt
<1>11. InAcquire'
  BY <1>2, <1>3, <1>5, <1>10 DEF InAcquire
<1> QED BY <1>2, <1>3, <1>5, <1>10, <1>11 DEF Phases, InStart, InFill, InArmed, InPause, InDone

(* The last word of a segment.                                             *)
LEMMA AcquiredTick ==
  ASSUME DocumentedUse, ControlInv, Tick, acqActive, fsm.acqState = "ACQUIRE", Done(fsm.acqCounter),
         NEW k \in 0 .. Segments(segMode) - 1, NEW w \in 0 .. Segment[segMode] - 1, AcquireAt(k, w)
  PROVE  /\ w = Segment[segMode] - 1 /\ Phases'
         /\ IF k < Segments(segMode) - 1
            THEN /\ fsm'.acqState = "PAUSE" /\ PauseAt(k + 1)'
                 /\ fsm'.segGapCounter = Interval(segMode, k) - Segment[segMode] - 2
            ELSE fsm'.acqState = "DONE" /\ channelWriteEnable'
<1>1. segMode \in Modes /\ Typed
  BY DEF ControlInv, Typed, SettingsOK
<1>2. /\ fsm'.acqState = IF Done(fsm.segmentCounter) THEN "DONE" ELSE "PAUSE"
      /\ fsm'.segmentCounter = fsm.segmentCounter - 1
      /\ fsm'.earlySegmentsCounter = IF Done(fsm.earlySegmentsCounter) THEN fsm.earlySegmentsCounter
                                     ELSE fsm.earlySegmentsCounter - 1
      /\ fsm'.segGapCounter = SegmentGap
      /\ fsm'.dpramWriteEnable = FALSE
      /\ fsm'.triggerDpramAddr = fsm.triggerDpramAddr
      /\ segMode' = segMode /\ acqConfig' = acqConfig
      /\ channelWriteEnable' = fsm.dpramWriteEnable
  BY <1>1, AcquiredMoves, TickMemory
<1>3. PICK l \in Nat \ {0}, t \in Nat \ {0} : l = Segment[segMode] /\ t = Segments(segMode)
  BY <1>1, Geometry
<1>4. /\ fsm.acqCounter = l - 2 - w /\ fsm.acqCounter < 0 /\ w \in 0 .. l - 1
      /\ k \in 0 .. t - 1
      /\ fsm.segmentCounter = t - 2 - k /\ fsm.earlySegmentsCounter = EarlyCounter(k)
      /\ fsm.dpramWriteEnable
  BY <1>3 DEF AcquireAt, CountersAt, Done
<1>5. w = l - 1
  BY <1>4
<1>6. PICK n \in Nat, b \in Nat : n = k * l /\ b = Begins(segMode, k)
  <2>1. k * Segment[segMode] \in Nat
    BY <1>1, WordIs
  <2>2. k \in Nat
    BY <1>1, Geometry
  <2>3. Begins(segMode, k) \in Nat
    BY <1>1, <2>2, BeginsNext
  <2> QED BY <1>3, <2>1, <2>3
<1>7. /\ dpramWriteAddress' = Place(First', n + w + 1)
      /\ Taken(b + w, n + w + 1)'
  BY <1>2, <1>3, <1>6, AcquireWord
<1>8. n + w + 1 = (k + 1) * l
  <2>1. (k + 1) * l = n + l
    BY <1>1, <1>3, <1>6, WordIs
  <2> QED BY <1>5, <2>1
<1>9. ASSUME k < t - 1
      PROVE  /\ fsm'.acqState = "PAUSE" /\ PauseAt(k + 1)'
             /\ fsm'.segGapCounter = Interval(segMode, k) - l - 2
             /\ k + 1 \in 1 .. t - 1
  <2>1. fsm'.acqState = "PAUSE" /\ k + 1 \in 1 .. t - 1
    BY <1>2, <1>4, <1>9 DEF Done
  <2>2. CountersAt(k + 1)'
    <3>1. fsm'.segmentCounter = t - 2 - (k + 1)
      BY <1>2, <1>4
    <3>2. fsm'.earlySegmentsCounter = EarlyCounter(k + 1)
      BY <1>2, <1>4, Numbers DEF EarlyCounter, Done
    <3> QED BY <1>2, <1>3, <3>1, <3>2 DEF CountersAt
  <2>3. SegmentGap = Interval(segMode, k) - l - 2
    <3>1. Done(fsm.earlySegmentsCounter) <=> ~(k < EARLY_SEGMENTS_COUNT - 1)
      BY <1>4, Numbers DEF EarlyCounter, Done
    <3>2. segMode # "contiguous" /\ Configured
      <4>1. t # 1
        BY <1>4, <1>9
      <4> QED BY <1>1, <1>3, <4>1, Geometry DEF ControlInv, SettingsHold, InUse
    <3> QED BY <1>3, <3>1, <3>2 DEF SegmentGap, Interval, Configured
  <2>4. PICK i \in Nat : i = Interval(segMode, k) /\ Begins(segMode, k + 1) = b + i
    BY <1>1, <1>4, <1>6, BeginsNext
  <2>5. Begins(segMode, k + 1) - fsm'.segGapCounter - 3 = b + w
    BY <1>2, <1>5, <2>3, <2>4
  <2> QED BY <1>2, <1>3, <1>7, <1>8, <2>1, <2>2, <2>3, <2>5 DEF PauseAt
<1>10. ASSUME k >= t - 1
       PROVE  fsm'.acqState = "DONE" /\ channelWriteEnable' /\ InDone'
  <2>1. k = t - 1 /\ fsm'.acqState = "DONE" /\ channelWriteEnable'
    BY <1>2, <1>4, <1>10 DEF Done
  <2>2. (k + 1) * l = Cap
    BY <1>1, <1>3, <2>1, Geometry
  <2>3. Completion' = b + l
    BY <1>2, <1>3, <1>6, <2>1 DEF Completion
  <2>4. Completion' - 1 = b + w
    BY <1>5, <2>3
  <2> QED BY <1>2, <1>7, <1>8, <2>1, <2>2, <2>4 DEF InDone
<1>11. CASE k < t - 1
  <2>1. InPause'
    BY <1>2, <1>3, <1>9, <1>11 DEF InPause
  <2> QED BY <1>3, <1>5, <1>9, <1>11, <2>1 DEF Phases, InStart, InFill, InArmed, InAcquire, InDone
<1>12. CASE k >= t - 1
  BY <1>3, <1>5, <1>10, <1>12 DEF Phases, InStart, InFill, InArmed, InAcquire, InPause
<1>13. k < t - 1 \/ k >= t - 1
  BY <1>4
<1> QED BY <1>11, <1>12, <1>13

(* Between segments.                                                       *)
LEMMA PauseWord ==
  ASSUME DocumentedUse, ControlInv, Tick, acqActive, fsm.acqState = "PAUSE",
         fsm'.triggerDpramAddr = fsm.triggerDpramAddr,
         NEW k \in 1 .. Segments(segMode) - 1, PauseAt(k)
  PROVE  \E g \in Int, b \in Nat, n \in Nat :
           /\ g = fsm.segGapCounter /\ g >= -1 /\ k \in Nat
           /\ b = Begins(segMode, k) /\ n = k * Segment[segMode]
           /\ segMode' = segMode /\ ~channelWriteEnable'
           /\ dpramWriteAddress' = Place(First', n) /\ Taken(b - g - 2, n)'
<1>1. segMode \in Modes /\ Typed
  BY DEF ControlInv, Typed, SettingsOK
<1>2. PICK g \in Int : g = fsm.segGapCounter /\ g >= -1
  <2>1. fsm.segGapCounter \in -1 .. Longest - 1
    BY <1>1 DEF Typed, MachineKind, GapKind
  <2> QED BY <2>1, Fields
<1>3. k \in 0 .. Segments(segMode) - 1 /\ k \in Nat /\ 0 \in 0 .. Segment[segMode] - 1
  BY <1>1, Geometry
<1>4. PICK n \in 0 .. Cap : n = k * Segment[segMode] /\ n \in Nat
  <2>1. k * Segment[segMode] + 0 \in 0 .. Cap - 1 /\ k * Segment[segMode] \in Nat
    BY <1>1, <1>3, WordIs
  <2> QED BY <2>1, Numbers
<1>5. PICK b \in Nat : b = Begins(segMode, k) /\ b + Segment[segMode] + 1 <= Old
  BY <1>1, <1>3, RoomForIntervals
<1>6. PICK clock \in Int : clock = b - g - 3 /\ clock < Old /\ clock + 1 = b - g - 2
  <2>1. b - g - 3 < Old
    BY <1>1, <1>2, <1>5, Geometry, Numbers
  <2> QED BY <1>2, <1>5, <2>1
<1>7. Taken(clock, n) /\ ~fsm.dpramWriteEnable /\ dpramWriteAddress = Place(First, n)
  BY <1>2, <1>4, <1>5, <1>6 DEF PauseAt
<1>8. dpramWriteAddress' = dpramWriteAddress /\ First' = First /\ ~channelWriteEnable'
      /\ Taken(clock + 1, n)'
  BY <1>1, <1>6, <1>7, OnlyOlder
<1>9. segMode' = segMode
  BY <1>1, TickMemory
<1>10. /\ dpramWriteAddress' = Place(First', n) /\ ~channelWriteEnable'
       /\ Taken(b - g - 2, n)'
  BY <1>6, <1>7, <1>8
<1> QED BY <1>2, <1>3, <1>4, <1>5, <1>9, <1>10

LEMMA PauseTick ==
  ASSUME DocumentedUse, ControlInv, Tick, acqActive, fsm.acqState = "PAUSE", ~Done(fsm.segGapCounter),
         NEW k \in 1 .. Segments(segMode) - 1, PauseAt(k)
  PROVE  /\ fsm'.segGapCounter = fsm.segGapCounter - 1 /\ PauseAt(k)' /\ Phases'
         /\ fsm'.acqState = "PAUSE"
<1>1. /\ fsm'.acqState = "PAUSE" /\ fsm'.segGapCounter = fsm.segGapCounter - 1
      /\ fsm'.dpramWriteEnable = fsm.dpramWriteEnable
      /\ fsm'.triggerDpramAddr = fsm.triggerDpramAddr
      /\ fsm'.segmentCounter = fsm.segmentCounter
      /\ fsm'.earlySegmentsCounter = fsm.earlySegmentsCounter
  BY PauseMoves, TickMemory DEF ControlInv
<1>2. PICK g \in Int, b \in Nat, n \in Nat :
        /\ g = fsm.segGapCounter /\ b = Begins(segMode, k) /\ n = k * Segment[segMode]
        /\ segMode' = segMode
        /\ dpramWriteAddress' = Place(First', n) /\ Taken(b - g - 2, n)'
  BY <1>1, PauseWord
<1>3. b - g - 2 = b - (g - 1) - 3
  OBVIOUS
<1>4. fsm'.segGapCounter = g - 1
  BY <1>1, <1>2
<1>5. CountersAt(k)' /\ ~fsm'.dpramWriteEnable
  BY <1>1, <1>2 DEF PauseAt, CountersAt
<1>6. Taken(Begins(segMode, k) - fsm.segGapCounter - 3, k * Segment[segMode])'
  BY <1>2, <1>3, <1>4
<1>7. PauseAt(k)'
  BY <1>2, <1>3, <1>5, <1>6 DEF PauseAt
<1>8. InPause'
  BY <1>2, <1>7 DEF InPause
<1> QED BY <1>1, <1>7, <1>8 DEF Phases, InStart, InFill, InArmed, InAcquire, InDone

LEMMA ResumeTick ==
  ASSUME DocumentedUse, ControlInv, Tick, acqActive, fsm.acqState = "PAUSE", Done(fsm.segGapCounter),
         NEW k \in 1 .. Segments(segMode) - 1, PauseAt(k)
  PROVE  /\ fsm.segGapCounter = -1 /\ k \in 0 .. Segments(segMode) - 1 /\ AcquireAt(k, 0)' /\ Phases'
         /\ fsm'.acqState = "ACQUIRE"
<1>1. /\ fsm'.acqState = "ACQUIRE" /\ fsm'.acqCounter = SegmentLoad /\ fsm'.dpramWriteEnable = TRUE
      /\ fsm'.triggerDpramAddr = fsm.triggerDpramAddr
      /\ fsm'.segmentCounter = fsm.segmentCounter
      /\ fsm'.earlySegmentsCounter = fsm.earlySegmentsCounter
  BY ResumeMoves, TickMemory DEF ControlInv
<1>2. PICK g \in Int, b \in Nat, n \in Nat :
        /\ g = fsm.segGapCounter /\ g >= -1 /\ k \in Nat
        /\ b = Begins(segMode, k) /\ n = k * Segment[segMode]
        /\ segMode' = segMode
        /\ dpramWriteAddress' = Place(First', n) /\ Taken(b - g - 2, n)'
  BY <1>1, PauseWord
<1>3. segMode' = segMode /\ k \in Nat
  BY <1>2
<1>4. g = -1 /\ b - g - 2 = b + 0 - 1 /\ n = n + 0
  BY <1>2 DEF Done
<1>5. segMode \in Modes /\ Segment[segMode] \in Nat \ {0} /\ Segments(segMode) \in Nat \ {0}
  BY Geometry DEF ControlInv, Typed, SettingsOK
<1>6. k \in 0 .. Segments(segMode) - 1 /\ 0 \in 0 .. Segment[segMode] - 1
  BY <1>5
<1>7. fsm'.acqCounter = Segment[segMode] - 2 - 0
  <2>1. segMode # "contiguous"
    BY <1>3, <1>5, Geometry
  <2>2. segMode \in {"long", "short"}
    BY <1>5, <2>1 DEF Modes
  <2> QED BY <1>1, <1>5, <2>2 DEF SegmentLoad
<1>8. CountersAt(k)'
  BY <1>1, <1>3 DEF PauseAt, CountersAt
<1>9. Taken(b + 0 - 1, n + 0)' /\ dpramWriteAddress' = Place(First', n + 0)
  BY <1>2, <1>4
<1>10. AcquireAt(k, 0)'
  BY <1>1, <1>2, <1>3, <1>7, <1>8, <1>9 DEF AcquireAt
<1>11. InAcquire'
  BY <1>3, <1>6, <1>10 DEF InAcquire
<1> QED BY <1>1, <1>2, <1>4, <1>6, <1>10, <1>11 DEF Phases, InStart, InFill, InArmed, InPause, InDone

LEMMA CompleteIs ==
  ASSUME DocumentedUse, segMode \in Modes
  PROVE  Completion \in Nat /\ Completion < Old
<1>1. Segments(segMode) - 1 \in 0 .. Segments(segMode) - 1 /\ Segment[segMode] \in Nat
  BY Geometry
<1>2. PICK b \in Nat, l \in Nat : b = Begins(segMode, Segments(segMode) - 1) /\ l = Segment[segMode]
  BY <1>1, RoomForIntervals
<1>3. b + l + 1 <= Old /\ Old \in Nat
  BY <1>1, <1>2, RoomForIntervals
<1> QED BY <1>2, <1>3 DEF Completion

LEMMA FinishTick ==
  ASSUME DocumentedUse, ControlInv, Phases, Tick, acqActive, fsm.acqState = "DONE"
  PROVE  Phases' /\ ~channelWriteEnable'
<1>1. /\ fsm'.acqState = "DONE" /\ fsm'.dpramWriteEnable = fsm.dpramWriteEnable
      /\ fsm'.triggerDpramAddr = fsm.triggerDpramAddr /\ segMode' = segMode
      /\ acqConfig' = acqConfig
  BY FinishMoves, TickMemory DEF ControlInv
<1>2. segMode \in Modes /\ Typed /\ channelWriteEnable \in BOOLEAN
  BY DEF ControlInv, Typed, SettingsOK, MemoryOK
<1>3. PICK z \in Nat : z = Completion /\ z < Old /\ z = Completion'
  BY <1>1, <1>2, CompleteIs DEF Completion
<1>4. ~fsm.dpramWriteEnable /\ Taken(IF channelWriteEnable THEN z - 1 ELSE z, Cap)
  BY <1>3 DEF Phases, InDone
<1>5. ~channelWriteEnable'
  BY <1>2, <1>4, TickMemory
<1>6. Taken(z, Cap)'
  <2>1. CASE channelWriteEnable
    <3>1. PICK clock \in Int : clock = z - 1 /\ clock < Old /\ clock + 1 = z
      <4>1. PICK o \in Nat : o = Old
        BY Numbers
      <4>2. z \in Nat /\ z < o
        BY <1>3, <4>1
      <4>3. z - 1 \in Int /\ z - 1 < o /\ (z - 1) + 1 = z
        BY <4>2
      <4> QED BY <4>1, <4>3
    <3>2. PICK n \in 0 .. Cap : n = Cap
      BY Numbers
    <3>3. Taken(clock, n)
      BY <1>4, <2>1, <3>1, <3>2
    <3>4. Taken(clock + 1, n)'
      BY <1>1, <1>2, <1>4, <2>1, <3>1, <3>3, OnlyOlder
    <3> QED BY <3>1, <3>2, <3>4
  <2>2. CASE ~channelWriteEnable
    <3>1. age' = age /\ First' = First
      BY <1>1, <1>2, <1>4, <2>2, TickMemory DEF First
    <3>2. Taken(z, Cap)
      BY <1>4, <2>2
    <3> QED BY <1>1, <1>5, <2>2, <3>1, <3>2 DEF Taken, HeldOrWritten
  <2> QED BY <1>2, <2>1, <2>2
<1>7. InDone'
  BY <1>1, <1>3, <1>4, <1>5, <1>6 DEF InDone
<1> QED BY <1>1, <1>5, <1>7 DEF Phases, InStart, InFill, InArmed, InAcquire, InPause

LEMMA TickRecorder ==
  ASSUME DocumentedUse, RecorderInv, Tick
  PROVE  Phases' /\ WhenFinished' /\ WhenFull'
<1>1. ControlInv /\ Phases /\ WhenFinished /\ WhenFull /\ Typed /\ fsm.acqState \in States
  BY DEF RecorderInv, ControlInv, Typed, MachineKind
<1>2. Phases'
  <2>1. CASE ~acqActive
    BY <1>1, <2>1, InactiveTick
  <2>2. CASE acqActive /\ fsm.acqState = "START"
    BY <1>1, <2>2, StartTick
  <2>3. CASE acqActive /\ fsm.acqState = "FILL"
    BY <1>1, <2>3, FillTick
  <2>4. CASE acqActive /\ fsm.acqState = "ARMED"
    BY <1>1, <2>4, WaitTick, TriggerTick
  <2>5. CASE acqActive /\ fsm.acqState = "ACQUIRE"
    <3>1. PICK k \in 0 .. Segments(segMode) - 1, w \in 0 .. Segment[segMode] - 1 : AcquireAt(k, w)
      BY <1>1, <2>5 DEF Phases, InAcquire
    <3> QED BY <1>1, <2>5, <3>1, AcquireTick, AcquiredTick
  <2>6. CASE acqActive /\ fsm.acqState = "PAUSE"
    <3>1. PICK k \in 1 .. Segments(segMode) - 1 : PauseAt(k)
      BY <1>1, <2>6 DEF Phases, InPause
    <3> QED BY <1>1, <2>6, <3>1, PauseTick, ResumeTick
  <2>7. CASE acqActive /\ fsm.acqState = "DONE"
    BY <1>1, <2>7, FinishTick
  <2> QED BY <1>1, <2>1, <2>2, <2>3, <2>4, <2>5, <2>6, <2>7 DEF States
<1>3. WhenFinished'
  <2> SUFFICES ASSUME fsm'.acqFinish PROVE ~channelWriteEnable'
    BY DEF WhenFinished
  <2>1. acqActive /\ fsm.acqState = "DONE"
    BY <1>1, InactiveMoves, StartMoves, FillMoves, FilledMoves, WaitMoves, TriggerMoves,
       AcquireMoves, AcquiredMoves, PauseMoves, ResumeMoves
       DEF Tick, States, ControlInv, ActiveInStep
  <2> QED BY <1>1, <2>1, FinishTick
<1>4. WhenFull'
  <2> SUFFICES ASSUME sysFull' PROVE WhenFull'
    BY DEF WhenFull
  <2>1. /\ sysFull /\ segMode' = segMode /\ acqConfig' = acqConfig
        /\ ~fsm.dpramWriteEnable /\ ~channelWriteEnable
        /\ Held(age, First, segMode, Completion, Cap)
        /\ fsm.acqState = "DONE" \/ (fsm.acqState = "START" /\ ~acqActive)
    BY <1>1, TickMemory DEF WhenFull, ControlInv, ActiveInStep
  <2>2. age' = age /\ channelWriteEnable' = fsm.dpramWriteEnable
    BY <1>1, <2>1, TickMemory
  <2>3. fsm'.dpramWriteEnable = fsm.dpramWriteEnable /\ fsm'.triggerDpramAddr = fsm.triggerDpramAddr
    BY <1>1, <2>1, InactiveMoves, FinishMoves DEF Tick
  <2>4. First' = First /\ Completion' = Completion
    BY <2>1, <2>3 DEF First, Completion
  <2> QED BY <2>1, <2>2, <2>3, <2>4 DEF WhenFull
<1> QED BY <1>2, <1>3, <1>4

LEMMA InitRecorder == Init => RecorderInv
<1> SUFFICES ASSUME Init PROVE RecorderInv
  OBVIOUS
<1>1. fsm.acqState = "START" /\ fsm.acqFinish = FALSE
  BY DEF Init
<1>2. ~acqActive /\ ~sysFull
  BY DEF Init
<1> QED BY <1>1, <1>2, InitControl
        DEF RecorderInv, Phases, InStart, InFill, InArmed, InAcquire, InPause, InDone, WhenFinished, WhenFull

(* Nothing but a clock and the client that arms it changes what the        *)
(* recorder holds, and the end of an acquisition makes it full.            *)
LEMMA StepRecorder ==
  ASSUME DocumentedUse, RecorderInv, [Next]_vars
  PROVE  RecorderInv'
<1>1. ControlInv /\ Phases /\ WhenFinished /\ WhenFull /\ ControlInv'
  BY StepControl DEF RecorderInv
<1>2. {acqActive, sysAcqActive, sysFull} \subseteq BOOLEAN
  BY <1>1 DEF ControlInv, Typed, BitsOK
<1> SUFFICES Phases' /\ WhenFinished' /\ WhenFull'
  BY <1>1 DEF RecorderInv
<1>3. CASE Tick
  BY <1>3, TickRecorder
<1>4. ASSUME fsm.acqState = "START", ~fsm.acqFinish, ~acqActive, fsm' = fsm, acqActive' = acqActive,
             ~sysFull'
      PROVE  Phases' /\ WhenFinished' /\ WhenFull'
  BY <1>4 DEF Phases, InStart, InFill, InArmed, InAcquire, InPause, InDone, WhenFinished, WhenFull
<1>5. ASSUME UNCHANGED <<adc, acqConfig, segMode>>, sysFull' => sysFull \/ fsm.acqFinish
      PROVE  Phases' /\ WhenFinished' /\ WhenFull'
  <2>1. UNCHANGED <<fsm, acqActive, age, dpramWriteAddress, channelWriteEnable, channelWriteAddress,
                    acqConfig, segMode>>
    BY <1>5 DEF adc, memory
  <2>2. First' = First /\ Completion' = Completion
    BY <2>1 DEF First, Completion
  <2>3. Phases' <=> Phases
    BY <2>1, <2>2 DEF Phases, InStart, InFill, InArmed, InAcquire, InPause, InDone,
       CountersAt, Writing, AcquireAt, PauseAt, Taken
  <2>4. WhenFinished' <=> WhenFinished
    BY <2>1 DEF WhenFinished
  <2>5. WhenFull'
    <3>1. CASE sysFull
      BY <1>1, <2>1, <2>2, <3>1 DEF WhenFull
    <3>2. CASE fsm.acqFinish
      <4>1. fsm.acqState = "DONE" /\ ~channelWriteEnable
        BY <1>1, <3>2 DEF ControlInv, ActiveInStep, WhenFinished
      <4>2. ~fsm.dpramWriteEnable /\ Held(age, First, segMode, Completion, Cap)
        BY <1>1, <4>1 DEF Phases, InDone, Taken, HeldOrWritten
      <4> QED BY <2>1, <2>2, <4>1, <4>2 DEF WhenFull
    <3> QED BY <1>5, <3>1, <3>2 DEF WhenFull
  <2> QED BY <1>1, <2>3, <2>4, <2>5
<1>6. CASE (\E n \in PretriggerCounts : acquisitionSetPretriggerCount(n))
           \/ (\E m \in ClientModes : acquisitionSetSegmentedMode(m))
  <2>1. Settled /\ ~sysFull /\ ~sysAcqActive /\ UNCHANGED <<sys, adc>>
    BY <1>2, <1>6 DEF acquisitionSetPretriggerCount, acquisitionSetSegmentedMode, MayConfigure, DocumentedUse
  <2> QED BY <1>2, <1>4, <2>1 DEF Settled, sys, adc
<1>7. CASE SysSeesFinish \/ SysSeesFinishGone \/ Disarm \/ Fetch \/ UNCHANGED vars
  BY <1>5, <1>7 DEF SysSeesFinish, SysSeesFinishGone, Disarm, Fetch, WriteCSR, vars, settings, sys
<1>8. CASE Arm
  BY <1>2, <1>4, <1>8 DEF Arm, WriteCSR, Settled
<1> QED BY <1>3, <1>6, <1>7, <1>8 DEF Next

----------------------------------------------------------------------------
(* Where the processor looks: the word of a sample is that of its time.    *)
LEMMA QuotientIs ==
  ASSUME NEW s \in Nat \ {0}, NEW a \in Int, NEW r \in 0 .. s - 1, NEW y \in Int, y = s * a + r
  PROVE  y \div s = a
<1>1. y = s * (y \div s) + (y % s) /\ y % s \in 0 .. s - 1 /\ y \div s \in Int
  BY Quotient
<1>2. PICK q \in Int, u \in 0 .. s - 1 : q = y \div s /\ u = y % s
  BY <1>1
<1>3. u - r = s * (a - q)
  <2>1. s * (a - q) = s * a - s * q /\ s * a \in Int /\ s * q \in Int
    OBVIOUS
  <2> QED BY <1>1, <1>2, <2>1
<1>4. a - q = 0
  BY <1>2, <1>3, Closer
<1> QED BY <1>2, <1>4

LEMMA WrappedIs ==
  ASSUME NEW y \in Int
  PROVE  \E d \in Int : y % CapSamples = y - SamplesPerClock * (Cap * d)
<1>1. PICK s \in Nat \ {0}, c \in Nat \ {0}, n \in Nat \ {0} :
        s = SamplesPerClock /\ c = Cap /\ n = CapSamples /\ n = c * s
  <2>1. SamplesPerClock \in Nat \ {0} /\ Cap \in Nat \ {0} /\ CapSamples = Cap * SamplesPerClock
    BY Numbers
  <2>2. CapSamples \in Nat \ {0}
    BY Numbers
  <2> QED BY <2>1, <2>2
<1>2. y = n * (y \div n) + (y % n) /\ y \div n \in Int /\ y % n \in Int
  BY Quotient
<1>3. PICK d \in Int, r \in Int : d = y \div n /\ r = y % n
  BY <1>2
<1>4. y = (c * s) * d + r
  BY <1>1, <1>2, <1>3
<1>5. (c * s) * d = s * (c * d) /\ s * (c * d) \in Int
  OBVIOUS
<1>6. r = y - s * (c * d)
  BY <1>4, <1>5
<1> QED BY <1>1, <1>3, <1>6

LEMMA WordIsThere ==
  ASSUME Typed, NEW k \in 0 .. Segments(segMode) - 1, NEW i \in Nat, NEW q \in Int,
         q = (triggerLocation + i - pretriggerCount) \div SamplesPerClock
  PROVE  WordAt(dataLocation(k, i))
           = Place(First, k * Segment[segMode] + (acqConfig.pre + q))
<1>1. /\ segMode \in Modes /\ fsm.triggerDpramAddr \in Addresses /\ acqConfig.pre \in 0 .. Cap - 1
      /\ triggerLocation \in 0 .. SamplesPerClock - 1 /\ pretriggerCount \in 1 .. CapSamples - SamplesPerClock
  BY DEF Typed, SettingsOK, BitsOK, MachineKind, ConfigKind
<1>2. PICK s \in Nat \ {0}, c \in Nat \ {0, 1} : s = SamplesPerClock /\ c = Cap /\ CapSamples = c * s
  BY Numbers
<1>3. PICK a \in Int, g \in Int, t \in Int, p \in Int :
        a = fsm.triggerDpramAddr /\ g = acqConfig.pre /\ t = triggerLocation /\ p = pretriggerCount
  BY <1>1, PlaceHere, Numbers
<1>4. PICK n \in Nat : n = k * Segment[segMode]
  <2>1. 0 \in 0 .. Segment[segMode] - 1
    BY <1>1, Geometry
  <2> QED BY <1>1, <2>1, WordIs
<1>5. PICK x \in Int, r \in 0 .. s - 1 : x = t + i - p /\ x = s * q + r
  <2>1. PICK x \in Int : x = t + i - p
    BY <1>3
  <2>2. x = s * (x \div s) + (x % s) /\ x % s \in 0 .. s - 1
    BY Quotient
  <2>3. q = x \div s
    BY <1>2, <1>3, <2>1
  <2> QED BY <2>1, <2>2, <2>3
<1>6. PICK d \in Int : base = a * s + t - p + c * s - s * (c * d)
  <2>1. a * s \in Int /\ c * s \in Int
    OBVIOUS
  <2>2. PICK y \in Int : y = a * s + t - p + c * s
    BY <1>3, <2>1
  <2>3. base = y % CapSamples
    BY <1>2, <1>3, <2>2 DEF base
  <2>4. PICK d \in Int : y % CapSamples = y - SamplesPerClock * (Cap * d)
    BY WrappedIs
  <2>5. base = y - s * (c * d)
    BY <1>2, <2>3, <2>4
  <2>6. base = a * s + t - p + c * s - s * (c * d)
    BY <2>2, <2>5
  <2> QED BY <2>6
<1>7. PICK e \in Int : dataLocation(k, i) = base + n * s + i - s * (c * e)
  <2>1. a * s \in Int /\ c * s \in Int /\ s * (c * d) \in Int /\ n * s \in Int
    OBVIOUS
  <2>2. PICK b \in Int, y \in Int : b = base /\ y = b + n * s + i
    BY <1>6, <2>1
  <2>3. dataLocation(k, i) = y % CapSamples
    BY <1>2, <1>4, <2>2 DEF dataLocation
  <2>4. PICK e \in Int : y % CapSamples = y - SamplesPerClock * (Cap * e)
    BY WrappedIs
  <2>5. dataLocation(k, i) = y - s * (c * e)
    BY <1>2, <2>3, <2>4
  <2>6. dataLocation(k, i) = base + n * s + i - s * (c * e)
    BY <2>2, <2>5
  <2> QED BY <2>6
<1>8. PICK j \in Int : j = c * (1 - d - e) /\ dataLocation(k, i) = s * (a + q + n + j) + r
  <2>1. a * s \in Int /\ c * s \in Int /\ s * (c * d) \in Int /\ n * s \in Int /\ s * q \in Int
        /\ s * (c * e) \in Int
    OBVIOUS
  <2>2. dataLocation(k, i) = a * s + c * s - s * (c * d) + n * s - s * (c * e) + s * q + r
    BY <1>3, <1>5, <1>6, <1>7, <2>1
  <2>3. s * (a + q + n + c * (1 - d - e))
          = a * s + c * s - s * (c * d) + n * s - s * (c * e) + s * q
    OBVIOUS
  <2>4. PICK j \in Int : j = c * (1 - d - e)
    OBVIOUS
  <2> QED BY <2>1, <2>2, <2>3, <2>4
<1>9. dataLocation(k, i) \div s = a + q + n + j
  <2>1. PICK h \in Int : h = a + q + n + j
    OBVIOUS
  <2>2. PICK y \in Int : y = s * h + r
    OBVIOUS
  <2>3. y \div s = h
    BY <2>2, QuotientIs
  <2>4. dataLocation(k, i) = y
    BY <1>8, <2>1, <2>2
  <2> QED BY <2>1, <2>3, <2>4
<1>10. PICK u \in Int, v \in Int, z \in Int :
         u = a + q + n + j - 4 /\ v = a - 4 + q + n /\ z = 1 - d - e /\ u - v = Cap * z
  BY <1>2, <1>3, <1>8
<1>11. u % Cap = v % Cap
  BY <1>10, SameRemainder
<1>12. WordAt(dataLocation(k, i)) = u % Cap
  BY <1>2, <1>9, <1>10 DEF WordAt, TRIGGER_DETECTION_LATENCY
<1>13. First + (n + (g + q)) = v
  BY <1>3, <1>10 DEF First, TRIGGER_DETECTION_LATENCY
<1> QED BY <1>3, <1>4, <1>11, <1>12, <1>13 DEF Place

(* Sample i of a segment is in one of its words, whatever the sample that  *)
(* the trigger came with: what is discarded is as much as that can move    *)
(* the others.                                                             *)
LEMMA SampleInSegment ==
  ASSUME DocumentedUse, Typed, Configured, NEW i \in 0 .. samplesPerSegment - 1, NEW q \in Int,
         q = (triggerLocation + i - pretriggerCount) \div SamplesPerClock
  PROVE  acqConfig.pre + q \in 0 .. Segment[segMode] - 1
<1>1. /\ segMode \in Modes /\ triggerLocation \in 0 .. SamplesPerClock - 1
      /\ pretriggerCount \in 1 .. CapSamples - SamplesPerClock
  BY DEF Typed, SettingsOK, BitsOK
<1>2. PICK s \in Nat \ {0}, l \in Nat \ {0}, f \in Nat :
        s = SamplesPerClock /\ l = Segment[segMode] /\ f = Discard /\ f >= 2 * s - 2
  BY <1>1, Geometry, Numbers DEF DocumentedUse
<1>3. PICK g \in Int, t \in Int, p \in Int :
        /\ g = acqConfig.pre /\ t = triggerLocation /\ p = pretriggerCount
        /\ t >= 0 /\ t <= s - 1 /\ (g - 1) * s + 1 <= p /\ p <= g * s
  <2>1. acqConfig.pre \in Int /\ triggerLocation \in Int /\ pretriggerCount \in Int
    BY <1>1, Numbers, ConfiguredSizes, Geometry
  <2> QED BY <1>1, <1>2, <2>1, ConfiguredSizes
<1>4. i \in Int /\ i >= 0 /\ i <= l * s - f - 1
  <2>1. samplesPerSegment = l * s - f
    BY <1>2 DEF samplesPerSegment
  <2>2. l * s \in Int
    OBVIOUS
  <2> QED BY <2>1, <2>2
<1>5. PICK x \in Int, r \in 0 .. s - 1 : x = t + i - p /\ x = s * q + r
  <2>1. PICK x \in Int : x = t + i - p
    BY <1>3, <1>4
  <2>2. x = s * (x \div s) + (x % s) /\ x % s \in 0 .. s - 1
    BY Quotient
  <2>3. q = x \div s
    BY <1>2, <1>3, <2>1
  <2> QED BY <2>1, <2>2, <2>3
<1>6. (g - 1) * s = g * s - s /\ g * s \in Int /\ (g + q) * s = g * s + s * q /\ s * q \in Int
      /\ l * s \in Int
  OBVIOUS
<1>7. (g + q) * s <= l * s - 1 /\ (g + q) * s >= 1 - s
  BY <1>2, <1>3, <1>4, <1>5, <1>6
<1>8. g + q >= 0
  <2> SUFFICES ASSUME g + q <= -1 PROVE FALSE
    BY <1>3
  <2>1. (g + q) * s <= (-1) * s
    BY <1>3, Growing
  <2> QED BY <1>3, <1>7, <2>1
<1>9. g + q <= l - 1
  <2> SUFFICES ASSUME g + q >= l PROVE FALSE
    BY <1>3
  <2>1. l * s <= (g + q) * s
    BY <1>3, Growing
  <2> QED BY <1>3, <1>6, <1>7, <2>1
<1> QED BY <1>2, <1>3, <1>8, <1>9

LEMMA AgeThere ==
  ASSUME DocumentedUse, RecorderInv, sysFull, NEW k \in 0 .. Segments(segMode) - 1, NEW i \in Nat,
         NEW q \in Int, q = (triggerLocation + i - pretriggerCount) \div SamplesPerClock,
         acqConfig.pre + q \in 0 .. Segment[segMode] - 1
  PROVE  /\ age[WordAt(dataLocation(k, i))] + q + Begins(segMode, k) = Completion - acqConfig.pre
         /\ age[WordAt(dataLocation(k, i))] \in Int /\ age[WordAt(dataLocation(k, i))] < Old
<1>1. segMode \in Modes /\ Typed /\ acqConfig.pre \in 0 .. Cap - 1
  BY DEF RecorderInv, ControlInv, Typed, SettingsOK, ConfigKind
<1>2. PICK g \in Int, w \in 0 .. Segment[segMode] - 1 : g = acqConfig.pre /\ w = g + q
  <2>1. acqConfig.pre \in Int
    BY <1>1, Numbers
  <2> QED BY <2>1
<1>3. PICK n \in 0 .. Cap - 1 : n = k * Segment[segMode] + w
  BY <1>1, WordIs
<1>4. WordAt(dataLocation(k, i)) = Place(First, n)
  BY <1>1, <1>2, <1>3, WordIsThere
<1>5. age[Place(First, n)] = Completion - Begins(segMode, k) - w
  <2>1. n < Cap
    BY <1>3, Numbers
  <2> QED BY <1>3, <2>1 DEF RecorderInv, WhenFull, Held
<1>6. PICK z \in Nat, b \in Nat, o \in Nat :
        z = Completion /\ b = Begins(segMode, k) /\ o = Old /\ z < o
  <2>1. Completion \in Nat /\ Completion < Old /\ Old \in Nat
    BY <1>1, CompleteIs, Numbers
  <2>2. Begins(segMode, k) \in Nat
    BY <1>1, RoomForIntervals
  <2> QED BY <2>1, <2>2
<1>7. w \in Int /\ w >= 0
  BY <1>1, Geometry
<1> QED BY <1>2, <1>4, <1>5, <1>6, <1>7

LEMMA DueIs ==
  ASSUME NEW k, NEW i, NEW q,
         q = (triggerLocation + i - pretriggerCount) \div SamplesPerClock
  PROVE  DueAt(k, i) = q + Begins(segMode, k)
BY DEF DueAt, SegmentStart, Begins

LEMMA FullIsWhole ==
  ASSUME DocumentedUse, RecorderInv
  PROVE  WholeWaveform
<1> SUFFICES ASSUME sysFull, NEW k \in 0 .. Segments(segMode) - 1, NEW i \in 0 .. samplesPerSegment - 1
             PROVE  /\ age[WordAt(dataLocation(k, i))] < Old
                    /\ age[WordAt(dataLocation(k, i))] + DueAt(k, i)
                         = age[WordAt(dataLocation(0, 0))] + DueAt(0, 0)
  BY DEF WholeWaveform
<1>1. Typed /\ Configured /\ segMode \in Modes
  BY DEF RecorderInv, ControlInv, SettingsHold, InUse, Typed, SettingsOK
<1>2. triggerLocation \in Int /\ pretriggerCount \in Int /\ SamplesPerClock \in Nat \ {0}
  BY <1>1, Numbers DEF Typed, SettingsOK, BitsOK
<1>3. 0 \in 0 .. Segments(segMode) - 1 /\ 0 \in 0 .. samplesPerSegment - 1 /\ i \in Nat
  <2>1. samplesPerSegment \in Int
    <3>1. PICK l \in Nat, s \in Nat, f \in Nat :
            l = Segment[segMode] /\ s = SamplesPerClock /\ f = Discard
      BY <1>1, Geometry, Numbers
    <3>2. l * s - f \in Int
      OBVIOUS
    <3> QED BY <3>1, <3>2 DEF samplesPerSegment
  <2> QED BY <1>1, <2>1, Geometry
<1>4. \A j \in Nat : (triggerLocation + j - pretriggerCount) \div SamplesPerClock \in Int
  <2> SUFFICES ASSUME NEW j \in Nat
               PROVE  (triggerLocation + j - pretriggerCount) \div SamplesPerClock \in Int
    OBVIOUS
  <2>1. PICK x \in Int : x = triggerLocation + j - pretriggerCount
    BY <1>2
  <2> QED BY <1>2, <2>1, Quotient
<1>5. PICK q \in Int : q = (triggerLocation + i - pretriggerCount) \div SamplesPerClock
  BY <1>3, <1>4
<1>6. PICK u \in Int : u = (triggerLocation + 0 - pretriggerCount) \div SamplesPerClock
  BY <1>4
<1>7. /\ age[WordAt(dataLocation(k, i))] + q + Begins(segMode, k) = Completion - acqConfig.pre
      /\ age[WordAt(dataLocation(k, i))] \in Int /\ age[WordAt(dataLocation(k, i))] < Old
  <2>1. acqConfig.pre + q \in 0 .. Segment[segMode] - 1
    BY <1>1, <1>5, SampleInSegment
  <2> QED BY <1>3, <1>5, <2>1, AgeThere
<1>8. /\ age[WordAt(dataLocation(0, 0))] + u + Begins(segMode, 0) = Completion - acqConfig.pre
      /\ age[WordAt(dataLocation(0, 0))] \in Int
  <2>1. acqConfig.pre + u \in 0 .. Segment[segMode] - 1
    BY <1>1, <1>3, <1>6, SampleInSegment
  <2> QED BY <1>3, <1>6, <2>1, AgeThere
<1>9. DueAt(k, i) = q + Begins(segMode, k) /\ DueAt(0, 0) = u + Begins(segMode, 0)
  BY <1>5, <1>6, DueIs
<1>10. Begins(segMode, k) \in Int /\ Begins(segMode, 0) \in Int
  BY <1>1, <1>3, RoomForIntervals
<1> QED BY <1>7, <1>8, <1>9, <1>10

(* When the recorder is full, each sample is where the processor looks for *)
(* it and has the time that it should have.                                *)
THEOREM WaveformIsWhole == DocumentedUse => (Spec => []WholeWaveform)
<1> SUFFICES ASSUME DocumentedUse PROVE Spec => []WholeWaveform
  OBVIOUS
<1>1. Init => RecorderInv
  BY InitRecorder
<1>2. RecorderInv /\ [Next]_vars => RecorderInv'
  BY StepRecorder
<1>3. RecorderInv => WholeWaveform
  BY FullIsWhole
<1> QED BY <1>1, <1>2, <1>3, PTL DEF Spec

----------------------------------------------------------------------------
(* The trigger.  When clients do not disarm an active recorder, the        *)
(* trigger of an acquisition is one that was seen while it was armed.      *)
TriggerSeen ==
  /\ fsm.acqState # "DONE" /\ (acqActive_m \/ acqActive) => sysAcqActive
  /\ fsm.acqState \in {"FILL", "ARMED", "ACQUIRE", "PAUSE"} => sysAcqActive
  /\ fsm.watchForTrigger => fsm.acqState = "ARMED"
  /\ triggered => fsm.acqState \in {"ARMED", "ACQUIRE"}
  /\ triggered /\ fsm.acqState = "ARMED" => triggerAge = 3

(* From then on it is pre clocks behind the first word.                    *)
Behind(clock) == triggerAge = clock - acqConfig.pre
TriggerFollows ==
  /\ fsm.acqState = "ACQUIRE" =>
       \E k \in 0 .. Segments(segMode) - 1, w \in 0 .. Segment[segMode] - 1 :
         AcquireAt(k, w) /\ Behind(Begins(segMode, k) + w - 1)
  /\ fsm.acqState = "PAUSE" =>
       \E k \in 1 .. Segments(segMode) - 1 :
         PauseAt(k) /\ Behind(Begins(segMode, k) - fsm.segGapCounter - 3)
  /\ fsm.acqState = "DONE" \/ sysFull =>
       Behind(IF channelWriteEnable THEN Completion - 1 ELSE Completion)
TriggerInv == RecorderInv /\ TriggerSeen /\ TriggerFollows

LEMMA TickTrigger ==
  ASSUME Tick
  PROVE  \E fires \in BOOLEAN :
           /\ fires => fsm.watchForTrigger /\ ~triggered
           /\ triggered' = (fsm.watchForTrigger /\ (triggered \/ fires))
           /\ triggerAge' = IF fires THEN 3 ELSE IF Resting THEN triggerAge ELSE Older(triggerAge)
<1>1. PICK strobe \in BOOLEAN, idle \in BOOLEAN, crossing \in Locations \cup {NoCrossing} :
        /\ WatchForTrigger(strobe, crossing, idle)
        /\ FollowTrigger(Fires(strobe, crossing))
  BY DEF Tick
<1>2. PICK fires \in BOOLEAN : fires = Fires(strobe, crossing)
  BY DEF Fires
<1> QED BY <1>1, <1>2 DEF WatchForTrigger, FollowTrigger, Fires

LEMMA TickSeen ==
  ASSUME DocumentedUse, TriggerInv, Tick
  PROVE  TriggerSeen'
<1>1. /\ ControlInv /\ Typed /\ TriggerSeen /\ StateMachine /\ fsm.acqState \in States
      /\ {acqActive_m, acqActive, sysAcqActive, triggered, fsm.watchForTrigger} \subseteq BOOLEAN
  BY DEF TriggerInv, RecorderInv, ControlInv, Typed, MachineKind, BitsOK, Tick
<1>2. /\ acqActive_m' = sysAcqActive /\ acqActive' = acqActive_m /\ sysAcqActive' = sysAcqActive
  BY DEF Tick, sys
<1>3. /\ acqActive_m = sysAcqActive \/ acqActive_m = acqActive
      /\ fsm.acqState # "START" /\ sysAcqActive => acqActive_m /\ acqActive
  BY <1>1 DEF ControlInv, ActiveInStep
<1>4. PICK fires \in BOOLEAN :
        /\ fires => fsm.watchForTrigger /\ ~triggered
        /\ triggered' = (fsm.watchForTrigger /\ (triggered \/ fires))
        /\ triggerAge' = IF fires THEN 3 ELSE IF Resting THEN triggerAge ELSE Older(triggerAge)
  BY TickTrigger
<1>5. CASE ~acqActive
  <2>1. fsm'.acqState = "START" /\ fsm'.watchForTrigger = fsm.watchForTrigger
    BY <1>1, <1>5, InactiveMoves
  <2>2. fsm.acqState \in {"START", "DONE"}
    BY <1>1, <1>3, <1>5 DEF TriggerSeen, States
  <2>3. ~fsm.watchForTrigger /\ ~triggered'
    BY <1>1, <1>4, <2>2 DEF TriggerSeen
  <2>4. acqActive_m => sysAcqActive
    BY <1>1, <1>3, <1>5
  <2> QED BY <1>1, <1>2, <2>1, <2>3, <2>4 DEF TriggerSeen
<1>6. CASE acqActive /\ fsm.acqState = "DONE"
  <2>1. fsm'.acqState = "DONE" /\ fsm'.watchForTrigger = fsm.watchForTrigger
    BY <1>1, <1>6, FinishMoves
  <2>2. ~fsm.watchForTrigger /\ ~triggered'
    BY <1>1, <1>4, <1>6 DEF TriggerSeen
  <2> QED BY <1>1, <1>2, <2>1, <2>2 DEF TriggerSeen
<1>7. CASE acqActive /\ fsm.acqState = "ARMED"
  <2>1. sysAcqActive
    BY <1>1, <1>7 DEF TriggerSeen
  <2>2. CASE triggered
    <3>1. fsm'.acqState = "ACQUIRE" /\ fsm'.watchForTrigger = FALSE
      BY <1>1, <1>7, <2>2, TriggerMoves
    <3> QED BY <1>2, <2>1, <3>1 DEF TriggerSeen
  <2>3. CASE ~triggered
    <3>1. fsm'.acqState = "ARMED"
      BY <1>1, <1>7, <2>3, WaitMoves
    <3>2. triggered' => triggerAge' = 3
      BY <1>4, <2>3
    <3> QED BY <1>2, <2>1, <3>1, <3>2 DEF TriggerSeen
  <2> QED BY <1>1, <2>2, <2>3
<1>8. CASE acqActive /\ fsm.acqState \in {"START", "FILL", "ACQUIRE", "PAUSE"}
  <2>1. sysAcqActive /\ ~fsm.watchForTrigger /\ ~triggered'
    BY <1>1, <1>4, <1>8 DEF TriggerSeen
  <2>2. fsm'.watchForTrigger => fsm'.acqState = "ARMED"
    BY <1>1, <1>8, <2>1, StartMoves, FillMoves, FilledMoves, AcquireMoves, AcquiredMoves,
       PauseMoves, ResumeMoves
  <2> QED BY <1>2, <2>1, <2>2 DEF TriggerSeen
<1> QED BY <1>1, <1>5, <1>6, <1>7, <1>8 DEF States

(* The trigger gets older with the words.                                  *)
LEMMA TriggerOlder ==
  ASSUME Typed, TriggerSeen, Tick, fsm.acqState # "ARMED", ~Resting,
         NEW clock \in Int, clock < Old, Behind(clock)
  PROVE  Behind(clock + 1)'
<1>1. triggerAge' = Older(triggerAge)
  BY TickTrigger DEF TriggerSeen
<1>2. triggerAge \in 0 .. Old /\ acqConfig.pre \in 0 .. Cap - 1 /\ acqConfig' = acqConfig
  BY TickMemory DEF Typed, MemoryOK, ConfigKind
<1>3. PICK a \in Int, g \in Nat, o \in Nat :
        a = triggerAge /\ g = acqConfig.pre /\ o = Old /\ a \in 0 .. o
  BY <1>2, Numbers
<1>4. a = clock - g /\ a < o
  BY <1>3 DEF Behind
<1>5. Older(a) = a + 1
  BY <1>3, <1>4, OlderIs
<1>6. triggerAge' = (clock + 1) - acqConfig'.pre
  BY <1>1, <1>2, <1>3, <1>4, <1>5
<1> QED BY <1>6 DEF Behind

LEMMA TickFollows ==
  ASSUME DocumentedUse, TriggerInv, Tick
  PROVE  TriggerFollows'
<1>1. /\ RecorderInv /\ ControlInv /\ Phases /\ WhenFull /\ Typed /\ TriggerSeen /\ StateMachine
      /\ TriggerFollows /\ fsm.acqState \in States /\ segMode \in Modes
      /\ {acqActive, sysAcqActive, sysFull, channelWriteEnable} \subseteq BOOLEAN
  BY DEF TriggerInv, RecorderInv, ControlInv, Typed, MachineKind, BitsOK, MemoryOK, SettingsOK, Tick
<1>2. segMode' = segMode /\ acqConfig' = acqConfig /\ sysFull' = sysFull
  BY <1>1, TickMemory
<1>3. sysFull => /\ fsm.acqState = "DONE" \/ (fsm.acqState = "START" /\ ~acqActive)
                 /\ ~fsm.dpramWriteEnable /\ ~channelWriteEnable
  BY <1>1 DEF WhenFull, ControlInv, ActiveInStep
<1>4. fsm.acqState \in {"FILL", "ARMED", "ACQUIRE", "PAUSE"} => acqActive /\ ~sysFull
  BY <1>1, <1>3 DEF TriggerSeen, ControlInv, ActiveInStep
<1>5. Completion' = Completion
  BY <1>2 DEF Completion
<1>6. CASE ~acqActive
  <2>1. fsm'.acqState = "START"
    BY <1>1, <1>6, InactiveMoves
  <2> SUFFICES ASSUME sysFull'
               PROVE  Behind(IF channelWriteEnable THEN Completion - 1 ELSE Completion)'
    BY <2>1 DEF TriggerFollows
  <2>2. sysFull /\ Resting /\ fsm.acqState # "ARMED" /\ ~fsm.dpramWriteEnable /\ ~channelWriteEnable
    BY <1>2, <1>3 DEF Resting
  <2>3. triggerAge' = triggerAge /\ ~channelWriteEnable'
    BY <1>1, <2>2, TickTrigger, TickMemory DEF TriggerSeen
  <2> QED BY <1>1, <1>2, <1>5, <2>2, <2>3 DEF TriggerFollows, Behind
<1>7. CASE acqActive /\ fsm.acqState = "DONE"
  <2>1. fsm'.acqState = "DONE" /\ ~channelWriteEnable'
    BY <1>1, <1>7, FinishMoves, FinishTick
  <2>2. PICK z \in Nat, o \in Nat : z = Completion /\ o = Old /\ z < o
    BY <1>1, CompleteIs, Numbers
  <2>3. Behind(z)'
    <3>1. CASE channelWriteEnable
      <4>1. Behind(z - 1) /\ ~Resting
        BY <1>1, <1>7, <2>2, <3>1 DEF TriggerFollows, Resting
      <4>2. PICK clock \in Int : clock = z - 1 /\ clock < o /\ clock + 1 = z
        BY <2>2
      <4>3. Behind(clock + 1)'
        BY <1>1, <1>7, <2>2, <4>1, <4>2, TriggerOlder
      <4> QED BY <4>2, <4>3
    <3>2. CASE ~channelWriteEnable
      <4>1. Behind(z) /\ Resting
        BY <1>1, <1>7, <2>2, <3>2 DEF TriggerFollows, Resting, Phases, InDone
      <4>2. triggerAge' = triggerAge
        BY <1>1, <1>7, <4>1, TickTrigger DEF TriggerSeen
      <4> QED BY <1>2, <4>1, <4>2 DEF Behind
    <3> QED BY <1>1, <3>1, <3>2
  <2> QED BY <1>5, <2>1, <2>2, <2>3 DEF TriggerFollows
<1>8. CASE acqActive /\ fsm.acqState \in {"START", "FILL"}
  <2>1. fsm'.acqState \in {"FILL", "ARMED"} /\ ~sysFull'
    BY <1>1, <1>2, <1>3, <1>8, StartMoves, FillMoves, FilledMoves
  <2> QED BY <2>1 DEF TriggerFollows
<1>9. CASE fsm.acqState = "ARMED"
  <2>1. acqActive /\ ~sysFull'
    BY <1>2, <1>4, <1>9
  <2>2. CASE ~triggered
    <3>1. fsm'.acqState = "ARMED"
      BY <1>1, <1>9, <2>1, <2>2, WaitMoves
    <3> QED BY <2>1, <3>1 DEF TriggerFollows
  <2>3. CASE triggered
    <3>1. fsm'.acqState = "ACQUIRE" /\ AcquireAt(0, acqConfig.pre + 5)'
      BY <1>1, <1>9, <2>1, <2>3, TriggerMoves, TriggerTick
    <3>2. triggerAge' = 4
      <4>1. triggerAge = 3 /\ ~Resting
        BY <1>1, <1>9, <2>3 DEF TriggerSeen, Resting
      <4>2. triggerAge' = Older(triggerAge)
        BY <2>3, <4>1, TickTrigger
      <4>3. triggerAge \in 0 .. Old
        BY <1>1 DEF Typed, MemoryOK
      <4>4. Older(3) = IF 3 < Old THEN 4 ELSE Old
        BY <4>1, <4>3, OlderIs
      <4>5. Old > 3
        <5>1. 0 \in 0 .. Segments(segMode) - 1
          BY <1>1, Geometry
        <5> QED BY <1>1, <5>1, RoomForIntervals, Numbers
      <4> QED BY <4>1, <4>2, <4>4, <4>5
    <3>3. PICK c \in Nat : c = acqConfig.pre /\ c + 5 \in 0 .. Segment[segMode] - 1
                           /\ 0 \in 0 .. Segments(segMode) - 1
      <4>1. acqActive
        BY <2>1
      <4> QED BY <1>1, <4>1, InUseSizes DEF InUse
    <3>4. Behind(Begins(segMode, 0) + (c + 5) - 1)'
      <4>1. Begins(segMode, 0) = 0
        BY <1>1, BeginsNext
      <4>2. triggerAge' = (Begins(segMode, 0) + (c + 5) - 1) - c
        BY <3>2, <3>3, <4>1
      <4> QED BY <1>2, <3>3, <4>2 DEF Behind
    <3>5. AcquireAt(0, c + 5)'
      BY <1>2, <3>1, <3>3
    <3> QED BY <1>2, <2>1, <3>1, <3>3, <3>4, <3>5 DEF TriggerFollows
  <2> QED BY <2>2, <2>3
<1>10. CASE fsm.acqState = "ACQUIRE"
  <2>1. acqActive /\ ~sysFull' /\ ~Resting /\ fsm.acqState # "ARMED"
    BY <1>2, <1>4, <1>10 DEF Resting
  <2>2. PICK k \in 0 .. Segments(segMode) - 1, w \in 0 .. Segment[segMode] - 1 :
          AcquireAt(k, w) /\ Behind(Begins(segMode, k) + w - 1)
    BY <1>1, <1>10 DEF TriggerFollows
  <2>3. PICK b \in Nat, l \in Nat \ {0}, o \in Nat, t \in Nat \ {0} :
          /\ b = Begins(segMode, k) /\ l = Segment[segMode] /\ o = Old /\ t = Segments(segMode)
          /\ b + l + 1 <= o /\ w \in 0 .. l - 1 /\ k \in 0 .. t - 1
    <3>1. /\ Begins(segMode, k) \in Nat /\ Segment[segMode] \in Nat \ {0} /\ Old \in Nat
          /\ Segments(segMode) \in Nat \ {0} /\ Begins(segMode, k) + Segment[segMode] + 1 <= Old
      BY <1>1, RoomForIntervals, Geometry
    <3> QED BY <3>1
  <2>4. PICK clock \in Int : clock = b + w - 1 /\ clock < o /\ clock + 1 = b + w
    BY <2>3
  <2>5. Behind(clock + 1)'
    BY <1>1, <2>1, <2>2, <2>3, <2>4, TriggerOlder
  <2>6. Behind(b + w)'
    BY <2>4, <2>5
  <2>7. CASE ~Done(fsm.acqCounter)
    <3>1. fsm'.acqState = "ACQUIRE" /\ w + 1 \in 0 .. l - 1 /\ AcquireAt(k, w + 1)'
      BY <1>1, <1>10, <2>1, <2>2, <2>3, <2>7, AcquireTick, AcquireMoves
    <3>2. b + w = b + (w + 1) - 1
      BY <2>3
    <3>3. Behind(Begins(segMode, k) + (w + 1) - 1)'
      BY <1>2, <2>3, <2>6, <3>2
    <3> QED BY <1>2, <2>1, <2>3, <3>1, <3>3 DEF TriggerFollows
  <2>8. CASE Done(fsm.acqCounter)
    <3>1. /\ w = l - 1
          /\ IF k < t - 1
             THEN /\ fsm'.acqState = "PAUSE" /\ PauseAt(k + 1)'
                  /\ fsm'.segGapCounter = Interval(segMode, k) - l - 2
             ELSE fsm'.acqState = "DONE" /\ channelWriteEnable'
      BY <1>1, <1>10, <2>1, <2>2, <2>3, <2>8, AcquiredTick
    <3>2. CASE k < t - 1
      <4>1. k \in Nat /\ k + 1 \in 1 .. t - 1
        BY <2>3, <3>2
      <4>2. PICK i \in Nat : i = Interval(segMode, k) /\ Begins(segMode, k + 1) = b + i
        BY <1>1, <2>3, <4>1, BeginsNext
      <4>3. Begins(segMode, k + 1) - fsm'.segGapCounter - 3 = b + w
        BY <2>3, <3>1, <3>2, <4>2
      <4>4. Behind(Begins(segMode, k + 1) - fsm.segGapCounter - 3)'
        BY <1>2, <2>6, <4>3
      <4> QED BY <1>2, <2>1, <2>3, <3>1, <3>2, <4>1, <4>4 DEF TriggerFollows
    <3>3. CASE ~(k < t - 1)
      <4>1. k = t - 1 /\ Completion' = b + l
        BY <1>5, <2>3, <3>3 DEF Completion
      <4>2. Completion' - 1 = b + w
        BY <2>3, <3>1, <4>1
      <4>3. Behind(IF channelWriteEnable THEN Completion - 1 ELSE Completion)'
        BY <2>6, <3>1, <3>3, <4>2
      <4> QED BY <3>1, <3>3, <4>3 DEF TriggerFollows
    <3> QED BY <3>2, <3>3
  <2> QED BY <2>7, <2>8
<1>11. CASE fsm.acqState = "PAUSE"
  <2>1. acqActive /\ ~sysFull' /\ ~Resting /\ fsm.acqState # "ARMED"
    BY <1>2, <1>4, <1>11 DEF Resting
  <2>2. PICK k \in 1 .. Segments(segMode) - 1 :
          PauseAt(k) /\ Behind(Begins(segMode, k) - fsm.segGapCounter - 3)
    BY <1>1, <1>11 DEF TriggerFollows
  <2>3. PICK b \in Nat, g \in Int, o \in Nat :
          /\ b = Begins(segMode, k) /\ g = fsm.segGapCounter /\ o = Old /\ g >= -1 /\ b <= o
    <3>1. k \in 0 .. Segments(segMode) - 1
      BY <1>1, Geometry
    <3>2. Begins(segMode, k) \in Nat /\ Old \in Nat /\ Begins(segMode, k) + Segment[segMode] + 1 <= Old
          /\ Segment[segMode] \in Nat
      BY <1>1, <3>1, RoomForIntervals, Geometry
    <3>3. fsm.segGapCounter \in -1 .. Longest - 1
      BY <1>1 DEF Typed, MachineKind, GapKind
    <3>4. fsm.segGapCounter \in Int /\ fsm.segGapCounter >= -1
      BY <3>3, Fields
    <3> QED BY <3>2, <3>4
  <2>4. PICK clock \in Int : clock = b - g - 3 /\ clock < o /\ clock + 1 = b - g - 2
    BY <2>3
  <2>5. Behind(clock + 1)'
    BY <1>1, <2>1, <2>2, <2>3, <2>4, TriggerOlder
  <2>6. Behind(b - g - 2)'
    BY <2>4, <2>5
  <2>7. CASE ~Done(fsm.segGapCounter)
    <3>1. fsm'.acqState = "PAUSE" /\ fsm'.segGapCounter = g - 1 /\ PauseAt(k)'
      BY <1>1, <1>11, <2>1, <2>2, <2>3, <2>7, PauseTick
    <3>2. b - g - 2 = b - (g - 1) - 3
      BY <2>3
    <3>3. Behind(Begins(segMode, k) - fsm.segGapCounter - 3)'
      BY <1>2, <2>3, <2>6, <3>1, <3>2
    <3> QED BY <1>2, <2>1, <3>1, <3>3 DEF TriggerFollows
  <2>8. CASE Done(fsm.segGapCounter)
    <3>1. /\ fsm'.acqState = "ACQUIRE" /\ g = -1 /\ k \in 0 .. Segments(segMode) - 1
          /\ AcquireAt(k, 0)'
      BY <1>1, <1>11, <2>1, <2>2, <2>3, <2>8, ResumeTick
    <3>2. b - g - 2 = b + 0 - 1 /\ 0 \in 0 .. Segment[segMode] - 1
      BY <1>1, <2>3, <3>1, Geometry
    <3>3. Behind(Begins(segMode, k) + 0 - 1)'
      BY <1>2, <2>3, <2>6, <3>2
    <3> QED BY <1>2, <2>1, <3>1, <3>2, <3>3 DEF TriggerFollows
  <2> QED BY <2>7, <2>8
<1> QED BY <1>1, <1>6, <1>7, <1>8, <1>9, <1>10, <1>11 DEF States

LEMMA InitTrigger == Init => TriggerInv
<1> SUFFICES ASSUME Init PROVE TriggerInv
  OBVIOUS
<1>1. fsm.acqState = "START" /\ fsm.watchForTrigger = FALSE
  BY DEF Init
<1>2. ~acqActive /\ ~acqActive_m /\ ~sysFull /\ ~triggered
  BY DEF Init
<1> QED BY <1>1, <1>2, InitRecorder DEF TriggerInv, TriggerSeen, TriggerFollows

LEMMA StepTrigger ==
  ASSUME DocumentedUse, ~DisarmWhileActive, TriggerInv, [Next]_vars
  PROVE  TriggerInv'
<1>1. RecorderInv /\ TriggerSeen /\ TriggerFollows /\ RecorderInv'
  BY StepRecorder DEF TriggerInv
<1>2. {acqActive_m, acqActive, sysAcqActive, sysFull} \subseteq BOOLEAN
  BY <1>1 DEF RecorderInv, ControlInv, Typed, BitsOK
<1> SUFFICES TriggerSeen' /\ TriggerFollows'
  BY <1>1 DEF TriggerInv
<1>3. CASE Tick
  BY <1>3, TickSeen, TickFollows
<1>4. ASSUME fsm.acqState = "START", ~sysFull',
             UNCHANGED <<fsm, acqActive, acqActive_m, triggered>>,
             acqActive_m \/ acqActive => sysAcqActive'
      PROVE  TriggerSeen' /\ TriggerFollows'
  BY <1>1, <1>4 DEF TriggerSeen, TriggerFollows
<1>5. ASSUME UNCHANGED <<adc, acqConfig, segMode>>, sysFull' => sysFull \/ fsm.acqState = "DONE",
             fsm.acqState = "DONE" \/ sysAcqActive' = sysAcqActive
      PROVE  TriggerSeen' /\ TriggerFollows'
  <2>1. UNCHANGED <<fsm, acqActive, acqActive_m, triggered, age, triggerAge, dpramWriteAddress,
                    channelWriteEnable, channelWriteAddress, acqConfig, segMode>>
    BY <1>5 DEF adc, memory, trigger
  <2>2. First' = First /\ Completion' = Completion
    BY <2>1 DEF First, Completion
  <2>3. \A k, w : AcquireAt(k, w)' <=> AcquireAt(k, w)
    BY <2>1, <2>2 DEF AcquireAt, CountersAt, Taken
  <2>4. \A k : PauseAt(k)' <=> PauseAt(k)
    BY <2>1, <2>2 DEF PauseAt, CountersAt, Taken
  <2>5. TriggerSeen'
    BY <1>1, <1>5, <2>1 DEF TriggerSeen
  <2>6. TriggerFollows'
    BY <1>1, <1>5, <2>1, <2>2, <2>3, <2>4 DEF TriggerFollows, Behind
  <2> QED BY <2>5, <2>6
<1>6. CASE (\E n \in PretriggerCounts : acquisitionSetPretriggerCount(n))
           \/ (\E m \in ClientModes : acquisitionSetSegmentedMode(m))
  <2>1. Settled /\ ~sysFull /\ ~sysAcqActive /\ UNCHANGED <<sys, adc>>
    BY <1>2, <1>6 DEF acquisitionSetPretriggerCount, acquisitionSetSegmentedMode, MayConfigure, DocumentedUse
  <2> QED BY <1>2, <1>4, <2>1 DEF Settled, sys, adc, trigger
<1>7. CASE SysSeesFinish
  <2>1. fsm.acqState = "DONE"
    BY <1>1, <1>7 DEF SysSeesFinish, RecorderInv, ControlInv, ActiveInStep
  <2> QED BY <1>5, <1>7, <2>1 DEF SysSeesFinish, settings
<1>8. CASE SysSeesFinishGone \/ Fetch \/ UNCHANGED vars
  <2>1. UNCHANGED <<adc, acqConfig, segMode>>
    BY <1>8 DEF SysSeesFinishGone, Fetch, vars, settings, sys
  <2>2. sysAcqActive' = sysAcqActive /\ (sysFull' => sysFull)
    <3>1. sysAcqActive \in BOOLEAN
      BY <1>2
    <3>2. CASE Fetch
      BY <3>1, <3>2 DEF Fetch, WriteCSR
    <3>3. CASE SysSeesFinishGone
      BY <3>3 DEF SysSeesFinishGone
    <3>4. CASE UNCHANGED vars
      BY <3>4 DEF vars, sys
    <3> QED BY <1>8, <3>2, <3>3, <3>4
  <2> QED BY <1>5, <2>1, <2>2
<1>9. CASE Arm
  BY <1>2, <1>4, <1>9 DEF Arm, WriteCSR, Settled, trigger
<1>10. CASE Disarm
  BY <1>10 DEF Disarm
<1> QED BY <1>3, <1>6, <1>7, <1>8, <1>9, <1>10 DEF Next

LEMMA FullHasTrigger ==
  ASSUME DocumentedUse, TriggerInv
  PROVE  TriggerInPlace
<1> SUFFICES ASSUME sysFull PROVE age[WordAt(dataLocation(0, pretriggerCount))] = triggerAge
  BY DEF TriggerInPlace
<1>1. RecorderInv /\ Typed /\ Configured /\ segMode \in Modes /\ ~channelWriteEnable
  BY DEF TriggerInv, RecorderInv, ControlInv, SettingsHold, InUse, Typed, SettingsOK, WhenFull
<1>2. PICK t \in Int, p \in Nat, s \in Nat \ {0}, g \in Nat :
        /\ t = triggerLocation /\ p = pretriggerCount /\ s = SamplesPerClock /\ g = acqConfig.pre
        /\ t \in 0 .. s - 1
  <2>1. triggerLocation \in 0 .. SamplesPerClock - 1
    BY <1>1 DEF Typed, BitsOK
  <2>2. pretriggerCount \in Nat /\ acqConfig.pre \in Nat
    BY <1>1, Numbers DEF Typed, SettingsOK, ConfigKind
  <2>3. SamplesPerClock \in Nat \ {0}
    BY GeometryAssumption
  <2> QED BY <2>1, <2>2, <2>3
<1>3. (t + p - p) \div s = 0
  <2>1. t + p - p = t
    BY <1>2
  <2>2. t = s * 0 + t
    BY <1>2
  <2> QED BY <1>2, <2>1, <2>2, QuotientIs
<1>4. g + 0 \in 0 .. Segment[segMode] - 1 /\ 0 \in 0 .. Segments(segMode) - 1
  <2>1. Segment[segMode] \in Nat /\ Segments(segMode) \in Nat \ {0}
    BY <1>1, Geometry
  <2> QED BY <1>1, <1>2, <2>1, ConfiguredSizes
<1>5. PICK q \in Int : q = 0 /\ q = (triggerLocation + p - pretriggerCount) \div SamplesPerClock
                       /\ acqConfig.pre + q \in 0 .. Segment[segMode] - 1
  BY <1>2, <1>3, <1>4
<1>6. /\ age[WordAt(dataLocation(0, p))] + q + Begins(segMode, 0) = Completion - acqConfig.pre
      /\ age[WordAt(dataLocation(0, p))] \in Int
  BY <1>1, <1>4, <1>5, AgeThere
<1>7. Begins(segMode, 0) = 0
  BY <1>1, BeginsNext
<1>8. triggerAge = Completion - acqConfig.pre
  BY <1>1 DEF TriggerInv, TriggerFollows, Behind
<1> QED BY <1>2, <1>5, <1>6, <1>7, <1>8

(* The sample that the trigger came with follows the pretrigger samples,   *)
(* when clients do not disarm an active recorder.                          *)
THEOREM TriggerStays == DocumentedUse /\ ~DisarmWhileActive => (Spec => []TriggerInPlace)
<1> SUFFICES ASSUME DocumentedUse, ~DisarmWhileActive PROVE Spec => []TriggerInPlace
  OBVIOUS
<1>1. Init => TriggerInv
  BY InitTrigger
<1>2. TriggerInv /\ [Next]_vars => TriggerInv'
  BY StepTrigger
<1>3. TriggerInv => TriggerInPlace
  BY FullHasTrigger
<1> QED BY <1>1, <1>2, <1>3, PTL DEF Spec

----------------------------------------------------------------------------
(* The readout.                                                            *)

Settings == [bonded : BOOLEAN, segmented : BOOLEAN, mean : BOOLEAN]
Recorder == [active : BOOLEAN, full : BOOLEAN, tag : Nat]
Samples == [tag : Int, of : Nat]
Readout == [channel : Recorders \cup {-1}, offset : Nat, samples : Seq(Samples),
            dated : Nat, mean : BOOLEAN]
ReadoutKinds ==
  /\ ro \in [cfg : [Recorders -> Settings], rec : [Recorders -> Recorder],
             mem : [Recorders -> Int], count : Nat, seen : SUBSET Recorders,
             steady : SUBSET Recorders, words : Int, client : Readout]
  /\ ro.client # NotReading => ro.client.channel \in Recorders

(* Only a member of a group is bonded to the first channel of it.          *)
OnlyMembersAreBonded == \A c \in Recorders : ro.cfg[c].bonded => Member(c)

(* A memory whose recorder has stopped is of that recorder's acquisition,  *)
(* unless a setting of the channel was changed.                            *)
Dated(c) == ~Recording(triggerChannel(c)) => ro.mem[c] = ro.rec[triggerChannel(c)].tag
SteadyIsDated == \A c \in ro.steady : Dated(c)

(* A readout of a steady channel has what is still in its memory.          *)
InOrder ==
  /\ ro.client.offset = Len(ro.client.samples)
  /\ \A k \in DOMAIN ro.client.samples : ro.client.samples[k].of = k - 1
StillInMemory ==
  ro.client.channel \in ro.steady =>
    /\ ~Recording(triggerChannel(ro.client.channel))
    /\ ro.client.dated = ro.rec[triggerChannel(ro.client.channel)].tag
    /\ \A k \in DOMAIN ro.client.samples : ro.client.samples[k].tag = ro.client.dated
PacketsInv ==
  /\ ReadoutKinds /\ OnlyMembersAreBonded /\ SteadyIsDated
  /\ InOrder /\ StillInMemory /\ RepliesFit

----------------------------------------------------------------------------
(* Groups.                                                                 *)
LEMMA WholeQuotient ==
  ASSUME NEW r \in Nat \ {0}, NEW d \in Int
  PROVE  (r * d) % r = 0
<1>1. r * d \in Int
  OBVIOUS
<1>2. /\ r * d = r * ((r * d) \div r) + ((r * d) % r)
      /\ (r * d) % r \in 0 .. r - 1 /\ (r * d) \div r \in Int
  BY <1>1, Quotient
<1>3. PICK e \in Int : e = d - ((r * d) \div r)
  BY <1>2
<1>4. r * e = (r * d) % r
  BY <1>2, <1>3
<1>5. CASE e >= 1
  <2>1. r * e >= r
    BY <1>5
  <2> QED BY <1>2, <1>4, <2>1
<1>6. CASE e <= -1
  <2>1. r * e <= -r
    BY <1>6
  <2> QED BY <1>2, <1>4, <2>1
<1> QED BY <1>4, <1>5, <1>6

LEMMA BaseIsFirst ==
  ASSUME NEW c \in Recorders PROVE BaseOf(c) \in Recorders /\ ~Member(BaseOf(c))
<1>1. /\ c = GroupSize * (c \div GroupSize) + (c % GroupSize)
      /\ c % GroupSize \in 0 .. GroupSize - 1 /\ c \div GroupSize \in Int
  BY ReadoutAssumption, Quotient
<1>2. BaseOf(c) = GroupSize * (c \div GroupSize)
  BY <1>1, ReadoutAssumption DEF BaseOf
<1>3. c \div GroupSize >= 0
  <2>1. SUFFICES ASSUME c \div GroupSize <= -1 PROVE FALSE
    BY <1>1
  <2>2. GroupSize * (c \div GroupSize) <= -GroupSize
    BY <1>1, <2>1, ReadoutAssumption
  <2> QED BY <1>1, <2>2, ReadoutAssumption
<1>4. GroupSize * (c \div GroupSize) >= 0
  BY <1>1, <1>3, ReadoutAssumption
<1>5. BaseOf(c) \in 0 .. c
  BY <1>1, <1>2, <1>4, ReadoutAssumption
<1>6. BaseOf(c) % GroupSize = 0
  BY <1>1, <1>2, WholeQuotient, ReadoutAssumption
<1> QED BY <1>5, <1>6, ReadoutAssumption DEF Member

(* The channel that controls a channel controls itself.                    *)
LEMMA ControllerIs ==
  ASSUME PacketsInv, NEW c \in Recorders
  PROVE  /\ triggerChannel(c) \in Recorders
         /\ triggerChannel(triggerChannel(c)) = triggerChannel(c)
<1>1. BaseOf(c) \in Recorders /\ ~Member(BaseOf(c)) /\ OnlyMembersAreBonded
  BY BaseIsFirst DEF PacketsInv
<1> QED BY <1>1 DEF triggerChannel, OnlyMembersAreBonded

----------------------------------------------------------------------------
(* Packets.                                                                *)
LEMMA WordsForSamples ==
  ASSUME NEW s \in Nat \ {0}, NEW r \in Nat, NEW n \in Nat, n <= r * s
  PROVE  (n + s - 1) \div s <= r
<1>1. PICK a \in Int : a = n + s - 1
  OBVIOUS
<1>2. PICK q \in Int : q = a \div s
  OBVIOUS
<1>3. a >= s * q
  BY <1>2, Quotient
<1>4. SUFFICES ASSUME q >= r + 1 PROVE FALSE
  BY <1>1, <1>2
<1>5. s * q >= s * (r + 1)
  BY <1>4
<1>6. s * (r + 1) = r * s + s
  OBVIOUS
<1> QED BY <1>1, <1>3, <1>5, <1>6

(* A reply has room for the samples that are fetched, and for the header.  *)
LEMMA FetchFits ==
  ASSUME PacketsInv, NEW t \in Recorders, NEW offset \in Nat
  PROVE  /\ acquisitionFetchCount(t, offset) \in Nat
         /\ WordsOf(t, acquisitionFetchCount(t, offset)) \in Int
         /\ WordsOf(t, acquisitionFetchCount(t, offset)) <= Room(offset)
         /\ Room(offset) <= PacketWords - (IF offset = 0 THEN HeaderWords ELSE 0)
<1> DEFINE n == acquisitionFetchCount(t, offset)
<1>1. ro.cfg[t] \in Settings
  BY DEF PacketsInv, ReadoutKinds
<1>2. /\ Room(offset) \in Nat
      /\ Room(offset) <= PacketWords - (IF offset = 0 THEN HeaderWords ELSE 0)
  BY MaxOfTwo, ReadoutAssumption DEF Room, HeaderWords
<1>3. /\ MeanCount(t, offset) \in Nat /\ MeanCount(t, offset) <= Room(offset)
  BY <1>2, MaxOfTwo, MinOfTwo, ReadoutAssumption DEF MeanCount
<1>4. Limit(t) \in Int /\ Room(offset) * SamplesPerWord \in Nat
  BY <1>2, ReadoutAssumption DEF Limit
<1>5. /\ NormalCount(t, offset) \in Nat
      /\ NormalCount(t, offset) <= Room(offset) * SamplesPerWord
  <2>1. Limit(t) - offset \in Int
    BY <1>4
  <2>2. PICK m \in Int : /\ m = Min({Room(offset) * SamplesPerWord, Limit(t) - offset})
                         /\ m <= Room(offset) * SamplesPerWord
    BY <1>4, <2>1, MinOfTwo
  <2>3. NormalCount(t, offset) = IF 0 >= m THEN 0 ELSE m
    BY <2>2, MaxOfTwo DEF NormalCount
  <2> QED BY <1>4, <2>2, <2>3
<1>6. CASE n = 0
  <2>1. (SamplesPerWord - 1) \div SamplesPerWord \in Int /\ 0 + SamplesPerWord - 1 = SamplesPerWord - 1
    BY ReadoutAssumption, Quotient
  <2>2. (0 + SamplesPerWord - 1) \div SamplesPerWord <= Room(offset)
    BY <1>2, WordsForSamples, ReadoutAssumption
  <2> QED BY <1>2, <1>6, <2>1, <2>2 DEF WordsOf
<1>7. CASE n # 0 /\ ro.cfg[t].mean
  <2>1. n = MeanCount(t, offset) /\ WordsOf(t, n) = n
    BY <1>7 DEF acquisitionFetchCount, WordsOf
  <2> QED BY <1>2, <1>3, <2>1
<1>8. CASE n # 0 /\ ~ro.cfg[t].mean
  <2>1. n = NormalCount(t, offset) /\ WordsOf(t, n) = (n + SamplesPerWord - 1) \div SamplesPerWord
    BY <1>8 DEF acquisitionFetchCount, WordsOf
  <2>4. n + SamplesPerWord - 1 \in Int
    BY <1>5, <2>1, ReadoutAssumption
  <2>2. (n + SamplesPerWord - 1) \div SamplesPerWord \in Int
    BY <2>4, ReadoutAssumption, Quotient
  <2>3. (n + SamplesPerWord - 1) \div SamplesPerWord <= Room(offset)
    BY <1>2, <1>5, <2>1, WordsForSamples, ReadoutAssumption
  <2> QED BY <1>2, <1>5, <2>1, <2>2, <2>3
<1> QED BY <1>6, <1>7, <1>8

----------------------------------------------------------------------------
(* Arming, disarming, the end of an acquisition.                           *)
LEMMA SameControllers ==
  ASSUME ro'.cfg = ro.cfg PROVE \A c : triggerChannel(c)' = triggerChannel(c)
BY DEF triggerChannel

LEMMA ArmKeeps ==
  ASSUME PacketsInv, NEW t \in Recorders, acquisitionArm(t) PROVE PacketsInv'
<1> DEFINE armed == [active |-> TRUE, full |-> FALSE, tag |-> ro.count + 1]
           mem == [c \in Recorders |-> IF c \in WrittenBy(t) THEN Torn ELSE ro.mem[c]]
           steady == IF ro.client.channel \in WrittenBy(t) THEN ro.steady \ WrittenBy(t)
                     ELSE ro.steady \cup WrittenBy(t)
<1>1. /\ ReadoutKinds /\ OnlyMembersAreBonded /\ SteadyIsDated
      /\ InOrder /\ StillInMemory /\ RepliesFit
  BY DEF PacketsInv
<1>2. /\ ro'.cfg = ro.cfg /\ ro'.seen = ro.seen /\ ro'.words = ro.words
      /\ ro'.client = ro.client /\ ro'.count = ro.count + 1
      /\ ro'.rec = [ro.rec EXCEPT ![t] = armed] /\ ro'.mem = mem /\ ro'.steady = steady
  BY <1>1 DEF acquisitionArm, ReadoutKinds
<1>3. /\ [ro.rec EXCEPT ![t] = armed] \in [Recorders -> Recorder]
      /\ mem \in [Recorders -> Int] /\ steady \in SUBSET Recorders /\ ro.count + 1 \in Nat
  BY <1>1 DEF ReadoutKinds, Recorder, Torn, WrittenBy
<1>4. DOMAIN ro' = DOMAIN ro
  BY DEF acquisitionArm
<1>5. ReadoutKinds'
  BY <1>1, <1>2, <1>3, <1>4 DEF ReadoutKinds, acquisitionArm
<1>6. \A c : triggerChannel(c)' = triggerChannel(c)
  BY <1>2, SameControllers
<1> HIDE DEF steady, mem, armed
<1>7. SteadyIsDated'
  <2> SUFFICES ASSUME NEW c \in steady, ~Recording(triggerChannel(c))'
               PROVE  ro'.mem[c] = ro'.rec[triggerChannel(c)].tag
    BY <1>2, <1>6 DEF SteadyIsDated, Dated
  <2>1. c \in Recorders
    BY <1>3
  <2>2. triggerChannel(c) # t /\ triggerChannel(c) \in Recorders
    BY <1>1, <1>2, <1>6, <2>1, ControllerIs DEF Recording, armed, ReadoutKinds
  <2>3. c \notin WrittenBy(t) /\ c \in ro.steady
    BY <2>2 DEF WrittenBy, steady
  <2>4. ro'.rec[triggerChannel(c)] = ro.rec[triggerChannel(c)] /\ ro'.mem[c] = ro.mem[c]
    BY <1>1, <1>2, <2>1, <2>2, <2>3 DEF mem, ReadoutKinds
  <2> QED BY <1>1, <1>6, <2>3, <2>4 DEF SteadyIsDated, Dated, Recording
<1>8. StillInMemory'
  <2> SUFFICES ASSUME ro.client.channel \in steady PROVE StillInMemory'
    BY <1>2 DEF StillInMemory
  <2> DEFINE c == ro.client.channel
  <2>1. c \in Recorders /\ c \in ro.steady /\ c \notin WrittenBy(t)
    BY <1>3 DEF steady
  <2>2. triggerChannel(c) # t /\ triggerChannel(c) \in Recorders
    BY <2>1, ControllerIs DEF WrittenBy
  <2>3. ro'.rec[triggerChannel(c)] = ro.rec[triggerChannel(c)]
    BY <1>1, <1>2, <2>2 DEF ReadoutKinds
  <2> QED BY <1>1, <1>2, <1>6, <2>1, <2>3 DEF StillInMemory, Recording
<1> QED BY <1>1, <1>2, <1>5, <1>7, <1>8 DEF PacketsInv, OnlyMembersAreBonded, InOrder, RepliesFit

LEMMA DisarmKeeps ==
  ASSUME PacketsInv, NEW t \in Recorders, acquisitionDisarm(t) PROVE PacketsInv'
<1> DEFINE off == [ro.rec[t] EXCEPT !.active = FALSE, !.full = FALSE]
           steady == IF Recording(t) THEN ro.steady \ WrittenBy(t) ELSE ro.steady
<1>1. /\ ReadoutKinds /\ OnlyMembersAreBonded /\ SteadyIsDated
      /\ InOrder /\ StillInMemory /\ RepliesFit
  BY DEF PacketsInv
<1>2. ro.rec[t] \in Recorder /\ off \in Recorder /\ off.tag = ro.rec[t].tag /\ ~off.active
  BY <1>1 DEF ReadoutKinds, Recorder
<1>3. ro' = [ro EXCEPT !.rec = [@ EXCEPT ![t] = off], !.steady = steady]
  BY <1>1, <1>2 DEF acquisitionDisarm, ReadoutKinds, Recorder
<1>4. [ro.rec EXCEPT ![t] = off] \in [Recorders -> Recorder] /\ steady \in SUBSET ro.steady
  BY <1>1, <1>2 DEF ReadoutKinds
<1> HIDE DEF off, steady
<1>5. /\ ro'.cfg = ro.cfg /\ ro'.seen = ro.seen /\ ro'.words = ro.words
      /\ ro'.client = ro.client /\ ro'.mem = ro.mem
      /\ ro'.rec = [ro.rec EXCEPT ![t] = off] /\ ro'.steady = steady
  BY <1>1, <1>3 DEF ReadoutKinds
<1>6. ReadoutKinds'
  BY <1>1, <1>3, <1>4, <1>5 DEF ReadoutKinds
<1>7. \A c : triggerChannel(c)' = triggerChannel(c)
  BY <1>5, SameControllers
<1>8. ASSUME NEW c \in steady
      PROVE  /\ c \in Recorders /\ c \in ro.steady /\ triggerChannel(c) \in Recorders
             /\ ro'.rec[triggerChannel(c)].tag = ro.rec[triggerChannel(c)].tag
             /\ ro'.rec[triggerChannel(c)].active <=> ro.rec[triggerChannel(c)].active
  <2>1. c \in Recorders /\ c \in ro.steady
    BY <1>1, <1>4 DEF ReadoutKinds
  <2>2. triggerChannel(c) \in Recorders
    BY <2>1, ControllerIs
  <2>3. CASE triggerChannel(c) = t
    <3>1. ~ro.rec[t].active
      BY <2>1, <2>3 DEF steady, WrittenBy, Recording
    <3> QED BY <1>1, <1>2, <1>5, <2>1, <2>3, <3>1 DEF ReadoutKinds
  <2>4. CASE triggerChannel(c) # t
    BY <1>1, <1>5, <2>1, <2>2, <2>4 DEF ReadoutKinds
  <2> QED BY <2>3, <2>4
<1>9. SteadyIsDated'
  BY <1>1, <1>5, <1>7, <1>8 DEF SteadyIsDated, Dated, Recording
<1>10. StillInMemory'
  BY <1>1, <1>5, <1>7, <1>8 DEF StillInMemory, Recording
<1> QED BY <1>1, <1>5, <1>6, <1>9, <1>10 DEF PacketsInv, OnlyMembersAreBonded, InOrder, RepliesFit

LEMMA CompleteKeeps ==
  ASSUME PacketsInv, NEW t \in Recorders, Complete(t) PROVE PacketsInv'
<1> DEFINE done == [ro.rec[t] EXCEPT !.active = FALSE, !.full = TRUE]
           mem == [c \in Recorders |-> IF c \in WrittenBy(t) THEN ro.rec[t].tag ELSE ro.mem[c]]
<1>1. /\ ReadoutKinds /\ OnlyMembersAreBonded /\ SteadyIsDated
      /\ InOrder /\ StillInMemory /\ RepliesFit
  BY DEF PacketsInv
<1>2. /\ ro.rec[t] \in Recorder /\ done \in Recorder /\ done.tag = ro.rec[t].tag
      /\ ro.rec[t].active
  BY <1>1 DEF ReadoutKinds, Recorder, Complete, Recording
<1>3. ro' = [ro EXCEPT !.rec = [@ EXCEPT ![t] = done], !.mem = mem]
  BY <1>1, <1>2 DEF Complete, ReadoutKinds, Recorder
<1>4. [ro.rec EXCEPT ![t] = done] \in [Recorders -> Recorder] /\ mem \in [Recorders -> Int]
  BY <1>1, <1>2 DEF ReadoutKinds, Recorder
<1> HIDE DEF done
<1>5. /\ ro'.cfg = ro.cfg /\ ro'.seen = ro.seen /\ ro'.words = ro.words
      /\ ro'.client = ro.client /\ ro'.mem = mem
      /\ ro'.rec = [ro.rec EXCEPT ![t] = done] /\ ro'.steady = ro.steady
  BY <1>1, <1>3 DEF ReadoutKinds
<1>6. ReadoutKinds'
  BY <1>1, <1>3, <1>4, <1>5 DEF ReadoutKinds
<1>7. \A c : triggerChannel(c)' = triggerChannel(c)
  BY <1>5, SameControllers
<1>8. ASSUME NEW c \in ro.steady PROVE Dated(c)'
  <2>1. c \in Recorders /\ triggerChannel(c) \in Recorders
    BY <1>1, ControllerIs DEF ReadoutKinds
  <2>2. CASE triggerChannel(c) = t
    <3>1. ro'.mem[c] = ro.rec[t].tag /\ ro'.rec[t] = done
      BY <1>1, <1>5, <2>1, <2>2 DEF WrittenBy, ReadoutKinds
    <3> QED BY <1>2, <1>7, <2>2, <3>1 DEF Dated
  <2>3. CASE triggerChannel(c) # t
    <3>1. ro'.mem[c] = ro.mem[c] /\ ro'.rec[triggerChannel(c)] = ro.rec[triggerChannel(c)]
      BY <1>1, <1>5, <2>1, <2>3 DEF WrittenBy, ReadoutKinds
    <3> QED BY <1>1, <1>7, <3>1 DEF SteadyIsDated, Dated, Recording
  <2> QED BY <2>2, <2>3
<1>9. SteadyIsDated'
  BY <1>5, <1>8 DEF SteadyIsDated
<1>10. StillInMemory'
  <2> SUFFICES ASSUME ro.client.channel \in ro.steady PROVE StillInMemory'
    BY <1>5 DEF StillInMemory
  <2>1. triggerChannel(ro.client.channel) \in Recorders
    BY <1>1, ControllerIs DEF ReadoutKinds
  <2>2. triggerChannel(ro.client.channel) # t
    BY <1>1, <1>2 DEF StillInMemory, Recording
  <2>3. ro'.rec[triggerChannel(ro.client.channel)] = ro.rec[triggerChannel(ro.client.channel)]
    BY <1>1, <1>5, <2>1, <2>2 DEF ReadoutKinds
  <2> QED BY <1>1, <1>5, <1>7, <2>3 DEF StillInMemory, Recording
<1> QED BY <1>1, <1>5, <1>6, <1>9, <1>10 DEF PacketsInv, OnlyMembersAreBonded, InOrder, RepliesFit

(* Setters: a channel whose setting changes is not steady any more.        *)
LEMMA SettingKeeps ==
  ASSUME PacketsInv, ReadoutKinds', OnlyMembersAreBonded',
         ro'.rec = ro.rec, ro'.client = ro.client, ro'.words = ro.words,
         ro'.steady \subseteq ro.steady,
         \A d \in ro'.steady : triggerChannel(d)' = triggerChannel(d) /\ ro'.mem[d] = ro.mem[d]
  PROVE  PacketsInv'
BY DEF PacketsInv, SteadyIsDated, Dated, InOrder, StillInMemory, RepliesFit, Recording

LEMMA SetBondingKeeps ==
  ASSUME PacketsInv, NEW c \in Recorders, NEW b \in BOOLEAN, SetBonding(c, b) PROVE PacketsInv'
<1> DEFINE one == [ro.cfg[c] EXCEPT !.bonded = b]
           torn == IF Recording(BaseOf(c)) \/ Recording(c) THEN Torn ELSE ro.mem[c]
           steady == (ro.steady \ WrittenBy(c)) \ {c}
<1>1. ReadoutKinds /\ OnlyMembersAreBonded /\ Member(c)
  BY DEF PacketsInv, SetBonding
<1>2. one \in Settings /\ one.bonded = b /\ torn \in Int
  BY <1>1 DEF ReadoutKinds, Settings, Torn
<1>3. ro' = [ro EXCEPT !.cfg = [@ EXCEPT ![c] = one], !.mem = [@ EXCEPT ![c] = torn],
                       !.steady = steady]
  BY <1>1, <1>2 DEF SetBonding, Unsteady, ReadoutKinds, Settings
<1>4. /\ [ro.cfg EXCEPT ![c] = one] \in [Recorders -> Settings]
      /\ [ro.mem EXCEPT ![c] = torn] \in [Recorders -> Int] /\ steady \in SUBSET ro.steady
  BY <1>1, <1>2 DEF ReadoutKinds
<1>5. c \notin steady
  OBVIOUS
<1> HIDE DEF one, torn, steady
<1>6. /\ ro'.cfg = [ro.cfg EXCEPT ![c] = one] /\ ro'.seen = ro.seen /\ ro'.words = ro.words
      /\ ro'.client = ro.client /\ ro'.rec = ro.rec
      /\ ro'.mem = [ro.mem EXCEPT ![c] = torn] /\ ro'.steady = steady
  BY <1>1, <1>3 DEF ReadoutKinds
<1>7. ReadoutKinds'
  BY <1>1, <1>3, <1>4, <1>6 DEF ReadoutKinds
<1>8. OnlyMembersAreBonded'
  BY <1>1, <1>2, <1>6 DEF OnlyMembersAreBonded, ReadoutKinds
<1>9. ASSUME NEW d \in steady
      PROVE  triggerChannel(d)' = triggerChannel(d) /\ ro'.mem[d] = ro.mem[d]
  BY <1>1, <1>4, <1>5, <1>6 DEF triggerChannel, ReadoutKinds
<1> QED BY <1>4, <1>6, <1>7, <1>8, <1>9, SettingKeeps

LEMMA SetKeeps ==
  ASSUME PacketsInv, NEW c \in Recorders, NEW b \in BOOLEAN,
         SetSegmented(c, b) \/ SetMean(c, b)
  PROVE  PacketsInv'
<1> DEFINE steady == ro.steady \ WrittenBy(c)
<1>1. ReadoutKinds /\ OnlyMembersAreBonded
  BY DEF PacketsInv
<1>2. PICK one \in Settings :
        ro' = [ro EXCEPT !.cfg = [@ EXCEPT ![c] = one], !.steady = steady]
        /\ one.bonded = ro.cfg[c].bonded
  <2>1. ro.cfg[c] \in Settings
    BY <1>1 DEF ReadoutKinds
  <2>2. CASE SetSegmented(c, b)
    <3>1. [ro.cfg[c] EXCEPT !.segmented = b] \in Settings
      BY <2>1 DEF Settings
    <3> QED BY <1>1, <2>1, <2>2, <3>1 DEF SetSegmented, Unsteady, ReadoutKinds, Settings
  <2>3. CASE SetMean(c, b)
    <3>1. [ro.cfg[c] EXCEPT !.mean = b] \in Settings
      BY <2>1 DEF Settings
    <3> QED BY <1>1, <2>1, <2>3, <3>1 DEF SetMean, Unsteady, ReadoutKinds, Settings
  <2> QED BY <2>2, <2>3
<1>3. [ro.cfg EXCEPT ![c] = one] \in [Recorders -> Settings] /\ steady \in SUBSET ro.steady
  BY <1>1 DEF ReadoutKinds
<1> HIDE DEF steady
<1>4. /\ ro'.cfg = [ro.cfg EXCEPT ![c] = one] /\ ro'.seen = ro.seen /\ ro'.words = ro.words
      /\ ro'.client = ro.client /\ ro'.rec = ro.rec /\ ro'.mem = ro.mem /\ ro'.steady = steady
  BY <1>1, <1>2 DEF ReadoutKinds
<1>5. ReadoutKinds'
  BY <1>1, <1>2, <1>3, <1>4 DEF ReadoutKinds
<1>6. \A d \in Recorders : ro'.cfg[d].bonded = ro.cfg[d].bonded
  BY <1>1, <1>2, <1>4 DEF ReadoutKinds
<1>7. OnlyMembersAreBonded'
  BY <1>1, <1>6 DEF OnlyMembersAreBonded
<1>8. \A d \in steady : triggerChannel(d)' = triggerChannel(d)
  BY <1>1, <1>3, <1>6 DEF triggerChannel, ReadoutKinds
<1> QED BY <1>3, <1>4, <1>5, <1>7, <1>8, SettingKeeps

LEMMA StatusKeeps ==
  ASSUME PacketsInv, acquisitionStatus PROVE PacketsInv'
<1> DEFINE seen == {c \in Recorders : StatusOf(c).full}
<1>1. ReadoutKinds /\ OnlyMembersAreBonded
  BY DEF PacketsInv
<1>2. ro' = [ro EXCEPT !.seen = seen] /\ seen \in SUBSET Recorders
  BY DEF acquisitionStatus
<1> HIDE DEF seen
<1>3. /\ ro'.cfg = ro.cfg /\ ro'.words = ro.words /\ ro'.client = ro.client
      /\ ro'.rec = ro.rec /\ ro'.mem = ro.mem /\ ro'.steady = ro.steady
  BY <1>1, <1>2 DEF ReadoutKinds
<1>4. ReadoutKinds'
  BY <1>1, <1>2, <1>3 DEF ReadoutKinds
<1>5. OnlyMembersAreBonded' /\ \A d : triggerChannel(d)' = triggerChannel(d)
  BY <1>1, <1>3, SameControllers DEF OnlyMembersAreBonded
<1> QED BY <1>3, <1>4, <1>5, SettingKeeps

----------------------------------------------------------------------------
(* A packet.                                                               *)
LEMMA ReadIs ==
  ASSUME PacketsInv, NEW c \in Recorders, NEW first \in Nat, NEW n \in Nat
  PROVE  /\ Read(c, first, n) \in Seq(Samples) /\ Len(Read(c, first, n)) = n
         /\ \A k \in 1 .. n : Read(c, first, n)[k] = [tag |-> ro.mem[c], of |-> first + k - 1]
<1>1. ro.mem[c] \in Int
  BY DEF PacketsInv, ReadoutKinds
<1>2. \A k \in 1 .. n : [tag |-> ro.mem[c], of |-> first + k - 1] \in Samples
  BY <1>1 DEF Samples
<1> QED BY <1>2 DEF Read

(* What is read, n samples of channel c, is put after the samples s.       *)
Joined(samples, c, s, n) ==
  /\ samples \in Seq(Samples) /\ Len(samples) = Len(s) + n
  /\ \A k \in DOMAIN samples : \/ k \in DOMAIN s /\ samples[k] = s[k]
                              \/ samples[k] = [tag |-> ro.mem[c], of |-> k - 1]

LEMMA JoinedIs ==
  ASSUME PacketsInv, NEW c \in Recorders, NEW s \in Seq(Samples), NEW n \in Nat,
         NEW o \in Nat, o = Len(s)
  PROVE  Joined(s \o Read(c, o, n), c, s, n)
<1> DEFINE r == Read(c, o, n)
<1>1. /\ Len(s) \in Nat /\ r \in Seq(Samples) /\ Len(r) = n
      /\ \A k \in 1 .. n : r[k] = [tag |-> ro.mem[c], of |-> Len(s) + k - 1]
  BY LenProperties, ReadIs
<1> HIDE DEF r
<1>4. /\ s \o r \in Seq(Samples) /\ Len(s \o r) = Len(s) + Len(r)
      /\ \A i \in 1 .. Len(s) + Len(r) :
           (s \o r)[i] = IF i <= Len(s) THEN s[i] ELSE r[i - Len(s)]
  BY <1>1, ConcatProperties, Zenon
<1>2. /\ \A k \in 1 .. Len(s) : (s \o r)[k] = s[k]
      /\ \A k \in (Len(s) + 1) .. (Len(s) + n) : (s \o r)[k] = r[k - Len(s)]
  BY <1>1, <1>4
<1>3. ASSUME NEW k \in (Len(s) + 1) .. (Len(s) + n)
      PROVE  (s \o r)[k] = [tag |-> ro.mem[c], of |-> k - 1]
  <2>1. k - Len(s) \in 1 .. n /\ Len(s) + (k - Len(s)) - 1 = k - 1
    BY <1>1
  <2> QED BY <1>1, <1>2, <2>1
<1>5. DOMAIN (s \o r) = 1 .. (Len(s) + n) /\ DOMAIN s = 1 .. Len(s)
  BY <1>1, <1>4, LenProperties
<1>6. ASSUME NEW k \in 1 .. (Len(s) + n)
      PROVE  \/ k \in DOMAIN s /\ (s \o r)[k] = s[k]
             \/ (s \o r)[k] = [tag |-> ro.mem[c], of |-> k - 1]
  <2>1. k \in 1 .. Len(s) \/ k \in (Len(s) + 1) .. (Len(s) + n)
    BY <1>1
  <2> QED BY <1>2, <1>3, <1>5, <2>1
<1> QED BY <1>1, <1>4, <1>5, <1>6 DEF r, Joined

(* Reading a channel stops no recorder of a steady one.                    *)
LEMMA ReadingStops ==
  ASSUME PacketsInv, NEW c \in Recorders, NEW o, NEW n, n # 0 => ~Recording(triggerChannel(c)),
         NEW d \in Recorders
  PROVE  /\ AfterReading(c, o, n) \in [Recorders -> Recorder]
         /\ AfterReading(c, o, n)[triggerChannel(d)].tag = ro.rec[triggerChannel(d)].tag
         /\ AfterReading(c, o, n)[triggerChannel(d)].active <=> Recording(triggerChannel(d))
<1> DEFINE off == [ro.rec[c] EXCEPT !.active = FALSE, !.full = FALSE]
           t == triggerChannel(d)
<1>1. ReadoutKinds
  BY DEF PacketsInv
<1>2. /\ ro.rec[c] \in Recorder /\ off \in Recorder /\ off.tag = ro.rec[c].tag
      /\ ~off.active
  BY <1>1 DEF ReadoutKinds, Recorder
<1>3. \/ AfterReading(c, o, n) = ro.rec
      \/ AfterReading(c, o, n) = [ro.rec EXCEPT ![c] = off] /\ ~Recording(triggerChannel(c))
  <2>1. ForNoMean(triggerChannel(c), o) => ~Recording(triggerChannel(c))
    BY DEF ForNoMean, ChannelIsActive
  <2>2. [ro.rec EXCEPT ![c].active = FALSE, ![c].full = FALSE] = [ro.rec EXCEPT ![c] = off]
    BY <1>1, <1>2 DEF ReadoutKinds, Recorder
  <2> QED BY <2>1, <2>2 DEF AfterReading
<1>4. t \in Recorders /\ triggerChannel(t) = t
  BY ControllerIs
<1>5. t = c /\ ~Recording(triggerChannel(c)) => ~ro.rec[t].active
  BY <1>4 DEF Recording
<1> QED BY <1>1, <1>2, <1>3, <1>4, <1>5 DEF ReadoutKinds, Recording

LEMMA FirstReadout ==
  ASSUME NEW c \in Recorders
  PROVE  [NotReading EXCEPT !.channel = c] =
           [channel |-> c, offset |-> 0, samples |-> <<>>, dated |-> 0, mean |-> FALSE]
<1>1. NotReading \in Readout
  BY DEF NotReading, Readout
<1>2. PICK e \in Readout : e = [NotReading EXCEPT !.channel = c]
  BY <1>1 DEF Readout
<1>3. /\ e.channel = c /\ e.offset = NotReading.offset /\ e.samples = NotReading.samples
      /\ e.dated = NotReading.dated /\ e.mean = NotReading.mean
  BY <1>1, <1>2 DEF Readout
<1> QED BY <1>2, <1>3 DEF Readout, NotReading

(* A readout that has begun well, if it has begun: samples s up to o.      *)
SoFar(c, o, s, d) ==
  /\ \A k \in DOMAIN s : s[k].of = k - 1
  /\ c \in ro.steady /\ o # 0 =>
       /\ d = ro.rec[triggerChannel(c)].tag
       /\ \A k \in DOMAIN s : s[k].tag = d

LEMMA PacketKeeps ==
  ASSUME PacketsInv, NEW c \in Recorders, NEW w \in Readout, Packet(c, w),
         NEW o \in Nat, NEW s \in Seq(Samples), NEW d \in Nat, o = Len(s), SoFar(c, o, s, d),
         w.channel = c, w.offset = o, w.samples = s, w.dated = d
  PROVE  PacketsInv'
<1> DEFINE t == triggerChannel(c)
<1>1. /\ ReadoutKinds /\ OnlyMembersAreBonded /\ SteadyIsDated
      /\ InOrder /\ StillInMemory /\ RepliesFit
  BY DEF PacketsInv
<1>2. t \in Recorders /\ triggerChannel(t) = t
  BY ControllerIs
<1>3. ro.rec[t].tag \in Nat
  BY <1>1, <1>2 DEF ReadoutKinds, Recorder
<1>4. PICK n \in Nat : n = acquisitionFetchCount(t, o)
  BY <1>2, FetchFits
<1>5. PICK words \in Int :
        /\ words = IF n = 0 THEN 0 ELSE WordsOf(t, n) + (IF o = 0 THEN HeaderWords ELSE 0)
        /\ words <= PacketWords
  <2>1. /\ WordsOf(t, n) \in Int /\ WordsOf(t, n) <= Room(o)
        /\ Room(o) <= PacketWords - (IF o = 0 THEN HeaderWords ELSE 0)
    BY <1>2, <1>4, FetchFits
  <2>2. Room(o) \in Int
    BY MaxOfTwo, ReadoutAssumption DEF Room, HeaderWords
  <2> QED BY <2>1, <2>2, ReadoutAssumption DEF HeaderWords
<1>6. PICK samples : samples = s \o Read(c, o, n) /\ Joined(samples, c, s, n)
  BY JoinedIs, Zenon
<1>7. /\ samples \in Seq(Samples) /\ Len(samples) = o + n
      /\ \A k \in DOMAIN samples : \/ k \in DOMAIN s /\ samples[k] = s[k]
                                  \/ samples[k] = [tag |-> ro.mem[c], of |-> k - 1]
  BY <1>6 DEF Joined
<1>8. PICK dated \in Nat : dated = IF o = 0 THEN ro.rec[t].tag ELSE d
  BY <1>3
<1>9. PICK m \in BOOLEAN : m = ro.cfg[t].mean
  BY <1>1, <1>2 DEF ReadoutKinds, Settings
<1>10. PICK next \in Readout :
         /\ next = IF n = 0 THEN NotReading
                   ELSE [w EXCEPT !.offset = o + n, !.samples = samples, !.dated = dated, !.mean = m]
         /\ n # 0 => /\ next.channel = c /\ next.offset = o + n
                     /\ next.samples = samples /\ next.dated = dated
  <2>1. NotReading \in Readout
    BY DEF NotReading, Readout
  <2>2. o + n \in Nat
    OBVIOUS
  <2>3. PICK e \in Readout :
          e = [w EXCEPT !.offset = o + n, !.samples = samples, !.dated = dated, !.mean = m]
    BY <1>7, <2>2 DEF Readout
  <2>4. e.channel = c /\ e.offset = o + n /\ e.samples = samples /\ e.dated = dated
    BY <1>7, <2>2, <2>3 DEF Readout
  <2> QED BY <2>1, <2>3, <2>4
<1>11. ro' = [ro EXCEPT !.rec = AfterReading(c, o, n), !.words = words,
                        !.seen = @ \ {c}, !.client = next]
  BY <1>4, <1>5, <1>6, <1>8, <1>9, <1>10, Zenon DEF Packet
<1>12. /\ ro'.cfg = ro.cfg /\ ro'.words = words /\ ro'.client = next
       /\ ro'.rec = AfterReading(c, o, n) /\ ro'.mem = ro.mem /\ ro'.steady = ro.steady
  BY <1>1, <1>11 DEF ReadoutKinds
<1>13. n # 0 => ~Recording(t)
  BY <1>4 DEF acquisitionFetchCount, ChannelIsActive
<1>14. ASSUME NEW e \in Recorders
       PROVE  /\ ro'.rec \in [Recorders -> Recorder]
              /\ ro'.rec[triggerChannel(e)].tag = ro.rec[triggerChannel(e)].tag
              /\ ro'.rec[triggerChannel(e)].active <=> Recording(triggerChannel(e))
  BY <1>12, <1>13, ReadingStops
<1>15. ReadoutKinds'
  <2>1. AfterReading(c, o, n) \in [Recorders -> Recorder] /\ ro.seen \ {c} \in SUBSET Recorders
    BY <1>1, <1>12, <1>14 DEF ReadoutKinds
  <2>2. next # NotReading => next.channel \in Recorders
    BY <1>10
  <2> QED BY <1>1, <1>11, <1>12, <2>1, <2>2 DEF ReadoutKinds
<1>16. \A e : triggerChannel(e)' = triggerChannel(e)
  BY <1>12, SameControllers
<1>17. SteadyIsDated'
  BY <1>1, <1>12, <1>14, <1>16 DEF SteadyIsDated, Dated, Recording, ReadoutKinds
<1>18. CASE n = 0
  <2>1. next = NotReading /\ -1 \notin ro.steady
    BY <1>1, <1>10, <1>18, ReadoutAssumption, SMTT(20) DEF ReadoutKinds
  <2>2. InOrder' /\ StillInMemory'
    BY <1>12, <2>1 DEF InOrder, StillInMemory, NotReading
  <2> QED BY <1>1, <1>5, <1>12, <1>15, <1>17, <2>2
          DEF PacketsInv, OnlyMembersAreBonded, RepliesFit
<1>19. CASE n # 0
  <2>1. /\ ro'.client.channel = c /\ ro'.client.offset = o + n
        /\ ro'.client.samples = samples /\ ro'.client.dated = dated
    BY <1>10, <1>12, <1>19
  <2>2. InOrder'
    BY <1>7, <2>1 DEF InOrder, SoFar
  <2>3. ASSUME c \in ro.steady
        PROVE  dated = ro.rec[t].tag /\ \A k \in DOMAIN samples : samples[k].tag = dated
    <3>1. ro.mem[c] = ro.rec[t].tag
      BY <1>1, <1>13, <1>19, <2>3 DEF SteadyIsDated, Dated
    <3>2. CASE o = 0
      <4>1. DOMAIN s = {}
        <5>1. DOMAIN s = 1 .. o
          BY LenProperties
        <5> QED BY <3>2, <5>1
      <4> QED BY <1>7, <1>8, <3>1, <3>2, <4>1
    <3>3. CASE o # 0
      BY <1>7, <1>8, <2>3, <3>1, <3>3 DEF SoFar
    <3> QED BY <3>2, <3>3
  <2>4. StillInMemory'
    BY <1>12, <1>13, <1>14, <1>16, <1>19, <2>1, <2>3 DEF StillInMemory, Recording
  <2> QED BY <1>1, <1>5, <1>12, <1>15, <1>17, <2>2, <2>4
          DEF PacketsInv, OnlyMembersAreBonded, RepliesFit
<1> QED BY <1>18, <1>19

LEMMA FetchKeeps ==
  ASSUME PacketsInv, acquisitionFetch PROVE PacketsInv'
<1>1. ReadoutKinds /\ InOrder /\ StillInMemory
  BY DEF PacketsInv
<1>2. ASSUME NEW c \in ro.seen, Packet(c, [NotReading EXCEPT !.channel = c]) PROVE PacketsInv'
  <2>1. c \in Recorders
    BY <1>1 DEF ReadoutKinds
  <2>2. PICK w \in Readout : /\ w = [NotReading EXCEPT !.channel = c]
                            /\ w.channel = c /\ w.offset = 0 /\ w.samples = <<>>
    <3>1. [NotReading EXCEPT !.channel = c] =
            [channel |-> c, offset |-> 0, samples |-> <<>>, dated |-> 0, mean |-> FALSE]
      BY <2>1, FirstReadout
    <3>2. <<>> \in Seq(Samples)
      OBVIOUS
    <3> QED BY <2>1, <3>1, <3>2 DEF Readout
  <2>3. w.dated = 0 /\ <<>> \in Seq(Samples) /\ Len(<<>>) = 0 /\ DOMAIN <<>> = {}
    <3>1. w.dated = 0
      BY <2>1, <2>2, FirstReadout
    <3>2. <<>> \in Seq(Samples) /\ Len(<<>>) = 0 /\ DOMAIN <<>> = {}
      OBVIOUS
    <3> QED BY <3>1, <3>2
  <2>4. SoFar(c, 0, <<>>, 0)
    BY <2>3 DEF SoFar
  <2> QED BY <1>2, <2>1, <2>2, <2>3, <2>4, PacketKeeps
<1>3. ASSUME ro.client # NotReading, Packet(ro.client.channel, ro.client) PROVE PacketsInv'
  <2>1. ro.client \in Readout /\ ro.client.channel \in Recorders
    BY <1>1, <1>3 DEF ReadoutKinds
  <2>2. /\ ro.client.offset \in Nat /\ ro.client.samples \in Seq(Samples)
        /\ ro.client.dated \in Nat
    BY <2>1 DEF Readout
  <2>3. /\ ro.client.offset = Len(ro.client.samples)
        /\ SoFar(ro.client.channel, ro.client.offset, ro.client.samples, ro.client.dated)
    BY <1>1 DEF SoFar, InOrder, StillInMemory
  <2> QED BY <1>3, <2>1, <2>2, <2>3, PacketKeeps
<1> QED BY <1>2, <1>3 DEF acquisitionFetch

LEMMA PacketsStep == ASSUME PacketsInv, [ReadoutNext]_ro PROVE PacketsInv'
<1>1. CASE ro' = ro
  BY <1>1 DEF PacketsInv, ReadoutKinds, OnlyMembersAreBonded, SteadyIsDated, Dated, InOrder,
              StillInMemory, RepliesFit, Recording, triggerChannel
<1>2. ASSUME NEW c \in Recorders, acquisitionArm(c) PROVE PacketsInv'
  BY <1>2, ArmKeeps
<1>3. ASSUME NEW c \in Recorders, acquisitionDisarm(c) PROVE PacketsInv'
  BY <1>3, DisarmKeeps
<1>4. ASSUME NEW c \in Recorders, Complete(c) PROVE PacketsInv'
  BY <1>4, CompleteKeeps
<1>5. ASSUME NEW c \in Recorders, NEW b \in BOOLEAN, SetBonding(c, b) PROVE PacketsInv'
  BY <1>5, SetBondingKeeps
<1>6. ASSUME NEW c \in Recorders, NEW b \in BOOLEAN, SetSegmented(c, b) \/ SetMean(c, b)
      PROVE  PacketsInv'
  BY <1>6, SetKeeps
<1>7. CASE acquisitionStatus
  BY <1>7, StatusKeeps
<1>8. CASE acquisitionFetch
  BY <1>8, FetchKeeps
<1> QED BY <1>1, <1>2, <1>3, <1>4, <1>5, <1>6, <1>7, <1>8 DEF ReadoutNext

LEMMA PacketsStart == ReadoutInit => PacketsInv
<1> SUFFICES ASSUME ReadoutInit PROVE PacketsInv
  OBVIOUS
<1>1. NotReading \in Readout /\ Len(NotReading.samples) = 0 /\ DOMAIN NotReading.samples = {}
  BY DEF NotReading, Readout
<1>2. ReadoutKinds
  BY <1>1 DEF ReadoutInit, ReadoutKinds, Settings, Recorder
<1>3. OnlyMembersAreBonded /\ SteadyIsDated /\ InOrder /\ StillInMemory
  BY <1>1 DEF ReadoutInit, OnlyMembersAreBonded, SteadyIsDated, InOrder, StillInMemory, NotReading
<1>4. RepliesFit
  BY ReadoutAssumption DEF ReadoutInit, RepliesFit
<1> QED BY <1>2, <1>3, <1>4 DEF PacketsInv

(* A client that reads a waveform gets samples of one acquisition in       *)
(* order, that of the date in the header, in replies with room for them,   *)
(* whatever others arm, disarm or set between the packets, unless a        *)
(* setting of this channel changed or it was armed again                   *)
(* (acquisitionFetch and its callers, acquisition.c).                      *)
THEOREM PacketsSound == ReadoutSpec => []PacketsAreSound
<1>1. PacketsInv => PacketsAreSound
  <2> SUFFICES ASSUME PacketsInv PROVE PacketsAreSound
    OBVIOUS
  <2>1. ReadoutKinds /\ InOrder /\ StillInMemory /\ RepliesFit
    BY DEF PacketsInv
  <2>2. \A k \in DOMAIN ro.client.samples : ro.client.samples[k] \in Samples
    BY <2>1, LenProperties, ElementOfSeq DEF ReadoutKinds, Readout
  <2> QED BY <2>1, <2>2 DEF PacketsAreSound, AsRecorded, InOrder, StillInMemory, Samples
<1> QED BY <1>1, PacketsStart, PacketsStep, PTL DEF ReadoutSpec

----------------------------------------------------------------------------
(* The front panel.                                                        *)
Panel ==
  [seen : BOOLEAN, age : Nat, wasPressed : BOOLEAN, blanked : BOOLEAN,
   mode : STARTUP .. FATAL, newPage : pageFirst .. pageLast - 1, page : 1 .. pageLast,
   naming : BOOLEAN, row : Nat, item : Int, drawnPage : Int,
   stored : Seq(Messages), bytes : Nat, rows : Nat,
   then : Int, wasBad : BOOLEAN, old : Int \X Int, wiped : BOOLEAN, started : BOOLEAN,
   resetWasPushed : BOOLEAN, pushed : BOOLEAN, pushAge : Nat, released : BOOLEAN]
Line == [row : Nat, item : Int]
Body == [names : SUBSET Line, values : SUBSET Line, shown : Seq(Messages)]
TimeLine == [1 .. 2 -> [char : Int, colour : {"black", "red", "white"}]]
Screen == [body : Body, line : TimeLine, lit : BOOLEAN]
PanelKinds ==
  /\ button \in BOOLEAN /\ swtch \in BOOLEAN /\ time \in Nat
  /\ panel \in Panel /\ screen \in Screen

(* The names on a page are of the lines that have been named so far; there *)
(* are values when all of them are.                                        *)
LinesUpTo(page, n) == {[row |-> k, item |-> FirstItem[page] + k] : k \in 0 .. n - 1}
PageDrawn(p, body) ==
  /\ p.drawnPage = p.page /\ p.row < Lines[p.page] /\ p.item = FirstItem[p.page] + p.row
  /\ body.names = LinesUpTo(p.page, IF p.naming THEN p.row ELSE Lines[p.page])
  /\ body.values \subseteq LinesUpTo(p.page, Lines[p.page])
  /\ p.naming => body.values = {}
PageInv(p, body) ==
  p.mode = PAGES =>
    IF p.page \in Readings THEN PageDrawn(p, body) ELSE body.names = {} /\ body.values = {}

WarningInv(p, s) ==
  /\ p.mode = WARNING => s.body.shown = p.stored
  /\ Len(p.stored) <= MaxMessages /\ p.bytes <= cbufSize

(* The time that was drawn last and the characters it was drawn with.      *)
White(str) == [i \in 1 .. 2 |-> [char |-> str[i], colour |-> "white"]]
TimeTrue(p, line) ==
  /\ p.then \in Nat /\ (p.then = 0 => p.wasBad)
  /\ ~p.wasBad => p.old = Digits(p.then) /\ (~p.wiped => line = White(p.old))
TimeInv(p, s) ==
  /\ p.mode = STARTUP => p.then = -1 /\ ~p.started
  /\ p.mode \in {PAGES, WARNING} => TimeTrue(p, s.line)

ButtonInv(p, s) == s.lit = ~p.blanked /\ (p.wasPressed => ~p.blanked)
ResetInv(p) == (~p.resetWasPushed => p.released) /\ (p.pushed => p.released)
PanelTrue(p, s) ==
  /\ p \in Panel /\ s \in Screen
  /\ PageInv(p, s.body) /\ WarningInv(p, s) /\ TimeInv(p, s) /\ ButtonInv(p, s) /\ ResetInv(p)
PanelInv == PanelKinds /\ PanelTrue(panel, screen)

----------------------------------------------------------------------------
(* What the parts of a refresh leave alone.                                *)
SameDrawing(p, q) ==
  q.naming = p.naming /\ q.row = p.row /\ q.item = p.item /\ q.drawnPage = p.drawnPage
SameWarnings(p, q) == q.stored = p.stored /\ q.bytes = p.bytes /\ q.rows = p.rows
SameTime(p, q) == q.then = p.then /\ q.wasBad = p.wasBad /\ q.old = p.old /\ q.wiped = p.wiped
SameLoop(p, q) ==
  /\ q.started = p.started /\ q.resetWasPushed = p.resetWasPushed /\ q.pushed = p.pushed
  /\ q.released = p.released
SameButton(p, q) == q.wasPressed = p.wasPressed /\ q.blanked = p.blanked
SameMode(p, q) == q.mode = p.mode /\ q.page = p.page

LEMMA DebouncedIs ==
  ASSUME NEW p \in Panel, button \in BOOLEAN
  PROVE  /\ Debounced(p) \in Panel
         /\ SameMode(p, Debounced(p)) /\ SameDrawing(p, Debounced(p))
         /\ SameWarnings(p, Debounced(p)) /\ SameTime(p, Debounced(p)) /\ SameLoop(p, Debounced(p))
         /\ Debounced(p).wasPressed => Debounced(p).blanked = p.blanked
<1>1. PICK q \in Panel : q = IF button # p.seen THEN [p EXCEPT !.seen = button, !.age = Bouncing] ELSE p
  BY DEF Panel, Bouncing
<1>2. /\ SameMode(p, q) /\ SameDrawing(p, q) /\ SameWarnings(p, q) /\ SameTime(p, q)
      /\ SameLoop(p, q) /\ SameButton(p, q)
  BY <1>1 DEF Panel, SameMode, SameDrawing, SameWarnings, SameTime, SameLoop, SameButton
<1>3. PICK b \in BOOLEAN : b = IF q.age > Bouncing THEN button ELSE q.wasPressed
  BY DEF Panel
<1>4. PICK d \in BOOLEAN : d = (q.blanked \/ (~b /\ q.age = Idle1200))
  BY DEF Panel
<1>5. Debounced(p) = [q EXCEPT !.wasPressed = b, !.blanked = d]
  BY <1>1, <1>3, <1>4 DEF Debounced
<1>6. PICK r \in Panel : r = [q EXCEPT !.wasPressed = b, !.blanked = d]
  BY ZenonT(30) DEF Panel
<1>7. /\ SameMode(q, r) /\ SameDrawing(q, r) /\ SameWarnings(q, r) /\ SameTime(q, r)
      /\ SameLoop(q, r) /\ r.wasPressed = b /\ r.blanked = d
  BY <1>6 DEF Panel, SameMode, SameDrawing, SameWarnings, SameTime, SameLoop
<1>8. b => d = q.blanked
  BY <1>4 DEF Panel
<1> QED BY <1>2, <1>5, <1>6, <1>7, <1>8
        DEF SameMode, SameDrawing, SameWarnings, SameTime, SameLoop, SameButton

LEMMA WithModeIs ==
  ASSUME NEW p \in Panel, NEW m \in {Unchanged, PAGES, WARNING, FATAL},
         p.mode = STARTUP => m # Unchanged
  PROVE  /\ WithMode(p, m) \in Panel /\ WithMode(p, m).mode # STARTUP
         /\ SameDrawing(p, WithMode(p, m)) /\ SameWarnings(p, WithMode(p, m))
         /\ SameTime(p, WithMode(p, m)) /\ SameLoop(p, WithMode(p, m))
         /\ SameButton(p, WithMode(p, m))
<1> DEFINE long == p.wasPressed /\ p.age >= Long
<1>1. PICK next \in pageFirst + 1 .. pageLast - 1 :
        next = IF long \/ p.newPage = pageFirst THEN pageFirst + 1 ELSE p.newPage
  BY DEF Panel, pageFirst, pageLast
<1>2. PICK mode \in PAGES .. FATAL :
        mode = IF (IF long THEN PAGES ELSE m) = Unchanged THEN p.mode ELSE IF long THEN PAGES ELSE m
  BY SMTT(20) DEF Panel, Unchanged, STARTUP, PAGES, WARNING, FATAL
<1>3. PICK page \in 1 .. pageLast :
        page = IF mode = PAGES THEN next ELSE IF mode # p.mode THEN pageLast ELSE p.page
  BY DEF Panel, pageFirst, pageLast
<1>4. WithMode(p, m) = [p EXCEPT !.mode = mode, !.newPage = next, !.page = page]
  BY <1>1, <1>2, <1>3 DEF WithMode
<1>5. next \in pageFirst .. pageLast - 1 /\ mode \in STARTUP .. FATAL /\ mode # STARTUP
  BY DEF pageFirst, pageLast, STARTUP, PAGES, FATAL
<1>6. PICK q \in Panel : q = [p EXCEPT !.mode = mode, !.newPage = next, !.page = page]
  BY <1>5 DEF Panel
<1>7. /\ q.mode = mode /\ SameDrawing(p, q) /\ SameWarnings(p, q) /\ SameTime(p, q)
      /\ SameLoop(p, q) /\ SameButton(p, q)
  BY <1>6 DEF Panel, SameDrawing, SameWarnings, SameTime, SameLoop, SameButton
<1> QED BY <1>4, <1>5, <1>6, <1>7

LEMMA PressedIs ==
  ASSUME NEW p \in Panel
  PROVE  /\ Pressed(p) \in Panel /\ ~Pressed(p).blanked
         /\ SameMode(p, Pressed(p)) /\ SameDrawing(p, Pressed(p)) /\ SameWarnings(p, Pressed(p))
         /\ SameTime(p, Pressed(p)) /\ SameLoop(p, Pressed(p))
<1>1. PICK n \in pageFirst .. pageLast - 1 : n = Turned(p)
  BY SMTT(20) DEF Panel, Turned, pageFirst, pageLast
<1>2. PICK q \in Panel : q = [p EXCEPT !.blanked = FALSE]
  BY DEF Panel
<1>3. PICK r \in Panel : r = [p EXCEPT !.newPage = n]
  BY DEF Panel
<1>4. Pressed(p) = IF p.blanked THEN q ELSE r
  BY <1>1, <1>2, <1>3 DEF Pressed
<1>5. /\ ~q.blanked /\ SameMode(p, q) /\ SameDrawing(p, q) /\ SameWarnings(p, q)
      /\ SameTime(p, q) /\ SameLoop(p, q)
  BY <1>2 DEF Panel, SameMode, SameDrawing, SameWarnings, SameTime, SameLoop
<1>6. /\ r.blanked = p.blanked /\ SameMode(p, r) /\ SameDrawing(p, r) /\ SameWarnings(p, r)
      /\ SameTime(p, r) /\ SameLoop(p, r)
  BY <1>3 DEF Panel, SameMode, SameDrawing, SameWarnings, SameTime, SameLoop
<1> QED BY <1>4, <1>5, <1>6

LEMMA DigitsAre ==
  ASSUME NEW t \in Nat PROVE Digits(t) \in Int \X Int
<1>1. t \div 2 \in Int /\ t % 2 \in Int
  OBVIOUS
<1> QED BY <1>1 DEF Digits

LEMMA LineIs ==
  ASSUME NEW line \in TimeLine, NEW old, NEW str \in Int \X Int,
         NEW all \in BOOLEAN, NEW colour \in {"black", "red", "white"}
  PROVE  LineDrawn(line, old, str, all, colour) \in TimeLine
<1>1. \A i \in 1 .. 2 : str[i] \in Int
  OBVIOUS
<1> QED BY <1>1 DEF LineDrawn, TimeLine

(* The time: redraw when the mode or the page changes, as it does at first.*)
Strung(bad, str) == time \in Nat /\ (time = 0 => bad) /\ (~bad => str = Digits(time))
OnlyTime(p, line, redraw, q, l) ==
  /\ q \in Panel /\ l \in TimeLine
  /\ SameMode(p, q) /\ SameDrawing(p, q) /\ SameWarnings(p, q) /\ SameLoop(p, q)
  /\ SameButton(p, q)
  /\ redraw \/ TimeTrue(p, line) => TimeTrue(q, l)
LEMMA TimeDrawnIs ==
  ASSUME NEW p \in Panel, NEW line \in TimeLine,
         NEW redraw \in BOOLEAN, NEW bad \in BOOLEAN, NEW str \in Int \X Int, Strung(bad, str),
         NEW q, NEW l, q = TimeDrawn(p, line, redraw, bad, str).p,
         l = TimeDrawn(p, line, redraw, bad, str).line
  PROVE  OnlyTime(p, line, redraw, q, l)
<1> DEFINE colour == IF bad THEN "red" ELSE "white"
           new == LineDrawn(line, p.old, str, redraw \/ ~KeepsColour(p, bad), colour)
<1>1. PICK all \in BOOLEAN : all = (redraw \/ ~KeepsColour(p, bad))
  OBVIOUS
<1>2. PICK due \in BOOLEAN : due = (all \/ time # p.then)
  OBVIOUS
<1>3. PICK b \in Panel : b = [p EXCEPT !.wasBad = bad]
  BY DEF Panel
<1>4. /\ b.wasBad = bad /\ b.then = p.then /\ b.old = p.old /\ b.wiped = p.wiped
      /\ SameMode(p, b) /\ SameDrawing(p, b) /\ SameWarnings(p, b) /\ SameLoop(p, b)
      /\ SameButton(p, b)
  BY <1>3 DEF Panel, SameMode, SameDrawing, SameWarnings, SameLoop, SameButton
<1>5. PICK w \in BOOLEAN : w = (b.wiped /\ ~all)
  OBVIOUS
<1>6. time \in Int
  BY DEF Strung
<1>7. PICK d \in Panel : d = [b EXCEPT !.then = time, !.old = str, !.wiped = w]
  BY <1>6, ZenonT(30) DEF Panel
<1>8. /\ d.wasBad = bad /\ d.then = time /\ d.old = str /\ d.wiped = w
      /\ SameMode(p, d) /\ SameDrawing(p, d) /\ SameWarnings(p, d) /\ SameLoop(p, d)
      /\ SameButton(p, d)
  BY <1>4, <1>6, <1>7 DEF Panel, SameMode, SameDrawing, SameWarnings, SameLoop, SameButton
<1>9. q = (IF due THEN d ELSE b) /\ l = (IF due THEN new ELSE line)
  <2>1. TimeDrawn(p, line, redraw, bad, str) =
          IF due THEN [p |-> d, line |-> new] ELSE [p |-> b, line |-> line]
    BY <1>1, <1>2, <1>3, <1>5, <1>7 DEF TimeDrawn
  <2> QED BY <2>1
<1>10. new \in TimeLine
  <2>1. colour \in {"black", "red", "white"}
    OBVIOUS
  <2> QED BY <1>1, <2>1, LineIs
<1>11. ASSUME redraw \/ TimeTrue(p, line) PROVE TimeTrue(q, l)
  <2>1. CASE ~due
    <3>1. ~redraw /\ bad = p.wasBad /\ q = b /\ l = line
      BY <1>1, <1>2, <1>9, <2>1 DEF KeepsColour
    <3> QED BY <1>4, <1>11, <3>1 DEF TimeTrue
  <2>2. CASE due
    <3>1. q = d /\ l = new
      BY <1>9, <2>2
    <3>2. q.then \in Nat /\ (q.then = 0 => q.wasBad)
      BY <1>8, <3>1 DEF Strung
    <3>3. ASSUME ~bad PROVE q.old = Digits(q.then) /\ (~q.wiped => l = White(q.old))
      <4>1. str = Digits(time) /\ q.old = str /\ q.then = time
        BY <1>8, <3>1, <3>3 DEF Strung
      <4>2. CASE all
        <5>1. new = White(str)
          BY <1>1, <3>3, <4>2 DEF LineDrawn, White
        <5> QED BY <3>1, <4>1, <5>1
      <4>3. CASE ~all
        <5>1. ~redraw /\ ~p.wasBad /\ q.wiped = p.wiped
          BY <1>1, <1>4, <1>5, <1>8, <3>1, <3>3, <4>3 DEF KeepsColour, Panel
        <5>2. ~q.wiped => line = White(p.old)
          BY <1>11, <5>1 DEF TimeTrue
        <5>3. line = White(p.old) => new = White(str)
          BY <1>1, <3>3, <4>3 DEF LineDrawn, White
        <5> QED BY <3>1, <4>1, <5>2, <5>3
      <4> QED BY <4>2, <4>3
    <3> QED BY <1>8, <3>1, <3>2, <3>3 DEF TimeTrue
  <2> QED BY <2>1, <2>2
<1> QED BY <1>4, <1>8, <1>9, <1>10, <1>11 DEF OnlyTime

(* A line of a page.                                                       *)
LEMMA OneMoreLine ==
  ASSUME NEW page, NEW n \in Nat
  PROVE  LinesUpTo(page, n + 1) = LinesUpTo(page, n) \cup {[row |-> n, item |-> FirstItem[page] + n]}
<1>1. 0 .. (n + 1) - 1 = (0 .. n - 1) \cup {n}
  OBVIOUS
<1> QED BY <1>1 DEF LinesUpTo

LEMMA LinesAre ==
  ASSUME NEW page \in Readings, NEW n \in Nat PROVE LinesUpTo(page, n) \subseteq Line
BY PanelAssumption DEF LinesUpTo, Line

LEMMA DrawnIs ==
  ASSUME NEW p \in Panel, NEW body \in Body, p.page \in Readings, PageDrawn(p, body)
  PROVE  /\ Advanced(p, p.page) \in Panel /\ DrawnLine(body, p) \in Body
         /\ SameMode(p, Advanced(p, p.page)) /\ SameWarnings(p, Advanced(p, p.page))
         /\ SameTime(p, Advanced(p, p.page)) /\ SameLoop(p, Advanced(p, p.page))
         /\ SameButton(p, Advanced(p, p.page))
         /\ PageDrawn(Advanced(p, p.page), DrawnLine(body, p))
<1> DEFINE page == p.page
           line == [row |-> p.row, item |-> p.item]
<1>1. /\ FirstItem[page] \in Int /\ Lines[page] \in Nat \ {0}
      /\ p.row \in Nat /\ p.item \in Int /\ p.naming \in BOOLEAN
  BY PanelAssumption DEF Panel
<1>2. /\ p.drawnPage = page /\ p.row < Lines[page] /\ p.item = FirstItem[page] + p.row
      /\ body.names = LinesUpTo(page, IF p.naming THEN p.row ELSE Lines[page])
      /\ body.values \subseteq LinesUpTo(page, Lines[page])
      /\ p.naming => body.values = {}
  BY DEF PageDrawn
<1>3. PICK a \in Panel : a = [p EXCEPT !.row = 0, !.item = FirstItem[page], !.naming = FALSE]
  BY <1>1 DEF Panel
<1>4. /\ a.row = 0 /\ a.item = FirstItem[page] /\ ~a.naming /\ a.drawnPage = p.drawnPage
      /\ SameMode(p, a) /\ SameWarnings(p, a) /\ SameTime(p, a) /\ SameLoop(p, a) /\ SameButton(p, a)
  BY <1>1, <1>3 DEF Panel, SameMode, SameWarnings, SameTime, SameLoop, SameButton
<1>5. PICK b \in Panel : b = [p EXCEPT !.row = @ + 1, !.item = @ + 1]
  <2>1. PICK r \in Nat, i \in Int : r = p.row + 1 /\ i = p.item + 1
    BY <1>1
  <2> QED BY <2>1 DEF Panel
<1>6. /\ b.row = p.row + 1 /\ b.item = p.item + 1 /\ b.naming = p.naming
      /\ b.drawnPage = p.drawnPage
      /\ SameMode(p, b) /\ SameWarnings(p, b) /\ SameTime(p, b) /\ SameLoop(p, b) /\ SameButton(p, b)
  BY <1>1, <1>5 DEF Panel, SameMode, SameWarnings, SameTime, SameLoop, SameButton
<1>7. PICK q \in Panel : q = Advanced(p, page) /\ q = IF p.row + 1 >= Lines[page] THEN a ELSE b
  BY <1>3, <1>5 DEF Advanced
<1>8. PICK named \in Body : named = [body EXCEPT !.names = @ \cup {line}]
  <2>1. line \in Line /\ body.names \in SUBSET Line
    BY <1>1 DEF Body, Line
  <2>2. PICK set \in SUBSET Line : set = body.names \cup {line}
    BY <2>1
  <2> QED BY <2>2 DEF Body
<1>9. PICK valued \in Body :
        valued = [body EXCEPT !.values = {v \in @ : v.row # p.row} \cup {line}]
  <2>1. line \in Line /\ body.values \in SUBSET Line
    BY <1>1 DEF Body, Line
  <2>2. PICK set \in SUBSET Line : set = {v \in body.values : v.row # p.row} \cup {line}
    BY <2>1
  <2> QED BY <2>2 DEF Body
<1>10. /\ named.names = body.names \cup {line} /\ named.values = body.values
       /\ valued.names = body.names
       /\ valued.values = {v \in body.values : v.row # p.row} \cup {line}
  BY <1>8, <1>9 DEF Body
<1>11. DrawnLine(body, p) = IF p.naming THEN named ELSE valued
  BY <1>8, <1>9 DEF DrawnLine
<1>12. line \in LinesUpTo(page, Lines[page])
  <2>1. p.row \in 0 .. Lines[page] - 1
    BY <1>1, <1>2
  <2> QED BY <1>2, <2>1 DEF LinesUpTo
<1>13. p.naming => named.names = LinesUpTo(page, p.row + 1)
  BY <1>1, <1>2, <1>10, OneMoreLine
<1>14. PageDrawn(q, DrawnLine(body, p))
  <2>1. q.page = page
    BY <1>4, <1>6, <1>7 DEF SameMode
  <2>2. q.drawnPage = page /\ q.row < Lines[page] /\ q.item = FirstItem[page] + q.row
    BY <1>1, <1>2, <1>4, <1>6, <1>7
  <2>3. CASE p.naming /\ p.row + 1 >= Lines[page]
    <3>1. q = a /\ p.row + 1 = Lines[page] /\ DrawnLine(body, p) = named
      BY <1>1, <1>2, <1>7, <1>11, <2>3
    <3> QED BY <1>2, <1>4, <1>10, <1>13, <2>1, <2>2, <2>3, <3>1 DEF PageDrawn
  <2>4. CASE p.naming /\ ~(p.row + 1 >= Lines[page])
    <3>1. q = b /\ DrawnLine(body, p) = named
      BY <1>7, <1>11, <2>4
    <3> QED BY <1>2, <1>6, <1>10, <1>13, <2>1, <2>2, <2>4, <3>1 DEF PageDrawn
  <2>5. CASE ~p.naming
    <3>1. ~q.naming /\ DrawnLine(body, p) = valued
      BY <1>4, <1>6, <1>7, <1>11, <2>5
    <3>2. valued.values \subseteq LinesUpTo(page, Lines[page])
      BY <1>2, <1>10, <1>12
    <3> QED BY <1>2, <1>10, <2>1, <2>2, <2>5, <3>1, <3>2 DEF PageDrawn
  <2> QED BY <1>1, <2>3, <2>4, <2>5
<1> QED BY <1>4, <1>6, <1>7, <1>8, <1>9, <1>11, <1>14

LEMMA StartedIs ==
  ASSUME NEW p \in Panel, p.page \in Readings
  PROVE  /\ StartedPage(p, p.page) \in Panel
         /\ SameMode(p, StartedPage(p, p.page)) /\ SameWarnings(p, StartedPage(p, p.page))
         /\ SameTime(p, StartedPage(p, p.page)) /\ SameLoop(p, StartedPage(p, p.page))
         /\ SameButton(p, StartedPage(p, p.page))
         /\ PageDrawn(StartedPage(p, p.page), Empty)
<1>1. FirstItem[p.page] \in Int /\ Lines[p.page] \in Nat \ {0} /\ p.page \in Int
  <2>1. \A k \in 1 .. 3 : k \in Int
    OBVIOUS
  <2> QED BY <2>1, PanelAssumption
<1>2. PICK q \in Panel :
        q = [p EXCEPT !.naming = TRUE, !.row = 0, !.item = FirstItem[p.page], !.drawnPage = p.page]
  BY <1>1 DEF Panel
<1>3. /\ q.naming /\ q.row = 0 /\ q.item = FirstItem[p.page] /\ q.drawnPage = p.page
      /\ SameMode(p, q) /\ SameWarnings(p, q) /\ SameTime(p, q) /\ SameLoop(p, q) /\ SameButton(p, q)
  BY <1>1, <1>2 DEF Panel, SameMode, SameWarnings, SameTime, SameLoop, SameButton
<1>4. LinesUpTo(p.page, 0) = {}
  BY DEF LinesUpTo
<1>5. PageDrawn(q, Empty)
  BY <1>1, <1>3, <1>4 DEF PageDrawn, SameMode, Empty
<1> QED BY <1>2, <1>3, <1>5 DEF StartedPage

----------------------------------------------------------------------------
(* A refresh: what it draws, and the press that it notices at its end.     *)
Refreshed(p, body, line) ==
  /\ p \in Panel /\ body \in Body /\ line \in TimeLine
  /\ p.mode # STARTUP /\ PageInv(p, body)
  /\ p.mode = WARNING => body.shown = p.stored
  /\ p.mode \in {PAGES, WARNING} => TimeTrue(p, line)

LEMMA TimeStays ==
  ASSUME NEW p, NEW q, NEW line, SameTime(p, q), TimeTrue(p, line) PROVE TimeTrue(q, line)
BY DEF SameTime, TimeTrue

LEMMA DrawingIs ==
  ASSUME NEW r \in Panel, NEW body \in Body, NEW line \in TimeLine, r.mode = PAGES,
         r.page \in Readings, PageDrawn(r, body), TimeTrue(r, line)
  PROVE  /\ Refreshed(Advanced(r, r.page), DrawnLine(body, r), line)
         /\ SameWarnings(r, Advanced(r, r.page)) /\ SameLoop(r, Advanced(r, r.page))
         /\ SameButton(r, Advanced(r, r.page))
<1> DEFINE a == Advanced(r, r.page)
<1>1. /\ a \in Panel /\ DrawnLine(body, r) \in Body /\ SameMode(r, a) /\ SameWarnings(r, a)
      /\ SameTime(r, a) /\ SameLoop(r, a) /\ SameButton(r, a)
      /\ PageDrawn(a, DrawnLine(body, r))
  BY DrawnIs
<1> HIDE DEF a
<1>2. a.mode = PAGES /\ a.page \in Readings
  BY <1>1 DEF SameMode
<1>3. TimeTrue(a, line)
  BY <1>1, TimeStays
<1>4. Refreshed(a, DrawnLine(body, r), line)
  BY <1>1, <1>2, <1>3 DEF Refreshed, PageInv, PAGES, WARNING, STARTUP
<1> QED BY <1>1, <1>4 DEF a

LEMMA ShownIs ==
  ASSUME NEW body \in Body, NEW s \in Seq(Messages)
  PROVE  /\ [body EXCEPT !.shown = s] \in Body /\ [body EXCEPT !.shown = s].shown = s
         /\ [body EXCEPT !.shown = s].names = body.names
         /\ [body EXCEPT !.shown = s].values = body.values
BY DEF Body

(* How a refresh ends, depending on the mode: in panel p, body and line.   *)
Ways(q, redraw, draws, body, t, p, b, l) ==
  \/ q.mode = FATAL /\ p = q /\ b = body /\ l = screen.line
  \/ /\ draws /\ p = Advanced(Restarted(t.p, q.page, redraw), q.page)
     /\ b = DrawnLine(body, Restarted(t.p, q.page, redraw)) /\ l = t.line
  \/ /\ q.mode = WARNING /\ redraw
     /\ p = t.p /\ b = [body EXCEPT !.shown = q.stored] /\ l = t.line
  \/ /\ q.mode # FATAL /\ ~draws /\ ~(q.mode = WARNING /\ redraw)
     /\ p = t.p /\ b = body /\ l = t.line
Ended(q, p, b, l) ==
  Refreshed(p, b, l) /\ SameWarnings(q, p) /\ SameLoop(q, p) /\ SameButton(q, p)
Modal(q, redraw, draws, due) ==
  /\ redraw = (q.mode # panel.mode \/ q.page # panel.page)
  /\ draws = (q.mode = PAGES /\ q.page \in Readings /\ (due \/ redraw))
  /\ SameDrawing(panel, q) /\ SameWarnings(panel, q) /\ SameTime(panel, q) /\ q.mode # STARTUP

LEMMA DoneIs ==
  ASSUME PanelTrue(panel, screen), NEW q \in Panel,
         NEW redraw \in BOOLEAN, NEW draws \in BOOLEAN, NEW due \in BOOLEAN,
         Modal(q, redraw, draws, due),
         NEW bad \in BOOLEAN, NEW str \in Int \X Int, Strung(bad, str),
         NEW dp, NEW db, NEW dl,
         Ways(q, redraw, draws, IF redraw THEN Empty ELSE screen.body,
              TimeDrawn(q, screen.line, redraw, bad, str), dp, db, dl)
  PROVE  Ended(q, dp, db, dl)
<1> DEFINE body == IF redraw THEN Empty ELSE screen.body
           tp == TimeDrawn(q, screen.line, redraw, bad, str).p
           tl == TimeDrawn(q, screen.line, redraw, bad, str).line
           r == Restarted(tp, q.page, redraw)
<1>11. /\ q.mode # STARTUP /\ redraw = (q.mode # panel.mode \/ q.page # panel.page)
       /\ draws = (q.mode = PAGES /\ q.page \in Readings /\ (due \/ redraw))
       /\ SameDrawing(panel, q) /\ SameWarnings(panel, q) /\ SameTime(panel, q)
  BY DEF Modal
<1>12. \/ q.mode = FATAL /\ dp = q /\ db = body /\ dl = screen.line
       \/ draws /\ dp = Advanced(r, q.page) /\ db = DrawnLine(body, r) /\ dl = tl
       \/ /\ q.mode = WARNING /\ redraw
          /\ dp = tp /\ db = [body EXCEPT !.shown = q.stored] /\ dl = tl
       \/ /\ q.mode # FATAL /\ ~draws /\ ~(q.mode = WARNING /\ redraw)
          /\ dp = tp /\ db = body /\ dl = tl
  BY Zenon DEF Ways
<1>13. /\ tp = TimeDrawn(q, screen.line, redraw, bad, str).p
       /\ tl = TimeDrawn(q, screen.line, redraw, bad, str).line
       /\ body = IF redraw THEN Empty ELSE screen.body
       /\ r = Restarted(tp, q.page, redraw)
  OBVIOUS
<1> HIDE DEF body, r, tp, tl
<1>1. /\ screen.body \in Body /\ screen.line \in TimeLine /\ PageInv(panel, screen.body)
      /\ WarningInv(panel, screen) /\ TimeInv(panel, screen) /\ panel \in Panel
  BY DEF PanelTrue, Screen
<1>2. body \in Body /\ (redraw => body.names = {} /\ body.values = {})
  <2>1. Empty \in Body /\ Empty.names = {} /\ Empty.values = {}
    BY DEF Empty, Body
  <2> QED BY <1>1, <1>13, <2>1
<1>3. /\ tp \in Panel /\ tl \in TimeLine /\ SameMode(q, tp) /\ SameDrawing(q, tp)
      /\ SameWarnings(q, tp) /\ SameLoop(q, tp) /\ SameButton(q, tp)
      /\ redraw \/ TimeTrue(q, screen.line) => TimeTrue(tp, tl)
  <2>1. OnlyTime(q, screen.line, redraw, tp, tl)
    BY <1>1, <1>13, TimeDrawnIs, Zenon
  <2> QED BY <2>1 DEF OnlyTime
<1>4. q.mode \in {PAGES, WARNING} => TimeTrue(tp, tl)
  <2>1. ~redraw /\ q.mode \in {PAGES, WARNING} => TimeTrue(q, screen.line)
    BY <1>1, <1>11 DEF TimeInv, TimeTrue, SameTime
  <2> QED BY <1>3, <2>1
<1>5. ~redraw => PageInv(tp, body)
  BY <1>1, <1>3, <1>11, <1>13 DEF PageInv, PageDrawn, SameMode, SameDrawing
<1>6. SameMode(q, q) /\ SameWarnings(q, q) /\ SameLoop(q, q) /\ SameButton(q, q)
  BY DEF SameMode, SameWarnings, SameLoop, SameButton
<1>7. CASE q.mode = FATAL /\ dp = q /\ db = body /\ dl = screen.line
  <2>2. Refreshed(q, body, screen.line)
    BY <1>1, <1>2, <1>7, <1>11 DEF Refreshed, PageInv, FATAL, PAGES, WARNING, STARTUP
  <2> QED BY <1>6, <1>7, <2>2 DEF Ended
<1>8. CASE draws /\ dp = Advanced(r, q.page) /\ db = DrawnLine(body, r) /\ dl = tl
  <2>1. /\ dp = Advanced(r, q.page) /\ db = DrawnLine(body, r) /\ dl = tl
        /\ q.mode = PAGES /\ q.page \in Readings
    BY <1>8, <1>11
  <2>2. tp.page = q.page /\ tp.mode = PAGES
    BY <1>3, <2>1 DEF SameMode
  <2>3. /\ r \in Panel /\ SameMode(tp, r) /\ SameWarnings(tp, r) /\ SameTime(tp, r)
        /\ SameLoop(tp, r) /\ SameButton(tp, r) /\ PageDrawn(r, body)
    <3>1. CASE redraw
      <4>1. r = StartedPage(tp, tp.page) /\ body = Empty
        BY <1>13, <2>2, <3>1 DEF Restarted
      <4> QED BY <1>3, <2>1, <2>2, <4>1, StartedIs
    <3>2. CASE ~redraw
      <4>1. PageDrawn(tp, body)
        BY <1>5, <2>1, <2>2, <3>2 DEF PageInv
      <4>2. r = tp
        BY <1>13, <2>2, <3>2, <4>1 DEF Restarted, PageDrawn
      <4> QED BY <1>3, <4>1, <4>2 DEF SameMode, SameWarnings, SameTime, SameLoop, SameButton
    <3> QED BY <3>1, <3>2
  <2>4. r.page = q.page /\ r.mode = PAGES
    BY <2>2, <2>3 DEF SameMode
  <2>5. TimeTrue(r, tl)
    BY <1>4, <2>1, <2>3, TimeStays
  <2>6. /\ Refreshed(dp, db, dl) /\ SameWarnings(r, dp) /\ SameLoop(r, dp) /\ SameButton(r, dp)
    BY <1>2, <1>3, <2>1, <2>3, <2>4, <2>5, DrawingIs
  <2>7. SameWarnings(q, dp)
    BY <1>3, <2>3, <2>6 DEF SameWarnings
  <2>8. SameLoop(q, dp)
    BY <1>3, <2>3, <2>6 DEF SameLoop
  <2>9. SameButton(q, dp)
    BY <1>3, <2>3, <2>6 DEF SameButton
  <2> QED BY <2>6, <2>7, <2>8, <2>9 DEF Ended
<1>9. CASE /\ q.mode = WARNING /\ redraw
           /\ dp = tp /\ db = [body EXCEPT !.shown = q.stored] /\ dl = tl
  <2>1. PICK shown \in Body : /\ shown = [body EXCEPT !.shown = q.stored]
                             /\ shown.shown = q.stored
    <3>1. q.stored \in Seq(Messages)
      BY DEF Panel
    <3> QED BY <1>2, <3>1, ShownIs
  <2>2. dp = tp /\ db = shown /\ dl = tl
    BY <1>9, <2>1
  <2>3. Refreshed(tp, shown, tl)
    BY <1>2, <1>3, <1>4, <1>9, <2>1
       DEF Refreshed, PageInv, SameMode, SameWarnings, FATAL, PAGES, WARNING, STARTUP
  <2> QED BY <1>3, <2>2, <2>3 DEF Ended
<1>10. CASE /\ q.mode # FATAL /\ ~draws /\ ~(q.mode = WARNING /\ redraw)
            /\ dp = tp /\ db = body /\ dl = tl
  <2>1. dp = tp /\ db = body /\ dl = tl
    BY <1>10
  <2>2. tp.mode = q.mode /\ tp.page = q.page
    BY <1>3 DEF SameMode
  <2>3. PageInv(tp, body)
    <3>1. CASE redraw
      BY <1>2, <1>10, <1>11, <2>2, <3>1 DEF PageInv
    <3> QED BY <1>5, <3>1
  <2>4. tp.mode = WARNING => body.shown = tp.stored
    BY <1>1, <1>3, <1>10, <1>11, <1>13, <2>2 DEF WarningInv, SameWarnings
  <2> QED BY <1>2, <1>3, <1>4, <1>11, <2>1, <2>2, <2>3, <2>4 DEF Refreshed, Ended
<1> QED BY <1>7, <1>8, <1>9, <1>10, <1>12

LEMMA RefreshIs ==
  ASSUME PanelInv, NEW m \in {Unchanged, PAGES, WARNING, FATAL},
         panel.mode = STARTUP => m # Unchanged, NEW due \in BOOLEAN,
         NEW r \in Refreshes(m, due)
  PROVE  /\ PanelTrue(r.panel, r.screen) /\ r.panel.mode # STARTUP
         /\ SameLoop(panel, r.panel) /\ SameWarnings(panel, r.panel)
<1>1. /\ panel \in Panel /\ screen \in Screen /\ button \in BOOLEAN /\ time \in Nat
      /\ PanelTrue(panel, screen)
  BY DEF PanelInv, PanelKinds, PanelTrue
<1>2. PICK bad \in BOOLEAN, str \in Int \X Int :
        Strung(bad, str) /\ r = Refresh(m, due, bad, str)
  <2>1. PICK bad \in (IF time = 0 THEN {TRUE} ELSE BOOLEAN) :
          \E str \in Strings(bad) : r = Refresh(m, due, bad, str)
    BY DEF Refreshes
  <2>4. PICK str \in Strings(bad) : r = Refresh(m, due, bad, str)
    BY <2>1
  <2>2. bad \in BOOLEAN /\ (time = 0 => bad)
    BY <2>1
  <2>3. str \in Int \X Int /\ (~bad => str = Digits(time))
    BY <1>1, <2>4, <2>2, DigitsAre, PanelAssumption DEF Strings
  <2> QED BY <1>1, <2>4, <2>2, <2>3 DEF Strung
<1> DEFINE p == Debounced(panel)
           q == WithMode(p, m)
           redraw == q.mode # p.mode \/ q.page # p.page
           body == IF redraw THEN Empty ELSE screen.body
           t == TimeDrawn(q, screen.line, redraw, bad, str)
           s == Restarted(t.p, q.page, redraw)
           draws == q.mode = PAGES /\ q.page \in Readings /\ (due \/ redraw)
           done == CASE q.mode = FATAL -> [p |-> q, body |-> body, line |-> screen.line]
                     [] q.mode # FATAL /\ draws ->
                          [p |-> Advanced(s, q.page), body |-> DrawnLine(body, s), line |-> t.line]
                     [] q.mode = WARNING /\ redraw ->
                          [p |-> t.p, body |-> [body EXCEPT !.shown = q.stored], line |-> t.line]
                     [] OTHER -> [p |-> t.p, body |-> body, line |-> t.line]
           end == IF NewPress(panel) THEN Pressed(done.p) ELSE done.p
<1>14. r = [panel |-> end,
            screen |-> [body |-> done.body, line |-> done.line, lit |-> ~end.blanked]]
  BY <1>2, Zenon DEF Refresh
<1>13. end = IF NewPress(panel) THEN Pressed(done.p) ELSE done.p
  OBVIOUS
<1> HIDE DEF end
<1>23. draws => q.mode = PAGES
  OBVIOUS
<1>24. PAGES # FATAL /\ PAGES # WARNING /\ WARNING # FATAL
  BY DEF PAGES, WARNING, FATAL
<1>12. Ways(q, redraw, draws, body, t, done.p, done.body, done.line)
  <2>1. s = Restarted(t.p, q.page, redraw)
    OBVIOUS
  <2> HIDE DEF body, t, s, draws, redraw, q
  <2> QED BY <1>23, <1>24, <2>1 DEF Ways
<1> HIDE DEF done
<1>11. /\ draws \in BOOLEAN
       /\ draws = (q.mode = PAGES /\ q.page \in Readings /\ (due \/ redraw))
  OBVIOUS
<1>9. t = TimeDrawn(q, screen.line, redraw, bad, str)
  OBVIOUS
<1>8. body = IF redraw THEN Empty ELSE screen.body
  OBVIOUS
<1>6. redraw \in BOOLEAN /\ redraw = (q.mode # p.mode \/ q.page # p.page)
  OBVIOUS
<1> HIDE DEF draws, s, t, body, redraw
<1>3. /\ p \in Panel
      /\ SameMode(panel, p) /\ SameDrawing(panel, p) /\ SameWarnings(panel, p)
      /\ SameTime(panel, p) /\ SameLoop(panel, p)
      /\ p.wasPressed => p.blanked = panel.blanked
  BY <1>1, DebouncedIs
<1>25. p = Debounced(panel)
  OBVIOUS
<1> HIDE DEF p
<1>4. /\ q \in Panel /\ q.mode # STARTUP
      /\ SameDrawing(p, q) /\ SameWarnings(p, q) /\ SameTime(p, q)
      /\ SameLoop(p, q) /\ SameButton(p, q)
  <2>1. p.mode = STARTUP => m # Unchanged
    BY <1>3 DEF SameMode
  <2> QED BY <1>3, <2>1, WithModeIs
<1> HIDE DEF q
<1>5. SameDrawing(panel, q) /\ SameWarnings(panel, q) /\ SameTime(panel, q) /\ SameLoop(panel, q)
  BY <1>3, <1>4 DEF SameDrawing, SameWarnings, SameTime, SameLoop
<1>7. redraw = (q.mode # panel.mode \/ q.page # panel.page)
  BY <1>3, <1>6 DEF SameMode
<1>15. /\ Refreshed(done.p, done.body, done.line)
       /\ SameWarnings(q, done.p) /\ SameLoop(q, done.p) /\ SameButton(q, done.p)
  <2>1. Modal(q, redraw, draws, due)
    BY <1>4, <1>5, <1>7, <1>11, Zenon DEF Modal
  <2>2. Ways(q, redraw, draws, IF redraw THEN Empty ELSE screen.body,
             TimeDrawn(q, screen.line, redraw, bad, str), done.p, done.body, done.line)
    BY <1>8, <1>9, <1>12
  <2>3. Ended(q, done.p, done.body, done.line)
    BY <1>1, <1>2, <1>4, <1>6, <1>11, <2>1, <2>2, DoneIs, ZenonT(30)
  <2> QED BY <2>3 DEF Ended
<1>16. /\ end \in Panel /\ SameMode(done.p, end) /\ SameDrawing(done.p, end)
       /\ SameWarnings(done.p, end) /\ SameTime(done.p, end) /\ SameLoop(done.p, end)
       /\ end.wasPressed => ~end.blanked
  <2>1. done.p \in Panel
    BY <1>15 DEF Refreshed
  <2>2. CASE NewPress(panel)
    BY <1>13, <2>1, <2>2, PressedIs
  <2>3. CASE ~NewPress(panel)
    <3>1. end = done.p
      BY <1>13, <2>3
    <3>2. done.p.wasPressed = p.wasPressed /\ done.p.blanked = p.blanked
      BY <1>4, <1>15 DEF SameButton
    <3>3. p.wasPressed => ~p.blanked
      BY <1>1, <1>3, <1>25, <2>3 DEF NewPress, PanelTrue, ButtonInv
    <3> QED BY <2>1, <3>1, <3>2, <3>3
            DEF SameMode, SameDrawing, SameWarnings, SameTime, SameLoop
  <2> QED BY <2>2, <2>3
<1>17. r.panel = end /\ r.screen.body = done.body /\ r.screen.line = done.line
       /\ r.screen.lit = ~end.blanked /\ r.screen \in Screen
  <2>1. done.body \in Body /\ done.line \in TimeLine
    BY <1>15 DEF Refreshed
  <2> QED BY <1>14, <2>1 DEF Screen
<1>18. SameLoop(panel, end) /\ SameWarnings(panel, end)
  BY <1>5, <1>15, <1>16 DEF SameLoop, SameWarnings
<1>19. end.mode # STARTUP /\ PageInv(end, done.body)
  BY <1>15, <1>16 DEF Refreshed, PageInv, PageDrawn, SameMode, SameDrawing
<1>20. WarningInv(end, r.screen)
  <2>1. end.mode = WARNING => done.body.shown = end.stored
    BY <1>15, <1>16 DEF Refreshed, SameMode, SameWarnings
  <2> QED BY <1>1, <1>17, <1>18, <2>1 DEF WarningInv, PanelTrue, SameWarnings
<1>21. TimeInv(end, r.screen)
  <2>1. end.mode \in {PAGES, WARNING} => TimeTrue(end, done.line)
    BY <1>15, <1>16, TimeStays DEF Refreshed, SameMode
  <2> QED BY <1>17, <1>19, <2>1 DEF TimeInv
<1>22. ButtonInv(end, r.screen) /\ ResetInv(end)
  BY <1>1, <1>16, <1>17, <1>18 DEF ButtonInv, ResetInv, SameLoop, PanelTrue
<1> QED BY <1>16, <1>17, <1>18, <1>19, <1>20, <1>21, <1>22 DEF PanelTrue

----------------------------------------------------------------------------
(* Warnings.                                                               *)
LEMMA EmptiedIs ==
  ASSUME NEW p \in Panel, Len(p.stored) <= MaxMessages, NEW e, e = Emptied(p)
  PROVE  /\ e \in Panel /\ SameMode(p, e) /\ SameDrawing(p, e) /\ SameTime(p, e)
         /\ SameLoop(p, e) /\ SameButton(p, e)
         /\ Len(e.stored) < MaxMessages /\ (e.stored # <<>> => e.stored = p.stored)
<1>1. CASE Full(p)
  <2>1. <<>> \in Seq(Messages) /\ Len(<<>>) < MaxMessages
    BY PanelAssumption
  <2>2. PICK q \in Panel : q = [p EXCEPT !.stored = <<>>, !.bytes = 0, !.rows = 0]
    BY <2>1 DEF Panel
  <2>3. /\ SameMode(p, q) /\ SameDrawing(p, q) /\ SameTime(p, q)
        /\ SameLoop(p, q) /\ SameButton(p, q) /\ q.stored = <<>>
    BY <2>1, <2>2 DEF Panel, SameMode, SameDrawing, SameTime, SameLoop, SameButton
  <2>4. e = q
    BY <1>1, <2>2 DEF Emptied
  <2> QED BY <2>1, <2>3, <2>4
<1>2. CASE ~Full(p)
  <2>1. p.stored \in Seq(Messages)
    BY DEF Panel
  <2>2. Len(p.stored) \in Nat
    BY <2>1, LenProperties
  <2>3. Len(p.stored) < MaxMessages
    BY <1>2, <2>2, PanelAssumption DEF Full
  <2>4. e = p
    BY <1>2 DEF Emptied
  <2> QED BY <2>3, <2>4 DEF SameMode, SameDrawing, SameTime, SameLoop, SameButton
<1> QED BY <1>1, <1>2

LEMMA StoredIs ==
  ASSUME NEW e \in Panel, NEW m \in Messages, Len(e.stored) < MaxMessages,
         NEW p, p = Stored(e, m)
  PROVE  /\ p \in Panel /\ SameMode(e, p) /\ SameDrawing(e, p) /\ SameTime(e, p)
         /\ SameLoop(e, p) /\ SameButton(e, p)
         /\ p.stored = Append(e.stored, m) /\ Len(p.stored) <= MaxMessages
         /\ p.bytes <= cbufSize
<1>1. /\ e.stored \in Seq(Messages) /\ e.bytes \in Nat /\ e.rows \in Nat
      /\ m.bytes \in Nat /\ m.rows \in Nat
  BY PanelAssumption DEF Panel
<1>2. \A x, y \in Nat : Min({x, y}) \in Nat /\ Min({x, y}) <= x
  <2> SUFFICES ASSUME NEW x \in Nat, NEW y \in Nat PROVE Min({x, y}) \in Nat /\ Min({x, y}) <= x
    OBVIOUS
  <2> QED BY MinOfTwo
<1>3. /\ cbufSize \in Nat /\ WarningRows \in Nat
       /\ e.bytes + m.bytes \in Nat /\ e.rows + m.rows \in Nat
  <2>1. \A x, y \in Nat : x + y \in Nat
    OBVIOUS
  <2>2. cbufSize \in Nat /\ WarningRows \in Nat
    BY PanelAssumption
  <2> QED BY <1>1, <2>1, <2>2, Zenon
<1>4. PICK b \in Nat : b = Min({cbufSize, e.bytes + m.bytes}) /\ b <= cbufSize
  BY <1>2, <1>3, Zenon
<1>5. PICK w \in Nat : w = Min({WarningRows, e.rows + m.rows})
  BY <1>2, <1>3, Zenon
<1>6. PICK s \in Seq(Messages) : s = Append(e.stored, m) /\ Len(s) = Len(e.stored) + 1
  <2>1. m \in Messages /\ e.stored \in Seq(Messages)
    BY <1>1
  <2>2. Append(e.stored, m) \in Seq(Messages)
    BY <2>1, AppendProperties, Zenon
  <2>3. Len(Append(e.stored, m)) = Len(e.stored) + 1
    BY <2>1, AppendProperties, Zenon, SMTT(20)
  <2> QED BY <2>2, <2>3
<1>7. PICK q \in Panel : q = [e EXCEPT !.stored = s, !.bytes = b, !.rows = w]
  BY DEF Panel
<1>8. /\ SameMode(e, q) /\ SameDrawing(e, q) /\ SameTime(e, q) /\ SameLoop(e, q)
      /\ SameButton(e, q) /\ q.stored = s /\ q.bytes = b
  BY <1>7 DEF Panel, SameMode, SameDrawing, SameTime, SameLoop, SameButton
<1>9. Stored(e, m) = [e EXCEPT !.stored = s, !.bytes = b, !.rows = w]
  BY <1>4, <1>5, <1>6 DEF Stored
<1>10. Len(s) <= MaxMessages
  BY <1>1, <1>6, LenProperties, PanelAssumption
<1> QED BY <1>4, <1>6, <1>7, <1>8, <1>9, <1>10

LEMMA WarningKeeps ==
  ASSUME NEW r, PanelTrue(r.panel, r.screen), r.panel.mode # STARTUP,
         NEW m \in Messages, WithWarning(r, m)
  PROVE  PanelTrue(panel', screen') /\ SameLoop(r.panel, panel')
<1> DEFINE p == r.panel
           shown == r.screen.body.shown
<1>1. /\ p \in Panel /\ r.screen \in Screen /\ PageInv(p, r.screen.body)
      /\ WarningInv(p, r.screen) /\ TimeInv(p, r.screen) /\ ButtonInv(p, r.screen) /\ ResetInv(p)
  BY DEF PanelTrue
<1>2. PICK e : e = Emptied(p)
  OBVIOUS
<1>3. /\ e \in Panel /\ SameMode(p, e) /\ SameDrawing(p, e) /\ SameTime(p, e)
      /\ SameLoop(p, e) /\ SameButton(p, e)
      /\ Len(e.stored) < MaxMessages /\ (e.stored # <<>> => e.stored = p.stored)
  BY <1>1, <1>2, EmptiedIs DEF WarningInv
<1>4. PICK kept : kept = IF e.stored = <<>> THEN <<>> ELSE shown
  OBVIOUS
<1>5. panel' = Stored(e, m) /\ screen' = [r.screen EXCEPT !.body.shown = Append(kept, m)]
  BY <1>2, <1>4 DEF WithWarning
<1>6. /\ panel' \in Panel /\ SameMode(e, panel') /\ SameDrawing(e, panel') /\ SameTime(e, panel')
      /\ SameLoop(e, panel') /\ SameButton(e, panel')
      /\ panel'.stored = Append(e.stored, m) /\ Len(panel'.stored) <= MaxMessages
      /\ panel'.bytes <= cbufSize
  BY <1>3, <1>5, StoredIs
<1>7. kept \in Seq(Messages) /\ (p.mode = WARNING => kept = e.stored)
  <2>1. shown \in Seq(Messages) /\ <<>> \in Seq(Messages)
    BY <1>1 DEF Screen, Body
  <2>2. p.mode = WARNING => shown = p.stored
    BY <1>1 DEF WarningInv
  <2> QED BY <1>3, <1>4, <2>1, <2>2
<1>8. /\ screen' \in Screen /\ screen'.body.shown = Append(kept, m)
      /\ screen'.body.names = r.screen.body.names /\ screen'.body.values = r.screen.body.values
      /\ screen'.line = r.screen.line /\ screen'.lit = r.screen.lit
  <2>1. PICK s \in Seq(Messages) : s = Append(kept, m)
    BY <1>7, AppendProperties
  <2>2. PICK b \in Body : /\ b = [r.screen.body EXCEPT !.shown = s] /\ b.shown = s
                          /\ b.names = r.screen.body.names /\ b.values = r.screen.body.values
    <3>1. PICK o \in Body : o = r.screen.body
      BY <1>1 DEF Screen
    <3>2. /\ [o EXCEPT !.shown = s] \in Body /\ [o EXCEPT !.shown = s].shown = s
          /\ [o EXCEPT !.shown = s].names = o.names /\ [o EXCEPT !.shown = s].values = o.values
      BY ShownIs
    <3> QED BY <3>1, <3>2
  <2>3. screen' = [r.screen EXCEPT !.body = b]
    BY <1>1, <1>5, <2>1, <2>2 DEF Screen
  <2> QED BY <1>1, <2>1, <2>2, <2>3 DEF Screen
<1>9. SameMode(p, panel') /\ SameDrawing(p, panel') /\ SameTime(p, panel')
  BY <1>3, <1>6 DEF SameMode, SameDrawing, SameTime
<1>10. SameLoop(p, panel') /\ SameButton(p, panel')
  BY <1>3, <1>6 DEF SameLoop, SameButton
<1>11. PageInv(panel', screen'.body)
  BY <1>1, <1>8, <1>9 DEF PageInv, PageDrawn, SameMode, SameDrawing
<1>12. WarningInv(panel', screen')
  BY <1>6, <1>7, <1>8, <1>9 DEF WarningInv, SameMode
<1>13. TimeInv(panel', screen')
  BY <1>1, <1>8, <1>9 DEF TimeInv, TimeTrue, SameMode, SameTime
<1>14. ButtonInv(panel', screen') /\ ResetInv(panel')
  BY <1>1, <1>8, <1>10 DEF ButtonInv, ResetInv, SameButton, SameLoop
<1> QED BY <1>6, <1>8, <1>10, <1>11, <1>12, <1>13, <1>14 DEF PanelTrue

----------------------------------------------------------------------------
(* The operations of the panel.                                            *)
LEMMA UpdateKeeps ==
  ASSUME PanelInv, NEW due \in BOOLEAN, displayUpdate(due)
  PROVE  PanelTrue(panel', screen') /\ SameLoop(panel, panel')
<1>1. PICK r \in Refreshes(Unchanged, due) : panel' = r.panel /\ screen' = r.screen
  BY DEF displayUpdate
<1>2. panel.mode # STARTUP
  BY DEF displayUpdate, PanelInv, PanelTrue, TimeInv
<1> QED BY <1>1, <1>2, RefreshIs

LEMMA WarnKeeps ==
  ASSUME PanelInv, NEW m \in Messages, warn(m)
  PROVE  PanelTrue(panel', screen') /\ SameLoop(panel, panel')
<1>1. CASE panel.mode = WARNING
  <2>1. PICK r : r = [panel |-> panel, screen |-> screen]
    OBVIOUS
  <2>2. r.panel = panel /\ r.screen = screen /\ WithWarning(r, m)
    BY <1>1, <2>1 DEF warn
  <2>3. PanelTrue(r.panel, r.screen) /\ r.panel.mode # STARTUP
    BY <1>1, <2>2 DEF PanelInv, WARNING, STARTUP
  <2> QED BY <2>2, <2>3, WarningKeeps
<1>2. CASE panel.mode # WARNING
  <2>1. PICK r \in Refreshes(WARNING, FALSE) : WithWarning(r, m)
    BY <1>2 DEF warn
  <2>2. WARNING # Unchanged
    BY DEF WARNING, Unchanged
  <2>3. PanelTrue(r.panel, r.screen) /\ r.panel.mode # STARTUP /\ SameLoop(panel, r.panel)
    BY <2>2, RefreshIs
  <2>4. PanelTrue(panel', screen') /\ SameLoop(r.panel, panel')
    BY <2>1, <2>3, WarningKeeps
  <2> QED BY <2>3, <2>4 DEF SameLoop
<1> QED BY <1>1, <1>2

LEMMA StatusLineKeeps ==
  ASSUME PanelInv, displayShowStatusLine
  PROVE  PanelTrue(panel', screen') /\ SameLoop(panel, panel')
<1>1. PanelTrue(panel, screen) /\ panel \in Panel /\ screen \in Screen
  BY DEF PanelInv, PanelTrue
<1>2. panel' = [panel EXCEPT !.wiped = TRUE] /\ screen' = [screen EXCEPT !.line = <<Cell, Cell>>]
  BY DEF displayShowStatusLine
<1>3. <<Cell, Cell>> \in TimeLine
  BY DEF Cell, Blank, TimeLine
<1>4. /\ screen' \in Screen /\ screen'.body = screen.body /\ screen'.lit = screen.lit
  BY <1>1, <1>2, <1>3 DEF Screen
<1>5. /\ panel' \in Panel /\ SameMode(panel, panel') /\ SameDrawing(panel, panel')
      /\ SameWarnings(panel, panel') /\ SameLoop(panel, panel') /\ SameButton(panel, panel')
      /\ panel'.wiped /\ panel'.then = panel.then /\ panel'.wasBad = panel.wasBad
      /\ panel'.old = panel.old
  BY <1>1, <1>2 DEF Panel, SameMode, SameDrawing, SameWarnings, SameLoop, SameButton
<1>6. PageInv(panel', screen'.body)
  BY <1>1, <1>4, <1>5 DEF PanelTrue, PageInv, PageDrawn, SameMode, SameDrawing
<1>7. WarningInv(panel', screen')
  BY <1>1, <1>4, <1>5 DEF PanelTrue, WarningInv, SameMode, SameWarnings
<1>8. TimeInv(panel', screen')
  BY <1>1, <1>5 DEF PanelTrue, TimeInv, TimeTrue, SameMode, SameLoop
<1>9. ButtonInv(panel', screen') /\ ResetInv(panel')
  BY <1>1, <1>4, <1>5 DEF PanelTrue, ButtonInv, ResetInv, SameLoop, SameButton
<1> QED BY <1>4, <1>5, <1>6, <1>7, <1>8, <1>9 DEF PanelTrue

LEMMA BeginKeeps ==
  ASSUME PanelInv, NEW m \in {Unchanged, PAGES, FATAL}, panel.mode = STARTUP => m # Unchanged,
         Begin(m)
  PROVE  PanelTrue(panel', screen') /\ panel'.started
<1>1. PICK r \in Refreshes(m, FALSE) :
        panel' = [r.panel EXCEPT !.started = TRUE] /\ screen' = r.screen
  BY DEF Begin
<1>2. PanelTrue(r.panel, r.screen) /\ r.panel.mode # STARTUP /\ r.panel \in Panel
  <2>1. PanelTrue(r.panel, r.screen) /\ r.panel.mode # STARTUP
    BY RefreshIs
  <2> QED BY <2>1 DEF PanelTrue
<1>3. /\ panel' \in Panel /\ panel'.started /\ SameMode(r.panel, panel')
      /\ SameDrawing(r.panel, panel') /\ SameWarnings(r.panel, panel')
      /\ SameTime(r.panel, panel') /\ SameButton(r.panel, panel')
      /\ panel'.resetWasPushed = r.panel.resetWasPushed
      /\ panel'.pushed = r.panel.pushed /\ panel'.released = r.panel.released
  BY <1>1, <1>2 DEF Panel, SameMode, SameDrawing, SameWarnings, SameTime, SameButton
<1>4. PageInv(panel', screen'.body)
  BY <1>1, <1>2, <1>3 DEF PanelTrue, PageInv, PageDrawn, SameMode, SameDrawing
<1>5. WarningInv(panel', screen')
  BY <1>1, <1>2, <1>3 DEF PanelTrue, WarningInv, SameMode, SameWarnings
<1>6. TimeInv(panel', screen')
  BY <1>1, <1>2, <1>3 DEF PanelTrue, TimeInv, TimeTrue, SameMode, SameTime
<1>7. ButtonInv(panel', screen') /\ ResetInv(panel')
  BY <1>1, <1>2, <1>3 DEF PanelTrue, ButtonInv, ResetInv, SameButton
<1> QED BY <1>1, <1>2, <1>3, <1>4, <1>5, <1>6, <1>7 DEF PanelTrue

LEMMA AtBootIs == PanelTrue(PanelAtBoot, ScreenAtBoot)
<1>1. <<>> \in Seq(Messages) /\ Len(<<>>) = 0 /\ <<Blank, Blank>> \in Int \X Int
  BY DEF Blank
<1>2. PanelAtBoot \in Panel
  BY <1>1 DEF PanelAtBoot, Panel, Bouncing, STARTUP, FATAL, pageFirst, pageLast, WasPushed
<1>3. ScreenAtBoot \in Screen
  BY <1>1 DEF ScreenAtBoot, Screen, Body, Empty, TimeLine, Cell, Blank
<1>4. PageInv(PanelAtBoot, ScreenAtBoot.body)
  BY DEF PageInv, PanelAtBoot, STARTUP, PAGES
<1>5. WarningInv(PanelAtBoot, ScreenAtBoot)
  BY <1>1, PanelAssumption DEF WarningInv, PanelAtBoot, STARTUP, WARNING
<1>6. TimeInv(PanelAtBoot, ScreenAtBoot)
  BY DEF TimeInv, PanelAtBoot, STARTUP, PAGES, WARNING
<1>7. ButtonInv(PanelAtBoot, ScreenAtBoot) /\ ResetInv(PanelAtBoot)
  BY DEF ButtonInv, ResetInv, PanelAtBoot, ScreenAtBoot, WasPushed
<1> QED BY <1>2, <1>3, <1>4, <1>5, <1>6, <1>7 DEF PanelTrue

LEMMA ResetKeeps ==
  ASSUME PanelInv, checkForReset
  PROVE  /\ PanelTrue(panel', screen')
         /\ panel'.started \/ panel.released
<1>1. PanelTrue(panel, screen) /\ panel \in Panel /\ screen \in Screen /\ swtch \in BOOLEAN
  BY DEF PanelInv, PanelTrue, PanelKinds
<1>2. CASE PushIsLong /\ resetFPGA
  <2>1. panel' = PanelAtBoot /\ screen' = ScreenAtBoot /\ panel.pushed
    BY <1>2 DEF resetFPGA, PushIsLong
  <2> QED BY <1>1, <2>1, AtBootIs DEF PanelTrue, ResetInv
<1>3. CASE /\ screen' = screen
           /\ panel' = [panel EXCEPT !.resetWasPushed = swtch, !.released = @ \/ ~swtch,
                                     !.pushed = @ \/ NewPush, !.pushAge = IF NewPush THEN 0 ELSE @]
  <2>1. PICK released \in BOOLEAN : released = (panel.released \/ ~swtch)
    OBVIOUS
  <2>2. PICK pushed \in BOOLEAN : pushed = (panel.pushed \/ NewPush)
    OBVIOUS
  <2>3. PICK a \in Nat : a = IF NewPush THEN 0 ELSE panel.pushAge
    BY <1>1 DEF Panel
  <2>4. PICK was \in BOOLEAN : was = swtch
    BY <1>1
  <2>5. panel' = [panel EXCEPT !.resetWasPushed = was, !.released = released,
                               !.pushed = pushed, !.pushAge = a]
    BY <1>3, <2>1, <2>2, <2>3, <2>4
  <2>6. PICK o \in Panel : o = [panel EXCEPT !.resetWasPushed = was, !.released = released]
    BY <1>1, ZenonT(30) DEF Panel
  <2>7. PICK q \in Panel : q = [panel EXCEPT !.resetWasPushed = was, !.released = released,
                                              !.pushed = pushed, !.pushAge = a]
    <3>1. [o EXCEPT !.pushed = pushed, !.pushAge = a] \in Panel
      BY DEF Panel
    <3>2. [o EXCEPT !.pushed = pushed, !.pushAge = a] =
            [panel EXCEPT !.resetWasPushed = was, !.released = released,
                          !.pushed = pushed, !.pushAge = a]
      BY <1>1, <2>6 DEF Panel
    <3> QED BY <3>1, <3>2
  <2>8. /\ SameMode(panel, q) /\ SameDrawing(panel, q) /\ SameWarnings(panel, q)
         /\ SameTime(panel, q) /\ SameButton(panel, q)
    BY <1>1, <2>7 DEF Panel, SameMode, SameDrawing, SameWarnings, SameTime, SameButton
  <2>9. /\ q.started = panel.started /\ q.resetWasPushed = was
         /\ q.released = released /\ q.pushed = pushed
    BY <1>1, <2>7 DEF Panel
  <2>10. /\ panel' \in Panel /\ SameMode(panel, panel') /\ SameDrawing(panel, panel')
        /\ SameWarnings(panel, panel') /\ SameTime(panel, panel') /\ SameButton(panel, panel')
        /\ panel'.started = panel.started /\ panel'.resetWasPushed = swtch
        /\ panel'.released = released /\ panel'.pushed = pushed
    BY <2>5, <2>4, <2>7, <2>8, <2>9
  <2>11. PageInv(panel', screen'.body)
    BY <1>1, <1>3, <2>10 DEF PanelTrue, PageInv, PageDrawn, SameMode, SameDrawing
  <2>12. WarningInv(panel', screen')
    BY <1>1, <1>3, <2>10 DEF PanelTrue, WarningInv, SameMode, SameWarnings
  <2>13. TimeInv(panel', screen')
    BY <1>1, <1>3, <2>10 DEF PanelTrue, TimeInv, TimeTrue, SameMode, SameTime
  <2>14. ButtonInv(panel', screen')
    BY <1>1, <1>3, <2>10 DEF PanelTrue, ButtonInv, SameButton
  <2>15. ResetInv(panel')
    BY <1>1, <2>1, <2>2, <2>10 DEF PanelTrue, ResetInv, NewPush, Panel
  <2>16. panel'.started
    BY <2>10 DEF checkForReset
  <2> QED BY <1>1, <1>3, <2>10, <2>11, <2>12, <2>13, <2>14, <2>15, <2>16 DEF PanelTrue
<1> QED BY <1>2, <1>3 DEF checkForReset

LEMMA AgeKeeps ==
  ASSUME PanelInv, World
  PROVE  PanelTrue(panel', screen') /\ SameLoop(panel, panel')
<1>1. PanelTrue(panel, screen) /\ panel \in Panel /\ screen \in Screen
  BY DEF PanelInv, PanelTrue
<1>2. CASE panel' = panel /\ screen' = screen
  BY <1>1, <1>2 DEF SameLoop
<1>3. CASE screen' = screen /\ panel' = [panel EXCEPT !.age = Min({@ + 1, Idle1200}), !.pushAge = 1]
  <2>1. PICK a \in Nat : a = Min({panel.age + 1, Idle1200})
    <3>1. panel.age + 1 \in Nat /\ Idle1200 \in Nat
      BY <1>1, SMTT(20) DEF Panel, Idle1200
    <3>2. Min({panel.age + 1, Idle1200}) \in Nat
      BY <3>1, MinOfTwo
    <3> QED BY <3>2
  <2>2. panel' = [panel EXCEPT !.age = a, !.pushAge = 1]
    BY <1>3, <2>1
  <2>3. /\ panel' \in Panel /\ SameMode(panel, panel') /\ SameDrawing(panel, panel')
        /\ SameWarnings(panel, panel') /\ SameTime(panel, panel') /\ SameLoop(panel, panel')
        /\ SameButton(panel, panel')
    BY <1>1, <2>2, ZenonT(30) DEF Panel, SameMode, SameDrawing, SameWarnings, SameTime, SameLoop, SameButton
  <2>4. PageInv(panel', screen'.body)
    BY <1>1, <1>3, <2>3 DEF PanelTrue, PageInv, PageDrawn, SameMode, SameDrawing
  <2>5. WarningInv(panel', screen')
    BY <1>1, <1>3, <2>3 DEF PanelTrue, WarningInv, SameMode, SameWarnings
  <2>6. TimeInv(panel', screen')
    BY <1>1, <1>3, <2>3 DEF PanelTrue, TimeInv, TimeTrue, SameMode, SameTime, SameLoop
  <2>7. ButtonInv(panel', screen') /\ ResetInv(panel')
    BY <1>1, <1>3, <2>3 DEF PanelTrue, ButtonInv, ResetInv, SameButton, SameLoop
  <2> QED BY <1>1, <1>3, <2>3, <2>4, <2>5, <2>6, <2>7 DEF PanelTrue
<1> QED BY <1>2, <1>3 DEF World

(* A step keeps the invariant, and unless the panel was at a fatal message *)
(* it ends the main loop only when the switch had been let go.             *)
LEMMA PanelStep ==
  ASSUME PanelInv, [PanelNext]_panelVars
  PROVE  /\ PanelInv'
         /\ panel.started /\ ~panel'.started /\ panel.mode # FATAL => panel.released
<1>1. button \in BOOLEAN /\ swtch \in BOOLEAN /\ time \in Nat
  BY DEF PanelInv, PanelKinds
<1> DEFINE Kept == button' \in BOOLEAN /\ swtch' \in BOOLEAN /\ time' \in Nat
           Stays == panel.started /\ ~panel'.started /\ panel.mode # FATAL => panel.released
           Goal == Kept /\ PanelTrue(panel', screen') /\ Stays
<1>2. ASSUME UNCHANGED <<button, swtch, time>> PROVE Kept
  BY <1>1, <1>2
<1>3. ASSUME NEW due \in BOOLEAN, displayUpdate(due) PROVE Goal
  BY <1>2, <1>3, UpdateKeeps DEF SameLoop, displayUpdate
<1>4. ASSUME NEW m \in Messages, warn(m) PROVE Goal
  BY <1>2, <1>4, WarnKeeps DEF SameLoop, warn
<1>5. ASSUME displayShowStatusLine PROVE Goal
  BY <1>2, <1>5, StatusLineKeeps DEF SameLoop, displayShowStatusLine
<1>6. ASSUME BeginLoop PROVE Goal
  <2>1. PICK m \in {Unchanged, PAGES, FATAL} :
          m = (IF panel.mode = STARTUP THEN PAGES ELSE Unchanged)
    OBVIOUS
  <2>2. Begin(m) /\ (panel.mode = STARTUP => m # Unchanged)
    BY <1>6, <2>1 DEF PAGES, Unchanged, BeginLoop
  <2>3. UNCHANGED <<button, swtch, time>>
    BY <2>2 DEF Begin
  <2> QED BY <1>2, <2>2, <2>3, BeginKeeps
<1>7. ASSUME displayShowFatal PROVE Goal
  <2>1. FATAL # Unchanged /\ Begin(FATAL)
    BY <1>7 DEF FATAL, Unchanged, displayShowFatal
  <2>2. UNCHANGED <<button, swtch, time>>
    BY <2>1 DEF Begin
  <2> QED BY <1>2, <2>1, <2>2, BeginKeeps
<1>8. ASSUME checkForReset PROVE Goal
  <2>1. button' = button /\ swtch' = swtch /\ (time' = time \/ time' = 0)
    BY <1>8 DEF checkForReset, resetFPGA
  <2> QED BY <1>1, <1>8, <2>1, ResetKeeps
<1>9. ASSUME FatalTimesOut PROVE Goal
  <2>1. /\ button' = button /\ swtch' = swtch /\ time' = 0 /\ panel.mode = FATAL
        /\ panel' = PanelAtBoot /\ screen' = ScreenAtBoot
    BY <1>9 DEF FatalTimesOut, resetFPGA
  <2> QED BY <1>1, <2>1, AtBootIs
<1>10. ASSUME World PROVE Goal
  <2>1. button' \in {button, ~button} /\ swtch' \in {swtch, ~swtch} /\ time' \in {time, time + 1}
    BY <1>10 DEF World
  <2>2. Kept
    <3>1. time + 1 \in Nat
      BY <1>1
    <3>2. time' \in Nat
      BY <1>1, <2>1, <3>1
    <3>3. button' \in BOOLEAN /\ swtch' \in BOOLEAN
      BY <1>1, <2>1
    <3> QED BY <3>2, <3>3
  <2> QED BY <1>10, <2>2, AgeKeeps DEF SameLoop
<1>11. ASSUME UNCHANGED panelVars PROVE Goal
  BY <1>2, <1>11 DEF panelVars, PanelInv
<1>12. Goal
  BY <1>3, <1>4, <1>5, <1>6, <1>7, <1>8, <1>9, <1>10, <1>11 DEF PanelNext
<1> QED BY <1>12 DEF PanelInv, PanelKinds, PanelTrue

LEMMA PanelStart == PanelInit => PanelInv
<1> SUFFICES ASSUME PanelInit PROVE PanelInv
  OBVIOUS
<1>1. button = FALSE /\ swtch \in BOOLEAN /\ time = 0 /\ panel = PanelAtBoot /\ screen = ScreenAtBoot
  BY DEF PanelInit
<1>2. PanelTrue(panel, screen)
  BY <1>1, AtBootIs
<1>3. PanelKinds
  BY <1>1, <1>2 DEF PanelKinds, PanelTrue
<1> QED BY <1>2, <1>3 DEF PanelInv

LEMMA LinesAreItsOwn ==
  ASSUME NEW page, NEW n, NEW l \in LinesUpTo(page, n)
  PROVE  l.item = FirstItem[page] + l.row
BY DEF LinesUpTo

(* Whatever is asked of the front panel in any order, a page shows its own *)
(* readings beside their names, the warnings on the screen are those that  *)
(* were given, a time is one time in one colour, and a press that was      *)
(* noticed has lit the screen (displayRefresh, displayShowWarning, drawTime*)
(* of display.c and sysmonDraw of sysmon.c).                               *)
THEOREM PanelIsTrue == PanelSpec => []ScreenIsTrue
<1>1. PanelInv => ScreenIsTrue
  <2> SUFFICES ASSUME PanelInv PROVE ScreenIsTrue
    OBVIOUS
  <2>1. /\ panel \in Panel /\ screen \in Screen /\ PageInv(panel, screen.body)
        /\ WarningInv(panel, screen) /\ TimeInv(panel, screen) /\ ButtonInv(panel, screen)
    BY DEF PanelInv, PanelTrue
  <2>2. ASSUME panel.mode = PAGES, panel.page \in Readings, NEW n \in screen.body.names
        PROVE  n.item = FirstItem[panel.page] + n.row
    BY <2>1, <2>2, LinesAreItsOwn DEF PageInv, PageDrawn
  <2>3. ASSUME panel.mode = PAGES, panel.page \in Readings
        PROVE  screen.body.values \subseteq screen.body.names
    BY <2>1, <2>3 DEF PageInv, PageDrawn
  <2>4. PageIsItsOwn
    BY <2>1, <2>2, <2>3 DEF PageIsItsOwn, PageInv
  <2>5. WarningsAreKept
    BY <2>1 DEF WarningsAreKept, WarningInv
  <2>6. TimeIsWhole
    <3>1. panel.mode = STARTUP => panel.then = -1
      BY <2>1 DEF TimeInv
    <3>2. panel.mode # FATAL /\ panel.mode # STARTUP => panel.mode \in {PAGES, WARNING}
      BY <2>1 DEF Panel, STARTUP, PAGES, WARNING, FATAL
    <3> QED BY <2>1, <3>1, <3>2 DEF TimeIsWhole, TimeInv, TimeTrue, White
  <2>7. PressLights
    BY <2>1 DEF PressLights, ButtonInv
  <2> QED BY <2>4, <2>5, <2>6, <2>7 DEF ScreenIsTrue
<1> QED BY <1>1, PanelStart, PanelStep, PTL DEF PanelSpec

(* A board that was switched on with the recovery switch held is not       *)
(* restarted by it until it has been let go (checkForReset of util.c).     *)
THEOREM RecoveryIsHeld == PanelSpec => RecoveryHolds
<1>1. PanelInv /\ [PanelNext]_panelVars =>
        [panel.started /\ ~panel'.started /\ panel.mode # FATAL => panel.released]_panelVars
  BY PanelStep
<1> QED BY <1>1, PanelStart, PanelStep, PTL DEF PanelSpec, RecoveryHolds

LEMMA PanelIs == PanelInv => PanelTypeOK
<1> SUFFICES ASSUME PanelInv PROVE PanelTypeOK
  OBVIOUS
<1>1. panel \in Panel /\ WarningInv(panel, screen)
  BY DEF PanelInv, PanelTrue
<1> QED BY <1>1 DEF PanelTypeOK, WarningInv, Panel

(* What the panel keeps of the warnings fits and the pages are pages that  *)
(* there are, whatever is asked of it and in any order.                    *)
THEOREM PanelHolds == PanelSpec => []PanelTypeOK
<1> QED BY PanelIs, PanelStart, PanelStep, PTL DEF PanelSpec

----------------------------------------------------------------------------
(* The recorder, the readout and the panel together, as MCDigitizer runs   *)
(* them: each part steps by itself, or stays.                              *)
LEMMA UsedIsStep == ASSUME PanelInFocus PROVE PanelNext
BY DEF PanelInFocus, PanelNext

LEMMA PartsStep ==
  ASSUME [MCNext]_digitizerVars
  PROVE  [Next]_vars /\ [PanelNext]_panelVars
<1>1. CASE focus = "recorder" /\ Next /\ UNCHANGED <<ro, panelVars, focus>>
  BY <1>1
<1>2. CASE focus = "readout" /\ ReadoutNext /\ UNCHANGED <<vars, panelVars, focus>>
  BY <1>2
<1>3. ASSUME NEW parts, Used(parts) PROVE UNCHANGED vars /\ PanelNext
  BY <1>3, UsedIsStep DEF Used
<1>4. CASE UNCHANGED digitizerVars
  BY <1>4 DEF digitizerVars
<1>5. CASE \/ focus = "pages" /\ Used(<<swtch, time>>)
           \/ focus = "clock" /\ Used(<<button, swtch>>)
           \/ focus = "switch" /\ Used(<<button, time>>)
  <2>1. UNCHANGED vars /\ PanelNext
    BY <1>5, UsedIsStep DEF Used
  <2> QED BY <2>1
<1> QED BY <1>1, <1>2, <1>4, <1>5 DEF MCNext

(* The recorder's registers and what the panel keeps stay of their kinds   *)
(* and sizes, in the system that the run checks, for instances of any size.*)
THEOREM KindsAndSizes == MCSpec => []DigitizerTypeOK
<1>1. MCInit => Typed /\ PanelInv
  <2> SUFFICES ASSUME MCInit PROVE Typed /\ PanelInv
    OBVIOUS
  <2> QED BY InitTyped, PanelStart DEF MCInit
<1>2. Typed /\ PanelInv /\ [MCNext]_digitizerVars => (Typed /\ PanelInv)'
  <2> SUFFICES ASSUME Typed, PanelInv, [MCNext]_digitizerVars PROVE Typed' /\ PanelInv'
    OBVIOUS
  <2> QED BY PartsStep, StepTyped, PanelStep
<1>3. Typed /\ PanelInv => DigitizerTypeOK
  BY TypedIs, PanelIs DEF DigitizerTypeOK
<1> QED BY <1>1, <1>2, <1>3, PTL DEF MCSpec
============================================================================
