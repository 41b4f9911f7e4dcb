---------------------------- MODULE IicBusProofs ----------------------------
(***************************************************************************)
(* What the I2C and clock buses guarantee, for any devices, supplies and   *)
(* controllers, any tables of the clocks, any offset, and however many     *)
(* transfers fail: an access reaches its device and its page, the status   *)
(* pin shows the lock of the chip that is selected, and offsets of the     *)
(* reference clock are from the factory setting and do not add up.         *)
(***************************************************************************)
EXTENDS IicBus, SequenceTheorems, WellFoundedInduction, TLAPS

PortKind == 0 .. 15 \cup {NoPort}
Configs == Tables \cup {"default"}
(* Register 0 of a table: with the readback or the lock detector on the pin. *)
Raw(cfg) == R0(cfg, FALSE)
Shown(cfg) == R0(cfg, TRUE)
RegKind == [cfg : Configs \cup {"none", "reset", "stray", "elsewhere"}, ld : BOOLEAN]
ReplyKind == [chip : 0 .. 3, r0 : RegKind]
BusState ==
  [target : Targets, port : [Mux -> PortKind], cache : [Mux -> PortKind \cup {UnknownPort}],
   page : [Irps -> Pages \cup {0}], pageCache : [Irps -> 0 .. 3 \cup {NoPage}],
   miso : 0 .. 3, selected : 0 .. NoChip,
   r0 : [Chips -> RegKind], init : [Chips -> RegKind],
   clk : [ppm : Ppm, frozen : BOOLEAN], got : Ppm, reply : ReplyKind,
   strayed : BOOLEAN, offPage : BOOLEAN, misread : BOOLEAN, asked : Configs, faults : Nat]

(* Parts of the state.                                                     *)
Wires(s) == <<s.port, s.cache>>
Asking(s) == <<s.target, s.asked>>
Lines(s) == <<s.target, s.miso, s.selected, s.asked, s.misread>>
Registers(s) == <<s.r0, s.init>>
Paging(s) == <<s.page, s.pageCache, s.offPage>>
Oscillator(s) == <<s.clk, s.got>>

(* What is remembered of the multiplexers is so, or is known not to be     *)
(* known.  A boot takes the first one to be closed.                        *)
Wired(s) ==
  /\ s.cache[0] \in {s.port[0], NoPort, UnknownPort}
  /\ s.cache[1] \in {s.port[1], UnknownPort} /\ s.cache[2] \in {s.port[2], UnknownPort}
Sane(s) == s \in BusState /\ Wired(s) /\ s.strayed = FALSE

(* An outcome that leads from s to a sane state: it is a success, or a     *)
(* transfer has failed.                                                    *)
From(s, o) ==
  /\ Sane(o.s) /\ o.s.faults <= s.faults
  /\ o.ok = TRUE \/ (o.ok = FALSE /\ o.s.faults # s.faults)

(* A transfer succeeds or, with a fault, is heard or not.                  *)
LEMMA BusSend ==
  ASSUME NEW s, NEW t, NEW o \in Send(s, t)
  PROVE  \/ o = [s |-> t, ok |-> TRUE]
         \/ s.faults > 0 /\ \E x \in {s, t} : o = [s |-> Failing(x), ok |-> FALSE]
BY DEF Send

(* A fault changes nothing but the number of faults.                       *)
LEMMA BusFailing ==
  ASSUME NEW s \in BusState, s.faults > 0, NEW t, t = Failing(s)
  PROVE  /\ t \in BusState /\ t.faults = s.faults - 1
         /\ Wires(t) = Wires(s) /\ Lines(t) = Lines(s) /\ Registers(t) = Registers(s)
         /\ Paging(t) = Paging(s) /\ Oscillator(t) = Oscillator(s)
         /\ t.reply = s.reply /\ t.strayed = s.strayed
<1>1. t = [s EXCEPT !.faults = s.faults - 1]
  BY DEF Failing
<1>2. s.faults - 1 \in Nat
  BY DEF BusState
<1> QED BY <1>1, <1>2 DEF BusState, Wires, Lines, Registers, Paging, Oscillator

(* An outcome is a record of these two fields.                             *)
Shaped(o) == o = [s |-> o.s, ok |-> o.ok]

LEMMA SendShaped ==
  ASSUME NEW s, NEW t, NEW o \in Send(s, t)
  PROVE  Shaped(o)
BY DEF Send, Shaped

LEMMA MessageShaped ==
  ASSUME NEW s, NEW d, NEW t, NEW o \in Message(s, d, t)
  PROVE  Shaped(o)
BY SendShaped DEF Message

LEMMA SetMuxShaped ==
  ASSUME NEW s, NEW d, NEW o \in setMux(s, d)
  PROVE  Shaped(o)
<1>1. ASSUME NEW t, NEW q \in Done(t) PROVE Shaped(q)
  BY <1>1 DEF Done, Shaped
<1>2. ASSUME NEW t, NEW m, NEW p, NEW q \in Select(t, m, p) PROVE Shaped(q)
  <2>1. PICK y \in Send(t, [t EXCEPT !.port[m] = p]) : q = [y EXCEPT !.s.cache[m] = Remember(p, y.ok)]
    BY <1>2 DEF Select
  <2>2. Shaped(y)
    BY <2>1, SendShaped
  <2> QED BY <2>1, <2>2 DEF Shaped
<1> QED BY <1>1, <1>2 DEF setMux, Then

(* A multiplexer is set: it and what is remembered of it change, nothing   *)
(* else does.                                                              *)
Rewired(s, t) ==
  /\ t \in BusState /\ t.faults <= s.faults /\ t.strayed = s.strayed /\ t.reply = s.reply
  /\ Lines(t) = Lines(s) /\ Registers(t) = Registers(s)
  /\ Paging(t) = Paging(s) /\ Oscillator(t) = Oscillator(s)

SelectedTo(s, m, p, o) ==
  /\ Rewired(s, o.s)
  /\ \/ o.ok = TRUE /\ o.s.port[m] = p /\ o.s.cache[m] = p
     \/ o.ok = FALSE /\ o.s.cache[m] = UnknownPort /\ o.s.faults # s.faults
  /\ \A x \in Mux \ {m} : o.s.port[x] = s.port[x] /\ o.s.cache[x] = s.cache[x]

(* Select: on success the port is as wanted and remembered, on failure it  *)
(* is remembered as unknown, whether the multiplexer heard or not.         *)
LEMMA Selected ==
  ASSUME NEW s \in BusState, NEW m \in Mux, NEW p \in PortKind, NEW o \in Select(s, m, p)
  PROVE  SelectedTo(s, m, p, o)
<1>1. PICK t : t = [s EXCEPT !.port[m] = p]
  OBVIOUS
<1>2. t \in BusState
  BY <1>1 DEF BusState
<1>3. /\ t.port = [s.port EXCEPT ![m] = p] /\ t.cache = s.cache /\ t.faults = s.faults
      /\ t.strayed = s.strayed /\ t.reply = s.reply
      /\ Lines(t) = Lines(s) /\ Registers(t) = Registers(s)
      /\ Paging(t) = Paging(s) /\ Oscillator(t) = Oscillator(s)
  BY <1>1 DEF BusState, Lines, Registers, Paging, Oscillator
<1>4. PICK q \in Send(s, t) : o = [q EXCEPT !.s.cache[m] = Remember(p, q.ok)]
  BY <1>1 DEF Select
<1>5. Remember(p, TRUE) = p /\ Remember(p, FALSE) = UnknownPort
  BY DEF Remember
<1>6. CASE q = [s |-> t, ok |-> TRUE]
  <2>1. o.ok = TRUE /\ o.s = [t EXCEPT !.cache[m] = p]
    BY <1>4, <1>5, <1>6
  <2>2. PICK u : u = o.s
    OBVIOUS
  <2>3. u \in BusState
    BY <1>2, <2>1, <2>2, SMTT(30) DEF BusState
  <2>4. /\ u.cache = [t.cache EXCEPT ![m] = p] /\ u.port = t.port /\ u.faults = t.faults
        /\ u.strayed = t.strayed /\ u.reply = t.reply
        /\ Lines(u) = Lines(t) /\ Registers(u) = Registers(t)
        /\ Paging(u) = Paging(t) /\ Oscillator(u) = Oscillator(t)
    BY <1>2, <2>1, <2>2 DEF BusState, Lines, Registers, Paging, Oscillator
  <2>5. s.port \in [Mux -> PortKind] /\ s.cache \in [Mux -> PortKind \cup {UnknownPort}] /\ s.faults \in Nat
    BY DEF BusState
  <2>6. Rewired(s, u)
    BY <1>3, <2>3, <2>4, <2>5 DEF Rewired
  <2>7. /\ u.port[m] = p /\ u.cache[m] = p
        /\ \A y \in Mux \ {m} : u.port[y] = s.port[y] /\ u.cache[y] = s.cache[y]
    BY <1>3, <2>4, <2>5
  <2> QED BY <2>1, <2>2, <2>6, <2>7 DEF SelectedTo
<1>7. CASE s.faults > 0 /\ \E x \in {s, t} : q = [s |-> Failing(x), ok |-> FALSE]
  <2>1. PICK x \in {s, t} : q = [s |-> Failing(x), ok |-> FALSE]
    BY <1>7
  <2>2. PICK f : f = Failing(x)
    OBVIOUS
  <2>3. x \in BusState /\ x.faults = s.faults /\ x.faults > 0
    BY <1>2, <1>3, <1>7, <2>1
  <2>4. /\ f \in BusState /\ f.faults = x.faults - 1 /\ Wires(f) = Wires(x)
        /\ Lines(f) = Lines(x) /\ Registers(f) = Registers(x)
        /\ Paging(f) = Paging(x) /\ Oscillator(f) = Oscillator(x)
        /\ f.reply = x.reply /\ f.strayed = x.strayed
    BY <2>2, <2>3, BusFailing
  <2>5. o.ok = FALSE /\ o.s = [f EXCEPT !.cache[m] = UnknownPort]
    BY <1>4, <1>5, <2>1, <2>2
  <2>6. PICK u : u = o.s
    OBVIOUS
  <2>7. u \in BusState
    BY <2>4, <2>5, <2>6, SMTT(30) DEF BusState
  <2>8. /\ u.cache = [f.cache EXCEPT ![m] = UnknownPort] /\ u.port = f.port /\ u.faults = f.faults
        /\ u.strayed = f.strayed /\ u.reply = f.reply
        /\ Lines(u) = Lines(f) /\ Registers(u) = Registers(f)
        /\ Paging(u) = Paging(f) /\ Oscillator(u) = Oscillator(f)
    BY <2>4, <2>5, <2>6 DEF BusState, Lines, Registers, Paging, Oscillator
  <2>9. s.port \in [Mux -> PortKind] /\ s.cache \in [Mux -> PortKind \cup {UnknownPort}] /\ s.faults \in Nat
    BY DEF BusState
  <2>10. /\ \A y \in Mux \ {m} : x.port[y] = s.port[y] /\ x.cache[y] = s.cache[y]
         /\ x.cache \in [Mux -> PortKind \cup {UnknownPort}]
    BY <1>3, <2>1, <2>9
  <2>11. Rewired(s, u)
    BY <1>3, <2>1, <2>3, <2>4, <2>7, <2>8, <2>9 DEF Rewired
  <2>12. f.port = x.port /\ f.cache = x.cache
    BY <2>4 DEF Wires
  <2>13. /\ u.faults # s.faults /\ u.cache[m] = UnknownPort
         /\ \A y \in Mux \ {m} : u.port[y] = s.port[y] /\ u.cache[y] = s.cache[y]
    BY <2>3, <2>4, <2>8, <2>9, <2>10, <2>12
  <2> QED BY <2>5, <2>6, <2>11, <2>13 DEF SelectedTo
<1>8. q = [s |-> t, ok |-> TRUE] \/ (s.faults > 0 /\ \E x \in {s, t} : q = [s |-> Failing(x), ok |-> FALSE])
  BY <1>4, BusSend
<1> QED BY <1>6, <1>7, <1>8

(* Who else might hear a message: a device with the same address is behind *)
(* another port.                                                           *)
Alone(s, d) == Hearers(s, d) = {d}

(* A device behind the one open port of its controller shares its address  *)
(* with none that is connected.                                            *)
LEMMA AloneWhenSelected ==
  ASSUME NEW s \in BusState, NEW d \in DOMAIN Device,
         Device[d].ctl = 0 /\ Device[d].port # NoPort => s.port[0] = Device[d].port,
         Device[d].ctl = 1 => s.port[MuxOf(d)] = Device[d].port /\ s.port[3 - MuxOf(d)] = NoPort
  PROVE  Alone(s, d)
<1>1. Connected(s, d)
  BY BusAssumption DEF Connected, MuxOf
<1>2. ASSUME NEW e \in Hearers(s, d), e # d PROVE FALSE
  <2>1. /\ e \in DOMAIN Device /\ Device[e].ctl = Device[d].ctl /\ Device[e].addr = Device[d].addr
        /\ Connected(s, e)
    BY <1>2 DEF Hearers
  <2>2. Device[d].port \notin {NoPort, Device[e].port} /\ Device[e].port # NoPort
    BY <1>2, <2>1, BusAssumption
  <2>3. Device[e].port = s.port[MuxOf(e)]
    BY <2>1, <2>2 DEF Connected
  <2>4. CASE Device[d].ctl = 0
    BY <2>1, <2>2, <2>3, <2>4 DEF MuxOf
  <2>5. CASE Device[d].ctl = 1
    <3>1. Device[d].port \in 0 .. 15 /\ Device[e].port \in 0 .. 15
      BY <2>1, <2>5, BusAssumption
    <3>2. MuxOf(d) \in {1, 2} /\ MuxOf(e) \in {1, 2}
      BY <2>1, <2>5, <3>1 DEF MuxOf
    <3>3. MuxOf(e) = MuxOf(d) \/ MuxOf(e) = 3 - MuxOf(d)
      BY <3>2
    <3> QED BY <2>2, <2>3, <2>5, <3>3
  <2> QED BY <2>4, <2>5, BusAssumption
<1>3. d \in Hearers(s, d)
  BY <1>1 DEF Hearers
<1> QED BY <1>2, <1>3 DEF Alone

(* A multiplexer that is remembered to be as wanted is left alone.         *)
SelectUnlessRemembered(s, m, p) == IF s.cache[m] = p THEN Done(s) ELSE Select(s, m, p)

(* A multiplexer whose remembered port is trusted need not be set again.   *)
LEMMA RememberedIsSelected ==
  ASSUME NEW s, Sane(s), NEW m \in Mux, NEW p \in PortKind, m = 0 => p # NoPort,
         NEW o \in SelectUnlessRemembered(s, m, p)
  PROVE  Sane(o.s) /\ SelectedTo(s, m, p, o)
<1>1. s \in BusState /\ Wired(s) /\ s.strayed = FALSE /\ Mux = {0, 1, 2}
  BY DEF Sane, Mux
<1>2. CASE s.cache[m] = p
  <2>1. o.s = s /\ o.ok = TRUE
    BY <1>2 DEF Done, SelectUnlessRemembered
  <2>2. s.port[m] = p
    BY <1>1, <1>2 DEF Wired, PortKind, NoPort, UnknownPort
  <2>3. Rewired(s, s)
    BY <1>1 DEF Rewired, BusState
  <2> QED BY <1>2, <2>1, <2>2, <2>3 DEF SelectedTo
<1>3. CASE s.cache[m] # p
  <2>1. o \in Select(s, m, p)
    BY <1>3 DEF SelectUnlessRemembered
  <2>2. SelectedTo(s, m, p, o)
    BY <1>1, <2>1, Selected
  <2>3. PICK t : t = o.s
    OBVIOUS
  <2>4. /\ t \in BusState /\ t.strayed = FALSE
        /\ t.cache[m] \in {t.port[m], UnknownPort}
        /\ \A x \in Mux \ {m} : t.port[x] = s.port[x] /\ t.cache[x] = s.cache[x]
    BY <1>1, <2>2, <2>3 DEF SelectedTo, Rewired
  <2>5. Wired(t)
    BY <1>1, <2>4 DEF Wired
  <2> QED BY <2>2, <2>3, <2>4, <2>5 DEF Sane
<1> QED BY <1>2, <1>3

(* setMux: a transfer for d that follows it reaches d and no other.        *)
Routed(s, d, o) ==
  /\ Sane(o.s) /\ Rewired(s, o.s)
  /\ (o.ok = TRUE /\ Alone(o.s, d)) \/ (o.ok = FALSE /\ o.s.faults # s.faults)

(* Two settings of multiplexers make one.                                  *)
LEMMA RewiredTwice ==
  ASSUME NEW s \in BusState, NEW t, NEW u, Rewired(s, t), Rewired(t, u)
  PROVE  Rewired(s, u) /\ (t.faults # s.faults => u.faults # s.faults)
BY DEF Rewired, BusState

(* setMux, for either controller: the other multiplexer of controller 1 is *)
(* closed before the one of the device is opened.                          *)
LEMMA SetMux ==
  ASSUME NEW s, Sane(s), NEW d \in DOMAIN Device, NEW o \in setMux(s, d)
  PROVE  Routed(s, d, o)
<1>1. s \in BusState
  BY DEF Sane
<1>2. PICK p : p = Device[d].port
  OBVIOUS
<1>3. CASE Device[d].ctl = 0 /\ p = NoPort
  <2>1. o.s = s /\ o.ok = TRUE
    <3>1. setMux(s, d) = Done(s)
      BY <1>2, <1>3, Zenon DEF setMux
    <3> QED BY <3>1 DEF Done
  <2>2. Alone(s, d)
    <3>1. /\ ~(Device[d].ctl = 0 /\ Device[d].port # NoPort)
          /\ ~(Device[d].ctl = 1)
      BY <1>2, <1>3
    <3> QED BY <1>1, <3>1, AloneWhenSelected
  <2>3. Rewired(s, s)
    BY <1>1 DEF Rewired, BusState
  <2> QED BY <2>1, <2>2, <2>3 DEF Routed
<1>4. CASE Device[d].ctl = 0 /\ p # NoPort
  <2>1. o \in SelectUnlessRemembered(s, 0, p)
    BY <1>2, <1>4 DEF setMux, MuxOf, SelectUnlessRemembered
  <2>2. p \in PortKind
    BY <1>2, <1>4, BusAssumption DEF PortKind
  <2>3. Sane(o.s) /\ SelectedTo(s, 0, p, o)
    BY <1>4, <2>1, <2>2, RememberedIsSelected DEF Mux
  <2>4. o.s.port[0] = p => Alone(o.s, d)
    BY <1>2, <1>4, <2>3, AloneWhenSelected DEF Sane
  <2> QED BY <2>3, <2>4 DEF Routed, SelectedTo
<1>5. CASE Device[d].ctl = 1
  <2>1. PICK new \in {1, 2}, other \in {1, 2} : new = MuxOf(d) /\ other = 3 - new
    <3>1. p \in 0 .. 15
      BY <1>2, <1>5, BusAssumption
    <3> QED BY <1>2, <1>5, <3>1 DEF MuxOf
  <2>2. p \in PortKind /\ new \in Mux /\ other \in Mux /\ NoPort \in PortKind /\ new # 0 /\ other # 0 /\ new # other
    BY <1>2, <1>5, <2>1, BusAssumption DEF PortKind, Mux
  <2>3. PICK q \in SelectUnlessRemembered(s, other, NoPort) :
          IF q.ok THEN o \in SelectUnlessRemembered(q.s, new, p) ELSE o = q
    BY <1>2, <1>5, <2>1 DEF setMux, SelectUnlessRemembered, Then
  <2>4. Sane(q.s) /\ SelectedTo(s, other, NoPort, q)
    BY <2>2, <2>3, RememberedIsSelected
  <2>5. CASE q.ok = FALSE /\ q.s.faults # s.faults
    <3>1. o = q
      BY <2>3, <2>5
    <3> QED BY <2>4, <2>5, <3>1 DEF Routed, SelectedTo
  <2>6. CASE q.ok = TRUE /\ q.s.port[other] = NoPort
    <3>1. o \in SelectUnlessRemembered(q.s, new, p)
      BY <2>3, <2>6
    <3>2. Sane(o.s) /\ SelectedTo(q.s, new, p, o)
      BY <2>2, <2>4, <3>1, RememberedIsSelected
    <3>3. Rewired(s, o.s) /\ (o.s.faults # q.s.faults => o.s.faults # s.faults)
      BY <1>1, <2>4, <3>2, RewiredTwice, ZenonT(40) DEF SelectedTo, Rewired, BusState
    <3>4. o.s.port[new] = p => Alone(o.s, d)
      <4>1. o.s.port[other] = NoPort
        BY <2>2, <2>6, <3>2 DEF SelectedTo
      <4> QED BY <1>2, <1>5, <2>1, <3>2, <4>1, AloneWhenSelected DEF Sane
    <3> QED BY <3>2, <3>3, <3>4 DEF Routed, SelectedTo
  <2> QED BY <2>4, <2>5, <2>6 DEF SelectedTo
<1> QED BY <1>2, <1>3, <1>4, <1>5, BusAssumption

(* A message to d when nobody else hears it: nothing strays.               *)
LEMMA MessageIs ==
  ASSUME NEW s \in BusState, NEW t \in BusState, NEW d, Alone(s, d),
         s.strayed = FALSE, t.strayed = FALSE
  PROVE  Message(s, d, t) = Send(s, t)
<1>1. ASSUME NEW x \in BusState, x.strayed = FALSE
      PROVE  [x EXCEPT !.strayed = @ \/ Hearers(s, d) # {d}] = x
  <2>1. (x.strayed \/ Hearers(s, d) # {d}) = FALSE
    BY <1>1, Zenon DEF Alone
  <2>2. [x EXCEPT !.strayed = FALSE] = x
    BY <1>1 DEF BusState
  <2> QED BY <2>1, <2>2
<1>2. /\ [s EXCEPT !.strayed = @ \/ Hearers(s, d) # {d}] = s
      /\ [t EXCEPT !.strayed = @ \/ Hearers(s, d) # {d}] = t
  BY <1>1
<1> QED BY <1>2, Zenon DEF Message

(* What the devices hold, and the software apart from the multiplexers.    *)
Content(s) == <<Lines(s), Registers(s), Paging(s), Oscillator(s), s.reply>>

(* Of a message that turns the content of s into that of e.                *)
Delivered(s, e, o) ==
  /\ Sane(o.s) /\ o.s.faults <= s.faults
  /\ \/ o.ok = TRUE /\ Content(o.s) = Content(e)
     \/ o.ok = FALSE /\ o.s.faults # s.faults /\ Content(o.s) \in {Content(s), Content(e)}

LEMMA RewiredContent ==
  ASSUME NEW s, NEW t, Rewired(s, t)
  PROVE  Content(t) = Content(s)
BY DEF Rewired, Content

(* A message after setMux: it is delivered, or a transfer has failed and   *)
(* the device heard it or not.                                             *)
LEMMA Delivery ==
  ASSUME NEW s, Sane(s), NEW d, NEW r, Routed(s, d, r),
         NEW e \in BusState, Wires(e) = Wires(r.s), e.strayed = FALSE, e.faults = r.s.faults,
         NEW o, r.ok = TRUE => o \in Message(r.s, d, e), r.ok = FALSE => o = r
  PROVE  /\ Delivered(s, e, o)
         /\ Wires(o.s) = Wires(r.s)
<1>1. PICK t : t = r.s
  OBVIOUS
<1>2. t \in BusState /\ t.strayed = FALSE /\ Wired(t) /\ t.faults <= s.faults /\ s \in BusState
  BY <1>1 DEF Routed, Sane, Rewired
<1>3. Content(t) = Content(s)
  BY <1>1, RewiredContent DEF Routed
<1>4. s.faults \in Nat /\ t.faults \in Nat
  BY <1>2 DEF BusState
<1>5. CASE r.ok = FALSE /\ r.s.faults # s.faults
  BY <1>1, <1>2, <1>3, <1>5 DEF Delivered, Sane
<1>6. CASE r.ok = TRUE /\ Alone(t, d)
  <2>1. o \in Send(t, e)
    BY <1>1, <1>2, <1>6, MessageIs
  <2>2. Wired(e)
    BY <1>1, <1>2 DEF Wires, Wired
  <2>3. CASE o = [s |-> e, ok |-> TRUE]
    <3>1. o.s = e /\ o.ok = TRUE
      BY <2>3
    <3> QED BY <1>1, <1>2, <2>2, <3>1 DEF Delivered, Sane
  <2>4. CASE t.faults > 0 /\ \E x \in {t, e} : o = [s |-> Failing(x), ok |-> FALSE]
    <3>1. PICK x \in {t, e} : o = [s |-> Failing(x), ok |-> FALSE]
      BY <2>4
    <3>2. PICK f : f = Failing(x)
      OBVIOUS
    <3>3. x \in BusState /\ x.faults > 0 /\ x.strayed = FALSE /\ Wires(x) = Wires(t) /\ x.faults = t.faults
      BY <1>1, <1>2, <2>4, <3>1
    <3>4. /\ f \in BusState /\ f.faults = x.faults - 1 /\ f.strayed = FALSE
          /\ Wires(f) = Wires(x) /\ Content(f) = Content(x)
      BY <3>2, <3>3, BusFailing DEF Content
    <3>5. Wired(f)
      BY <1>2, <3>3, <3>4 DEF Wires, Wired
    <3>6. f.faults <= s.faults /\ f.faults # s.faults
      BY <1>2, <1>4, <3>3, <3>4
    <3>7. o.s = f /\ o.ok = FALSE
      BY <3>1, <3>2
    <3> QED BY <1>1, <1>3, <3>1, <3>3, <3>4, <3>5, <3>6, <3>7 DEF Delivered, Sane
  <2> QED BY <2>1, <2>3, <2>4, BusSend
<1> QED BY <1>1, <1>5, <1>6 DEF Routed

(* The first message of a read names the register or is a plain transfer:  *)
(* it changes nothing.                                                     *)
asked(s, d) == Then(setMux(s, d), LAMBDA t : Message(t, d, t))

(* The first message of a read leaves the multiplexers as they have to be  *)
(* for the second.                                                         *)
LEMMA Asked ==
  ASSUME NEW s, Sane(s), NEW d \in DOMAIN Device, NEW o \in asked(s, d)
  PROVE  Routed(s, d, o)
<1>1. PICK r \in setMux(s, d) : IF r.ok THEN o \in Message(r.s, d, r.s) ELSE o = r
  BY DEF asked, Then
<1>2. Routed(s, d, r)
  BY <1>1, SetMux
<1>3. r.s \in BusState /\ r.s.strayed = FALSE
  BY <1>2 DEF Routed, Sane
<1>4. Delivered(s, r.s, o) /\ Wires(o.s) = Wires(r.s)
  <2>1. PICK e \in BusState : e = r.s
    BY <1>3
  <2>2. /\ Wires(e) = Wires(r.s) /\ e.strayed = FALSE /\ e.faults = r.s.faults
        /\ r.ok = TRUE => o \in Message(r.s, d, e)
        /\ r.ok = FALSE => o = r
    BY <1>1, <1>3, <2>1
  <2> QED BY <1>2, <2>1, <2>2, Delivery
<1>5. Content(r.s) = Content(s)
  BY <1>2, RewiredContent DEF Routed
<1>6. Rewired(s, o.s)
  BY <1>4, <1>5 DEF Delivered, Sane, Content, Rewired
<1>7. CASE r.ok = TRUE /\ Alone(r.s, d)
  <2>1. Hearers(o.s, d) = Hearers(r.s, d)
    BY <1>4 DEF Wires, Hearers, Connected
  <2>2. Alone(o.s, d)
    BY <1>7, <2>1 DEF Alone
  <2> QED BY <1>4, <1>6, <2>2 DEF Delivered, Routed
<1>8. CASE r.ok = FALSE
  BY <1>1, <1>2, <1>8
<1> QED BY <1>2, <1>7, <1>8 DEF Routed

LEMMA AskedIs ==
  ASSUME NEW s, NEW d
  PROVE  iicWrite(s, d, LAMBDA t : t) = asked(s, d)
BY DEF iicWrite, asked

(* A read changes nothing but what the software does with its result.      *)
LEMMA PlainRead ==
  ASSUME NEW s, Sane(s), NEW d \in DOMAIN Device, NEW o \in Plain(s, d)
  PROVE  Delivered(s, s, o)
<1>1. o \in Then(asked(s, d), LAMBDA t : Message(t, d, t))
  BY DEF Plain, iicRead, iicWrite, asked
<1>2. PICK r \in asked(s, d) : IF r.ok THEN o \in Message(r.s, d, r.s) ELSE o = r
  BY <1>1 DEF Then
<1>3. Routed(s, d, r)
  BY <1>2, Asked
<1>4. PICK e \in BusState : e = r.s
  BY <1>3 DEF Routed, Sane
<1>5. /\ Wires(e) = Wires(r.s) /\ e.strayed = FALSE /\ e.faults = r.s.faults
      /\ r.ok = TRUE => o \in Message(r.s, d, e)
      /\ r.ok = FALSE => o = r
  BY <1>2, <1>3, <1>4 DEF Routed, Sane
<1>6. Delivered(s, e, o)
  BY <1>3, <1>5, Delivery
<1>7. Content(e) = Content(s)
  BY <1>3, <1>4, RewiredContent DEF Routed
<1> QED BY <1>6, <1>7 DEF Delivered

(* Pages: the one that is remembered is the one the controller has.        *)
Paged(s) == s.pageCache["IrpsB"] \in {NoPage, s.page["IrpsB"]} /\ s.offPage = FALSE

(* The two halves of pmbusRead.                                            *)
OnPage(t, d, page) == [t EXCEPT !.offPage = @ \/ (d \in Irps /\ page <= 3 /\ t.page[d] # page)]
ReadOnPage(s, d, page) == Then(asked(s, d), LAMBDA t : Message(t, d, OnPage(t, d, page)))
WithPage(t, page) == [t EXCEPT !.page["IrpsB"] = page]
PageWritten(s, page) == iicWrite(s, "IrpsB", LAMBDA t : WithPage(t, page))
PageSelected(s, d, page) ==
  {[o EXCEPT !.s.pageCache[d] = RememberPage(page, o.ok)] : o \in PageWritten(s, page)}

(* A read of a page that is the selected one comes from that page.         *)
LEMMA ReadsOnPage ==
  ASSUME NEW s, Sane(s), Paged(s), NEW d \in DOMAIN Device, NEW page,
         page = NoPage \/ (page = 0 /\ d = "IrpsB" /\ s.page["IrpsB"] = 0),
         NEW o \in ReadOnPage(s, d, page)
  PROVE  Delivered(s, s, o)
<1>1. PICK r \in asked(s, d) : IF r.ok THEN o \in Message(r.s, d, OnPage(r.s, d, page)) ELSE o = r
  BY DEF ReadOnPage, Then
<1>2. Routed(s, d, r)
  BY <1>1, Asked
<1>3. PICK e \in BusState : e = r.s
  BY <1>2 DEF Routed, Sane
<1>4. Content(e) = Content(s) /\ e.strayed = FALSE
  BY <1>2, <1>3, RewiredContent DEF Routed, Sane
<1>5. e.offPage = FALSE /\ e.page = s.page
  BY <1>4 DEF Content, Paging, Paged
<1>6. OnPage(e, d, page) = e
  <2>1. ~(d \in Irps /\ page <= 3 /\ e.page[d] # page)
    BY <1>5 DEF NoPage
  <2>2. (e.offPage \/ (d \in Irps /\ page <= 3 /\ e.page[d] # page)) = FALSE
    BY <1>5, <2>1, Zenon
  <2>3. OnPage(e, d, page) = [e EXCEPT !.offPage = FALSE]
    BY <2>2, Zenon DEF OnPage
  <2>4. [e EXCEPT !.offPage = FALSE] = e
    BY <1>5 DEF BusState
  <2> QED BY <2>3, <2>4
<1>7. /\ Wires(e) = Wires(r.s) /\ e.faults = r.s.faults
      /\ r.ok = TRUE => o \in Message(r.s, d, e)
      /\ r.ok = FALSE => o = r
  BY <1>1, <1>3, <1>6
<1>8. Delivered(s, e, o)
  BY <1>2, <1>4, <1>7, Delivery
<1> QED BY <1>4, <1>8 DEF Delivered

(* A page that is written is remembered when the write succeeds and        *)
(* forgotten when it fails.                                                *)
LEMMA SelectsPage ==
  ASSUME NEW s, Sane(s), Paged(s), NEW o \in PageSelected(s, "IrpsB", 0)
  PROVE  /\ From(s, o) /\ Paged(o.s) /\ (o.ok = TRUE => o.s.page["IrpsB"] = 0)
         /\ Lines(o.s) = Lines(s) /\ Registers(o.s) = Registers(s)
         /\ Oscillator(o.s) = Oscillator(s) /\ o.s.reply = s.reply
<1>1. PICK q \in PageWritten(s, 0) : o = [q EXCEPT !.s.pageCache["IrpsB"] = RememberPage(0, q.ok)]
  BY DEF PageSelected
<1>2. PICK r \in setMux(s, "IrpsB") : IF r.ok THEN q \in Message(r.s, "IrpsB", WithPage(r.s, 0)) ELSE q = r
  BY <1>1 DEF PageWritten, iicWrite, Then
<1>3. "IrpsB" \in DOMAIN Device /\ "IrpsB" \in Irps
  BY BusAssumption DEF Irps
<1>4. Routed(s, "IrpsB", r)
  BY <1>2, <1>3, SetMux
<1>5. PICK t \in BusState : t = r.s
  BY <1>4 DEF Routed, Sane
<1>6. Content(t) = Content(s) /\ t.strayed = FALSE
  BY <1>4, <1>5, RewiredContent DEF Routed, Sane
<1>7. PICK e : e = WithPage(t, 0)
  OBVIOUS
<1>8. e \in BusState
  BY <1>3, <1>7 DEF BusState, WithPage
<1>9. /\ e.strayed = FALSE /\ Wires(e) = Wires(t) /\ e.faults = t.faults
      /\ Lines(e) = Lines(t) /\ Registers(e) = Registers(t) /\ Oscillator(e) = Oscillator(t)
      /\ e.reply = t.reply /\ e.offPage = t.offPage /\ e.pageCache = t.pageCache
      /\ e.page["IrpsB"] = 0
  BY <1>3, <1>6, <1>7 DEF BusState, WithPage, Wires, Lines, Registers, Oscillator
<1>10. /\ Wires(e) = Wires(r.s) /\ e.faults = r.s.faults
       /\ r.ok = TRUE => q \in Message(r.s, "IrpsB", e)
       /\ r.ok = FALSE => q = r
  BY <1>2, <1>5, <1>7, <1>9
<1>11. Delivered(s, e, q)
  BY <1>4, <1>8, <1>9, <1>10, Delivery
<1>12. PICK u : u = q.s
  OBVIOUS
<1>13. /\ u \in BusState /\ u.strayed = FALSE /\ Wired(u) /\ u.faults <= s.faults
       /\ Lines(u) = Lines(s) /\ Registers(u) = Registers(s) /\ Oscillator(u) = Oscillator(s)
       /\ u.reply = s.reply /\ u.offPage = FALSE
       /\ \/ q.ok = TRUE /\ u.page["IrpsB"] = 0
          \/ q.ok = FALSE /\ u.faults # s.faults
  BY <1>6, <1>9, <1>11, <1>12 DEF Delivered, Sane, Content, Paging, Paged
<1>14. Shaped(q)
  BY <1>2, <1>13, MessageShaped, SetMuxShaped
<1>15. PICK p \in {0, NoPage} :
         /\ o.s = [u EXCEPT !.pageCache["IrpsB"] = p]
         /\ \/ o.ok = TRUE /\ p = 0 /\ u.page["IrpsB"] = 0
            \/ o.ok = FALSE /\ p = NoPage /\ u.faults # s.faults
  <2>1. RememberPage(0, TRUE) = 0 /\ RememberPage(0, FALSE) = NoPage
    BY DEF RememberPage
  <2>2. CASE q.ok = TRUE /\ u.page["IrpsB"] = 0
    <3>1. q = [s |-> u, ok |-> TRUE] /\ o = [q EXCEPT !.s.pageCache["IrpsB"] = 0]
      BY <1>1, <1>12, <1>14, <2>1, <2>2 DEF Shaped
    <3>2. o.s = [u EXCEPT !.pageCache["IrpsB"] = 0] /\ o.ok = TRUE
      BY <3>1
    <3> QED BY <2>2, <3>2
  <2>3. CASE q.ok = FALSE /\ u.faults # s.faults
    <3>1. q = [s |-> u, ok |-> FALSE] /\ o = [q EXCEPT !.s.pageCache["IrpsB"] = NoPage]
      BY <1>1, <1>12, <1>14, <2>1, <2>3 DEF Shaped
    <3>2. o.s = [u EXCEPT !.pageCache["IrpsB"] = NoPage] /\ o.ok = FALSE
      BY <3>1
    <3> QED BY <2>3, <3>2
  <2> QED BY <1>13, <2>2, <2>3
<1>16. PICK v : v = o.s
  OBVIOUS
<1>17. v \in BusState
  BY <1>3, <1>13, <1>15, <1>16, SMTT(30) DEF BusState
<1>18. /\ v.strayed = FALSE /\ Wires(v) = Wires(u) /\ v.faults = u.faults
       /\ Lines(v) = Lines(u) /\ Registers(v) = Registers(u) /\ Oscillator(v) = Oscillator(u)
       /\ v.reply = u.reply /\ v.offPage = u.offPage /\ v.page = u.page
       /\ v.pageCache["IrpsB"] = p
  BY <1>3, <1>13, <1>15, <1>16 DEF BusState, Wires, Lines, Registers, Oscillator
<1>19. Wired(v)
  BY <1>13, <1>18 DEF Wires, Wired
<1>20. Paged(v) /\ (o.ok = TRUE => v.page["IrpsB"] = 0)
  BY <1>13, <1>15, <1>18 DEF Paged
<1>21. From(s, o)
  BY <1>13, <1>15, <1>16, <1>17, <1>18, <1>19 DEF From, Sane
<1> QED BY <1>13, <1>16, <1>18, <1>20, <1>21

(* pmbusRead of a page, of whichever controller: it is IRPS5401_B whose    *)
(* page is written.                                                        *)
LEMMA PageRead ==
  ASSUME NEW s, Sane(s), Paged(s), NEW d \in DOMAIN Device, NEW page,
         page = NoPage \/ (page = 0 /\ d = "IrpsB"),
         NEW o \in pmbusRead(s, d, page)
  PROVE  /\ From(s, o) /\ Paged(o.s)
         /\ Lines(o.s) = Lines(s) /\ Registers(o.s) = Registers(s)
         /\ Oscillator(o.s) = Oscillator(s) /\ o.s.reply = s.reply
<1> DEFINE paged == d \in Irps /\ page <= 3 /\ page # s.pageCache[d]
<1>1. PICK p \in IF paged THEN PageSelected(s, d, page) ELSE Done(s) :
        IF p.ok THEN o \in iicRead(p.s, d, LAMBDA t : OnPage(t, d, page)) ELSE o = p
  <2>1. o \in Then(IF paged THEN PageSelected(s, d, page) ELSE Done(s),
                   LAMBDA t : iicRead(t, d, LAMBDA u : OnPage(u, d, page)))
    BY DEF pmbusRead, OnPage, PageSelected, PageWritten, WithPage
  <2> QED BY <2>1 DEF Then
<1>2. iicRead(p.s, d, LAMBDA t : OnPage(t, d, page)) = ReadOnPage(p.s, d, page)
  BY DEF iicRead, iicWrite, asked, ReadOnPage
<1>3. s \in BusState /\ s.faults \in Nat
  BY DEF Sane, BusState
<1>4. /\ From(s, p) /\ Paged(p.s) /\ (p.ok = TRUE /\ page = 0 => p.s.page["IrpsB"] = 0)
      /\ Lines(p.s) = Lines(s) /\ Registers(p.s) = Registers(s)
      /\ Oscillator(p.s) = Oscillator(s) /\ p.s.reply = s.reply
  <2>1. CASE paged
    <3>1. page = 0 /\ d = "IrpsB"
      BY <2>1 DEF NoPage
    <3>2. p \in PageSelected(s, "IrpsB", 0)
      BY <1>1, <2>1, <3>1
    <3> QED BY <3>1, <3>2, SelectsPage
  <2>2. CASE ~paged
    <3>1. p.s = s /\ p.ok = TRUE
      BY <1>1, <2>2 DEF Done
    <3>2. page = 0 => s.page["IrpsB"] = 0
      <4>1. "IrpsB" \in Irps
        BY BusAssumption DEF Irps
      <4> QED BY <2>2, <4>1 DEF Paged, NoPage
    <3> QED BY <1>3, <3>1, <3>2 DEF From
  <2> QED BY <2>1, <2>2
<1>5. CASE p.ok = FALSE
  <2>1. o = p
    BY <1>1, <1>5
  <2> QED BY <1>4, <2>1
<1>6. CASE p.ok = TRUE
  <2>1. PICK t : t = p.s
    OBVIOUS
  <2>2. o \in ReadOnPage(t, d, page)
    BY <1>1, <1>2, <1>6, <2>1
  <2>3. Sane(t) /\ Paged(t) /\ (page = 0 => t.page["IrpsB"] = 0)
    BY <1>4, <1>6, <2>1 DEF From
  <2>4. Delivered(t, t, o)
    BY <2>2, <2>3, ReadsOnPage
  <2>5. PICK u : u = o.s
    OBVIOUS
  <2>6. /\ Sane(u) /\ u.faults <= t.faults /\ Content(u) = Content(t)
        /\ o.ok = TRUE \/ (o.ok = FALSE /\ u.faults # t.faults)
    BY <2>4, <2>5 DEF Delivered
  <2>7. t.faults \in Nat /\ u.faults \in Nat /\ t.faults <= s.faults
    BY <1>4, <2>1, <2>3, <2>6 DEF Sane, BusState, From
  <2>8. Paged(u)
    BY <2>3, <2>6 DEF Paged, Content, Paging
  <2>9. From(s, o)
    BY <1>3, <2>5, <2>6, <2>7 DEF From
  <2> QED BY <1>4, <2>1, <2>5, <2>6, <2>8, <2>9 DEF Content
<1> QED BY <1>4, <1>5, <1>6 DEF From

(* What an operation may rely on when it starts, and leaves behind: the    *)
(* selected line of the synthesizers is the remembered one.                *)
Picked(s) == s.target # "zcu208" => s.selected \in {NoChip, s.miso}
Trusted(s) == Sane(s) /\ Paged(s) /\ Picked(s) /\ s.misread = FALSE

(* Between operations also: what is kept for register 0 of the synthesizers *)
(* of the board is of the last table that had a word for it.               *)
Present(s) == Range(Synthesizers(s))
Fits(s) == \A c \in Present(s) : s.init[c] = Raw(s.asked)
Settled(s) == Trusted(s) /\ Fits(s)
Trust == {x \in Nat \X BusState : Settled(x[2])}

(* This is a loop invariant that does not depend on how far the loop is.   *)
LEMMA TrustIs ==
  ASSUME NEW n \in Nat, NEW t
  PROVE  <<n, t>> \in Trust <=> Settled(t)
BY DEF Trust, Settled, Trusted, Sane

LEMMA FitsSame ==
  ASSUME NEW s, NEW t, Fits(s), Asking(t) = Asking(s), t.init = s.init
  PROVE  Fits(t)
BY DEF Fits, Asking, Present, Synthesizers

(* The loops over supplies, controllers and synthesizers.                  *)
PlainOne(t, d, p) == Plain(t, d)
BoardSupplyOne(t, i, p) == pmbusRead(t, "IrpsB", 0)
TemperatureOne(t, d, p) == Temperature(t, d)
ConfigOne(t, c, cfg) == lmx2594Config(t, c, cfg)
InspectOne(t, c, n) == Inspect(t, c, n)
ReadOne(t, c, p) == lmx2594read(t, c)
SupplyLoop == INSTANCE InTurnRule WITH F <- PlainOne
BoardLoop == INSTANCE InTurnRule WITH F <- BoardSupplyOne
TemperatureLoop == INSTANCE InTurnRule WITH F <- TemperatureOne
ConfigLoop == INSTANCE InTurnRule WITH F <- ConfigOne
InspectLoop == INSTANCE InTurnRule WITH F <- InspectOne
ReadLoop == INSTANCE InTurnRule WITH F <- ReadOne

(* Every access of sysmonFetch leaves what is remembered true; so do its   *)
(* loops, one after the other, whatever fails in them.                     *)
LEMMA PlainTrusted ==
  ASSUME NEW s, Settled(s), NEW d \in DOMAIN Device, NEW o \in Plain(s, d)
  PROVE  Settled(o.s)
<1>1. Delivered(s, s, o)
  BY PlainRead DEF Settled, Trusted
<1>2. Sane(o.s) /\ Content(o.s) = Content(s)
  BY <1>1 DEF Delivered
<1>3. Fits(o.s)
  BY <1>2, FitsSame DEF Content, Lines, Registers, Asking, Settled
<1> QED BY <1>2, <1>3 DEF Settled, Trusted, Content, Lines, Paging, Paged, Picked

LEMMA PageTrusted ==
  ASSUME NEW s, Settled(s), NEW d \in DOMAIN Device, NEW page,
         page = NoPage \/ (page = 0 /\ d = "IrpsB"), NEW o \in pmbusRead(s, d, page)
  PROVE  Settled(o.s)
<1>1. From(s, o) /\ Paged(o.s) /\ Lines(o.s) = Lines(s) /\ Registers(o.s) = Registers(s)
  BY PageRead DEF Settled, Trusted
<1>2. Fits(o.s)
  BY <1>1, FitsSame DEF Lines, Registers, Asking, Settled
<1> QED BY <1>1, <1>2 DEF Settled, Trusted, From, Lines, Picked

LEMMA SuppliesTrusted ==
  ASSUME NEW s, Settled(s), NEW o \in SupplyLoop!Outcomes(s, Supplies \o Supplies, 0)
  PROVE  Settled(o.s)
<1>1. PICK seq : seq = Supplies \o Supplies
  OBVIOUS
<1>2. seq \in Seq(DOMAIN Device) /\ Len(seq) \in Nat
  BY <1>1, BusAssumption
<1>3. ASSUME NEW n \in 1 .. Len(seq), NEW t, <<n - 1, t>> \in Trust, NEW q \in PlainOne(t, seq[n], 0)
      PROVE  <<n, q.s>> \in Trust
  <2>1. n \in Nat /\ n - 1 \in Nat /\ seq[n] \in DOMAIN Device
    BY <1>2
  <2>2. Settled(t)
    BY <1>3, <2>1, TrustIs
  <2>3. Settled(q.s)
    BY <1>3, <2>1, <2>2, PlainTrusted DEF PlainOne
  <2> QED BY <2>1, <2>3, TrustIs
<1>4. <<0, s>> \in Trust
  BY TrustIs
<1>5. <<Len(seq), o.s>> \in Trust
  BY <1>1, <1>2, <1>3, <1>4, SupplyLoop!InTurnRule
<1> QED BY <1>2, <1>5, TrustIs

LEMMA BoardsTrusted ==
  ASSUME NEW s, Settled(s), NEW o \in BoardLoop!Outcomes(s, <<1, 2, 3>>, 0)
  PROVE  Settled(o.s)
<1>1. PICK seq : seq = <<1, 2, 3>>
  OBVIOUS
<1>2. Len(seq) = 3
  BY <1>1
<1>3. ASSUME NEW n \in 1 .. Len(seq), NEW t, <<n - 1, t>> \in Trust, NEW q \in BoardSupplyOne(t, seq[n], 0)
      PROVE  <<n, q.s>> \in Trust
  <2>1. n \in Nat /\ n - 1 \in Nat
    BY <1>2
  <2>2. Settled(t)
    BY <1>3, <2>1, TrustIs
  <2>3. Settled(q.s)
    BY <1>3, <2>2, PageTrusted, BusAssumption DEF BoardSupplyOne
  <2> QED BY <2>1, <2>3, TrustIs
<1>4. <<0, s>> \in Trust
  BY TrustIs
<1>5. <<Len(seq), o.s>> \in Trust
  BY <1>1, <1>2, <1>3, <1>4, BoardLoop!InTurnRule
<1> QED BY <1>2, <1>5, TrustIs

LEMMA TemperaturesTrusted ==
  ASSUME NEW s, Settled(s), NEW o \in TemperatureLoop!Outcomes(s, Controllers, 0)
  PROVE  Settled(o.s)
<1>1. Controllers \in Seq(DOMAIN Device) /\ Len(Controllers) \in Nat
  BY BusAssumption
<1>2. ASSUME NEW n \in 1 .. Len(Controllers), NEW t, <<n - 1, t>> \in Trust,
             NEW q \in TemperatureOne(t, Controllers[n], 0)
      PROVE  <<n, q.s>> \in Trust
  <2>1. n \in Nat /\ n - 1 \in Nat /\ Controllers[n] \in DOMAIN Device
    BY <1>1
  <2>2. Settled(t)
    BY <1>2, <2>1, TrustIs
  <2>3. Settled(q.s)
    BY <1>2, <2>1, <2>2, PageTrusted DEF TemperatureOne, Temperature
  <2> QED BY <2>1, <2>3, TrustIs
<1>3. <<0, s>> \in Trust
  BY TrustIs
<1>4. <<Len(Controllers), o.s>> \in Trust
  BY <1>1, <1>2, <1>3, TemperatureLoop!InTurnRule
<1> QED BY <1>1, <1>4, TrustIs

LEMMA MonitorsFetched ==
  ASSUME NEW s, Settled(s), NEW o \in sysmonFetch(s)
  PROVE  Settled(o.s)
<1> DEFINE supplies == SupplyLoop!Outcomes(s, Supplies \o Supplies, 0)
           boards == Regardless(supplies, LAMBDA t : BoardLoop!Outcomes(t, <<1, 2, 3>>, 0))
           optics == Regardless(boards, LAMBDA t : Plain(t, "Sfp0"))
<1>1. o \in Regardless(optics, LAMBDA t : TemperatureLoop!Outcomes(t, Controllers, 0))
  BY DEF sysmonFetch, sfpGetStatus, InTurn, Regardless, Done, PlainOne, BoardSupplyOne, TemperatureOne,
         SupplyLoop!Outcomes, SupplyLoop!InTurn, SupplyLoop!Regardless, SupplyLoop!Done,
         BoardLoop!Outcomes, BoardLoop!InTurn, BoardLoop!Regardless, BoardLoop!Done,
         TemperatureLoop!Outcomes, TemperatureLoop!InTurn, TemperatureLoop!Regardless, TemperatureLoop!Done
<1>2. PICK c \in optics : o \in TemperatureLoop!Outcomes(c.s, Controllers, 0)
  BY <1>1 DEF Regardless
<1>3. PICK b \in boards : c \in Plain(b.s, "Sfp0")
  BY DEF Regardless
<1>4. PICK a \in supplies : b \in BoardLoop!Outcomes(a.s, <<1, 2, 3>>, 0)
  BY DEF Regardless
<1>5. Settled(a.s)
  BY SuppliesTrusted
<1>6. Settled(b.s)
  BY <1>4, <1>5, BoardsTrusted
<1>7. Settled(c.s)
  BY <1>3, <1>6, PlainTrusted, BusAssumption
<1> QED BY <1>2, <1>7, TemperaturesTrusted

LEMMA ChipsAre == Chips \subseteq 0 .. 3
BY BusAssumption DEF Chips, Range

(* An outcome that keeps what is trusted and the registers.                *)
Passed(s, o) ==
  /\ Trusted(o.s) /\ Registers(o.s) = Registers(s) /\ o.s.faults <= s.faults
  /\ Asking(o.s) = Asking(s)
  /\ o.ok = TRUE \/ (o.ok = FALSE /\ o.s.faults # s.faults)

(* The line that the synthesizers' answers come on is selected.            *)
WithMiso(t, c) == [t EXCEPT !.miso = c]
MisoWritten(s, c) == iicWrite(s, "Expander", LAMBDA t : WithMiso(t, c))

LEMMA WithMisoIs ==
  ASSUME NEW s \in BusState, NEW c \in 0 .. 3, NEW t, t = WithMiso(s, c)
  PROVE  /\ t \in BusState /\ t.miso = c /\ t.faults = s.faults /\ t.strayed = s.strayed
         /\ Wires(t) = Wires(s) /\ Registers(t) = Registers(s) /\ Paging(t) = Paging(s)
         /\ t.target = s.target /\ t.selected = s.selected
         /\ t.asked = s.asked /\ t.misread = s.misread
<1>1. t \in BusState
  BY DEF BusState, WithMiso
<1> QED BY <1>1 DEF BusState, WithMiso, Wires, Registers, Paging

(* SelectByExpander: a success has the line selected, a failure forgets    *)
(* which one was.                                                          *)
LEMMA ExpanderSelects ==
  ASSUME NEW s, Trusted(s), s.target # "zcu208", NEW c \in 0 .. 3, NEW o \in SelectByExpander(s, c)
  PROVE  Passed(s, o) /\ (o.ok = TRUE => o.s.miso = c)
<1>1. s \in BusState /\ s.faults \in Nat /\ Sane(s)
  BY DEF Trusted, Sane, BusState
<1>2. CASE s.selected = c
  <2>1. o.s = s /\ o.ok = TRUE
    BY <1>2 DEF SelectByExpander, Done
  <2>2. s.miso = c
    BY <1>2 DEF Trusted, Picked, NoChip
  <2> QED BY <1>1, <2>1, <2>2 DEF Passed
<1>3. CASE s.selected # c
  <2>1. PICK q \in MisoWritten(s, c) : o = [q EXCEPT !.s.selected = SelectedAfter(c, q.ok)]
    BY <1>3 DEF SelectByExpander, MisoWritten, WithMiso
  <2>2. PICK r \in setMux(s, "Expander") :
          IF r.ok THEN q \in Message(r.s, "Expander", WithMiso(r.s, c)) ELSE q = r
    BY <2>1 DEF MisoWritten, iicWrite, Then
  <2>3. Routed(s, "Expander", r)
    BY <1>1, <2>2, SetMux, BusAssumption
  <2>4. PICK t \in BusState : t = r.s
    BY <2>3 DEF Routed, Sane
  <2>5. Content(t) = Content(s) /\ t.strayed = FALSE
    BY <2>3, <2>4, RewiredContent DEF Routed, Sane
  <2>6. PICK e : e = WithMiso(t, c)
    OBVIOUS
  <2>7. /\ e \in BusState /\ e.miso = c /\ e.faults = t.faults /\ e.strayed = t.strayed
        /\ Wires(e) = Wires(t) /\ Registers(e) = Registers(t) /\ Paging(e) = Paging(t)
        /\ e.target = t.target /\ e.selected = t.selected
        /\ e.asked = t.asked /\ e.misread = t.misread
    BY <2>6, WithMisoIs
  <2>8. /\ Wires(e) = Wires(r.s) /\ e.faults = r.s.faults /\ e.strayed = FALSE
        /\ r.ok = TRUE => q \in Message(r.s, "Expander", e)
        /\ r.ok = FALSE => q = r
    BY <2>2, <2>4, <2>5, <2>6, <2>7
  <2>9. Delivered(s, e, q)
    BY <1>1, <2>3, <2>7, <2>8, Delivery
  <2>10. PICK u : u = q.s
    OBVIOUS
  <2>11. /\ u \in BusState /\ u.strayed = FALSE /\ Wired(u) /\ u.faults <= s.faults
         /\ Registers(u) = Registers(s) /\ Paging(u) = Paging(s) /\ u.target = s.target
         /\ u.asked = s.asked /\ u.misread = s.misread
         /\ \/ q.ok = TRUE /\ u.miso = c
            \/ q.ok = FALSE /\ u.faults # s.faults
    BY <2>5, <2>7, <2>9, <2>10 DEF Delivered, Sane, Content, Lines
  <2>12. Shaped(q)
    BY <2>2, <2>11, MessageShaped, SetMuxShaped
  <2>13. PICK p \in {c, NoChip} :
           /\ o.s = [u EXCEPT !.selected = p]
           /\ \/ o.ok = TRUE /\ p = c /\ u.miso = c
              \/ o.ok = FALSE /\ p = NoChip /\ u.faults # s.faults
    <3>1. SelectedAfter(c, TRUE) = c /\ SelectedAfter(c, FALSE) = NoChip
      BY DEF SelectedAfter
    <3>2. CASE q.ok = TRUE /\ u.miso = c
      <4>1. q = [s |-> u, ok |-> TRUE] /\ o = [q EXCEPT !.s.selected = c]
        BY <2>1, <2>10, <2>12, <3>1, <3>2 DEF Shaped
      <4>2. o.s = [u EXCEPT !.selected = c] /\ o.ok = TRUE
        BY <4>1
      <4> QED BY <3>2, <4>2
    <3>3. CASE q.ok = FALSE /\ u.faults # s.faults
      <4>1. q = [s |-> u, ok |-> FALSE] /\ o = [q EXCEPT !.s.selected = NoChip]
        BY <2>1, <2>10, <2>12, <3>1, <3>3 DEF Shaped
      <4>2. o.s = [u EXCEPT !.selected = NoChip] /\ o.ok = FALSE
        BY <4>1
      <4> QED BY <3>3, <4>2
    <3> QED BY <2>11, <3>2, <3>3
  <2>14. PICK v : v = o.s
    OBVIOUS
  <2>15. p \in 0 .. NoChip
    BY DEF NoChip
  <2>16. v \in BusState
    BY <2>11, <2>13, <2>14, <2>15 DEF BusState
  <2>17. /\ v.strayed = FALSE /\ Wires(v) = Wires(u) /\ v.faults = u.faults
         /\ Registers(v) = Registers(u) /\ Paging(v) = Paging(u)
         /\ v.miso = u.miso /\ v.selected = p /\ v.target = u.target
         /\ v.asked = u.asked /\ v.misread = u.misread
    BY <2>11, <2>13, <2>14 DEF BusState, Wires, Registers, Paging
  <2>18. Wired(v)
    BY <2>11, <2>17 DEF Wires, Wired
  <2>19. Paged(v)
    BY <2>11, <2>17 DEF Paging, Paged, Trusted
  <2>20. Picked(v)
    BY <2>13, <2>17 DEF Picked
  <2>21. Trusted(v)
    BY <2>11, <2>16, <2>17, <2>18, <2>19, <2>20 DEF Trusted, Sane
  <2> QED BY <2>11, <2>13, <2>14, <2>17, <2>21 DEF Passed, Asking
<1> QED BY <1>2, <1>3

(* SelectMiso: on either kind of board.                                    *)
LEMMA MisoSelected ==
  ASSUME NEW s, Trusted(s), NEW c \in 0 .. 3, NEW o \in SelectMiso(s, c)
  PROVE  Passed(s, o) /\ (o.ok = TRUE => o.s.miso = c)
<1>1. CASE s.target = "zcu208"
  <2>1. PICK t : t = WithMiso(s, c)
    OBVIOUS
  <2>2. o.s = t /\ o.ok = TRUE
    BY <1>1, <2>1 DEF SelectMiso, spiSDOMuxSelect, Done, WithMiso
  <2>3. s \in BusState /\ s.faults \in Nat
    BY DEF Trusted, Sane, BusState
  <2>4. /\ t \in BusState /\ t.miso = c /\ t.faults = s.faults /\ t.strayed = s.strayed
        /\ Wires(t) = Wires(s) /\ Registers(t) = Registers(s) /\ Paging(t) = Paging(s)
        /\ t.target = s.target /\ t.asked = s.asked /\ t.misread = s.misread
    BY <2>1, <2>3, WithMisoIs
  <2>5. Trusted(t)
    BY <1>1, <2>4 DEF Trusted, Sane, Wires, Wired, Paging, Paged, Picked
  <2> QED BY <2>2, <2>3, <2>4, <2>5 DEF Passed, Asking
<1>2. CASE s.target # "zcu208"
  <2>1. o \in SelectByExpander(s, c)
    BY <1>2 DEF SelectMiso
  <2> QED BY <1>2, <2>1, ExpanderSelects
<1> QED BY <1>1, <1>2

(* A message to the bridge: the answer is what is on the line.             *)
Answered(t) == [t EXCEPT !.reply = OnLine(t)]
Held(s, c) == IF s.r0[c].ld THEN Nobodys ELSE s.r0[c]

(* What a line carries is of the chip that is on it.                       *)
LEMMA LineIs ==
  ASSUME NEW s \in BusState
  PROVE  /\ OnLine(s) \in ReplyKind /\ OnLine(s).chip = s.miso
         /\ s.miso \in Chips => OnLine(s).r0 = Held(s, s.miso)
<1>1. Nobodys \in RegKind /\ s.miso \in 0 .. 3
  BY DEF Nobodys, R0, RegKind, BusState
<1>2. CASE s.miso \in Chips
  <2>1. s.r0[s.miso] \in RegKind
    BY <1>2 DEF BusState
  <2>2. s.r0[s.miso].ld \in BOOLEAN
    BY <2>1 DEF RegKind
  <2>3. CASE s.r0[s.miso].ld = TRUE
    <3>1. OnLine(s) = [chip |-> s.miso, r0 |-> Nobodys] /\ Held(s, s.miso) = Nobodys
      BY <2>3, Zenon DEF OnLine, Held
    <3> QED BY <1>1, <3>1 DEF ReplyKind
  <2>4. CASE s.r0[s.miso].ld = FALSE
    <3>1. OnLine(s) = [chip |-> s.miso, r0 |-> s.r0[s.miso]] /\ Held(s, s.miso) = s.r0[s.miso]
      BY <1>2, <2>4 DEF OnLine, Held
    <3> QED BY <1>1, <2>1, <3>1 DEF ReplyKind
  <2> QED BY <2>2, <2>3, <2>4
<1>3. CASE s.miso \notin Chips
  <2>1. OnLine(s) = [chip |-> s.miso, r0 |-> Nobodys]
    BY <1>3 DEF OnLine
  <2> QED BY <1>1, <1>3, <2>1 DEF ReplyKind
<1> QED BY <1>2, <1>3

LEMMA AnsweredIs ==
  ASSUME NEW s \in BusState, NEW t, t = Answered(s)
  PROVE  /\ t \in BusState /\ t.reply = OnLine(s) /\ t.faults = s.faults /\ t.strayed = s.strayed
         /\ Wires(t) = Wires(s) /\ Registers(t) = Registers(s) /\ Paging(t) = Paging(s)
         /\ Lines(t) = Lines(s)
<1>1. PICK r \in ReplyKind : r = OnLine(s)
  BY LineIs
<1>2. t = [s EXCEPT !.reply = r]
  BY <1>1 DEF Answered
<1>3. t \in BusState
  BY <1>2 DEF BusState
<1> QED BY <1>1, <1>2, <1>3 DEF BusState, Wires, Registers, Paging, Lines

(* A message to the bridge that leaves the registers r0.                   *)
Bridged(s, o, r0) ==
  /\ Trusted(o.s) /\ Lines(o.s) = Lines(s) /\ o.s.init = s.init /\ o.s.faults <= s.faults
  /\ \/ o.ok = TRUE /\ o.s.r0 = r0 /\ o.s.reply = OnLine(s)
     \/ o.ok = FALSE /\ o.s.faults # s.faults /\ o.s.r0 \in {s.r0, r0}

LEMMA OnLineSame ==
  ASSUME NEW s, NEW t, Lines(t) = Lines(s), Registers(t) = Registers(s)
  PROVE  OnLine(t) = OnLine(s)
BY DEF OnLine, Lines, Registers

Probe(s) == iicWrite(s, "Bridge", Answered)
(* spiSend that changes no register.                                       *)
LEMMA Probed ==
  ASSUME NEW s, Trusted(s), NEW o \in Probe(s)
  PROVE  Bridged(s, o, s.r0) /\ Shaped(o)
<1>1. s \in BusState /\ Sane(s)
  BY DEF Trusted, Sane
<1>2. PICK r \in setMux(s, "Bridge") : IF r.ok THEN o \in Message(r.s, "Bridge", Answered(r.s)) ELSE o = r
  BY DEF Probe, iicWrite, Then
<1>3. Routed(s, "Bridge", r)
  BY <1>1, <1>2, SetMux, BusAssumption
<1>4. PICK t \in BusState : t = r.s
  BY <1>3 DEF Routed, Sane
<1>5. Content(t) = Content(s) /\ t.strayed = FALSE
  BY <1>3, <1>4, RewiredContent DEF Routed, Sane
<1>6. PICK e : e = Answered(t)
  OBVIOUS
<1>7. /\ e \in BusState /\ e.reply = OnLine(t) /\ e.faults = t.faults /\ e.strayed = t.strayed
      /\ Wires(e) = Wires(t) /\ Registers(e) = Registers(t) /\ Paging(e) = Paging(t)
      /\ Lines(e) = Lines(t)
  BY <1>6, AnsweredIs
<1>8. /\ Wires(e) = Wires(r.s) /\ e.faults = r.s.faults /\ e.strayed = FALSE
      /\ r.ok = TRUE => o \in Message(r.s, "Bridge", e)
      /\ r.ok = FALSE => o = r
  BY <1>2, <1>4, <1>5, <1>6, <1>7
<1>9. Delivered(s, e, o)
  BY <1>1, <1>3, <1>7, <1>8, Delivery
<1>10. OnLine(t) = OnLine(s)
  BY <1>5, OnLineSame DEF Content
<1>11. PICK u : u = o.s
  OBVIOUS
<1>12. /\ Sane(u) /\ u.faults <= s.faults
       /\ Registers(u) = Registers(s) /\ Paging(u) = Paging(s) /\ Lines(u) = Lines(s)
       /\ \/ o.ok = TRUE /\ u.reply = OnLine(s)
          \/ o.ok = FALSE /\ u.faults # s.faults
  BY <1>5, <1>7, <1>9, <1>10, <1>11 DEF Delivered, Content
<1>13. Trusted(u)
  BY <1>12 DEF Trusted, Paging, Paged, Lines, Picked
<1>14. Shaped(o)
  BY <1>2, <1>12, MessageShaped, SetMuxShaped
<1> QED BY <1>11, <1>12, <1>13, <1>14 DEF Bridged, Registers

(* lmx2594write.                                                           *)
WithRegister(t, c, v) == [[t EXCEPT !.r0[c] = v] EXCEPT !.reply = OnLine(t)]
LEMMA WithRegisterIs ==
  ASSUME NEW s \in BusState, NEW c \in Chips, NEW v \in RegKind, NEW t, t = WithRegister(s, c, v)
  PROVE  /\ t \in BusState /\ t.reply = OnLine(s) /\ t.faults = s.faults /\ t.strayed = s.strayed
         /\ Wires(t) = Wires(s) /\ Paging(t) = Paging(s) /\ Lines(t) = Lines(s)
         /\ t.r0 = [s.r0 EXCEPT ![c] = v] /\ t.init = s.init
<1>1. PICK r \in ReplyKind : r = OnLine(s)
  BY LineIs
<1>2. PICK u : u = [s EXCEPT !.r0[c] = v]
  OBVIOUS
<1>3. u \in BusState
  BY <1>2 DEF BusState
<1>4. /\ u.faults = s.faults /\ u.strayed = s.strayed
      /\ Wires(u) = Wires(s) /\ Paging(u) = Paging(s) /\ Lines(u) = Lines(s)
      /\ u.r0 = [s.r0 EXCEPT ![c] = v] /\ u.init = s.init
  BY <1>2, <1>3 DEF BusState, Wires, Paging, Lines
<1>5. t = [u EXCEPT !.reply = r]
  BY <1>1, <1>2 DEF WithRegister
<1>6. t \in BusState
  BY <1>3, <1>5 DEF BusState
<1>7. /\ t.faults = u.faults /\ t.strayed = u.strayed /\ t.reply = r
      /\ Wires(t) = Wires(u) /\ Paging(t) = Paging(u) /\ Lines(t) = Lines(u)
      /\ t.r0 = u.r0 /\ t.init = u.init
  BY <1>3, <1>5 DEF BusState, Wires, Paging, Lines
<1> QED BY <1>1, <1>4, <1>6, <1>7

(* A register is written by a message to the bridge, which fails or is     *)
(* heard.                                                                  *)
LEMMA RegisterWritten ==
  ASSUME NEW s, Trusted(s), NEW c \in Chips, NEW v \in RegKind, v.cfg # "elsewhere",
         NEW o \in lmx2594write(s, c, v)
  PROVE  Bridged(s, o, [s.r0 EXCEPT ![c] = v])
<1>1. s \in BusState /\ Sane(s)
  BY DEF Trusted, Sane
<1>2. PICK r \in setMux(s, "Bridge") :
        IF r.ok THEN o \in Message(r.s, "Bridge", WithRegister(r.s, c, v)) ELSE o = r
  <2>1. PICK r \in setMux(s, "Bridge") :
          IF r.ok THEN o \in Message(r.s, "Bridge", [Written(r.s, c, v) EXCEPT !.reply = OnLine(r.s)])
          ELSE o = r
    BY DEF lmx2594write, spiSend, iicWrite, Then
  <2>2. [Written(r.s, c, v) EXCEPT !.reply = OnLine(r.s)] = WithRegister(r.s, c, v)
    BY DEF Written, WithRegister
  <2> QED BY <2>1, <2>2
<1>3. Routed(s, "Bridge", r)
  BY <1>1, <1>2, SetMux, BusAssumption
<1>4. PICK t \in BusState : t = r.s
  BY <1>3 DEF Routed, Sane
<1>5. Content(t) = Content(s) /\ t.strayed = FALSE
  BY <1>3, <1>4, RewiredContent DEF Routed, Sane
<1>6. PICK e : e = WithRegister(t, c, v)
  OBVIOUS
<1>7. /\ e \in BusState /\ e.reply = OnLine(t) /\ e.faults = t.faults /\ e.strayed = t.strayed
      /\ Wires(e) = Wires(t) /\ Paging(e) = Paging(t) /\ Lines(e) = Lines(t)
      /\ e.r0 = [t.r0 EXCEPT ![c] = v] /\ e.init = t.init
  BY <1>6, WithRegisterIs
<1>8. /\ Wires(e) = Wires(r.s) /\ e.faults = r.s.faults /\ e.strayed = FALSE
      /\ r.ok = TRUE => o \in Message(r.s, "Bridge", e)
      /\ r.ok = FALSE => o = r
  BY <1>2, <1>4, <1>5, <1>6, <1>7
<1>9. Delivered(s, e, o)
  BY <1>1, <1>3, <1>7, <1>8, Delivery
<1>10. OnLine(t) = OnLine(s)
  BY <1>5, OnLineSame DEF Content
<1>11. PICK u : u = o.s
  OBVIOUS
<1>12. /\ Sane(u) /\ u.faults <= s.faults
       /\ u.init = s.init /\ Paging(u) = Paging(s) /\ Lines(u) = Lines(s)
       /\ \/ o.ok = TRUE /\ u.reply = OnLine(s) /\ u.r0 = [s.r0 EXCEPT ![c] = v]
          \/ o.ok = FALSE /\ u.faults # s.faults /\ u.r0 \in {s.r0, [s.r0 EXCEPT ![c] = v]}
  BY <1>5, <1>7, <1>9, <1>10, <1>11 DEF Delivered, Content, Registers
<1>13. Trusted(u)
  BY <1>12 DEF Trusted, Paging, Paged, Lines, Picked
<1> QED BY <1>11, <1>12, <1>13 DEF Bridged

(* A word for another register leaves register 0.                          *)
LEMMA OtherWritten ==
  ASSUME NEW s, Trusted(s), NEW c \in Chips, NEW v, v.cfg = "elsewhere", NEW o \in lmx2594write(s, c, v)
  PROVE  Bridged(s, o, s.r0)
<1>1. PICK r \in setMux(s, "Bridge") :
        IF r.ok THEN o \in Message(r.s, "Bridge", [Written(r.s, c, v) EXCEPT !.reply = OnLine(r.s)])
        ELSE o = r
  BY DEF lmx2594write, spiSend, iicWrite, Then
<1>2. [Written(r.s, c, v) EXCEPT !.reply = OnLine(r.s)] = Answered(r.s)
  BY DEF Written, Answered
<1>3. o \in Probe(s)
  BY <1>1, <1>2 DEF Probe, iicWrite, Then
<1> QED BY <1>3, Probed

LEMMA MisoShaped ==
  ASSUME NEW s, NEW c, NEW o \in SelectMiso(s, c)
  PROVE  Shaped(o)
<1>1. ASSUME NEW t, NEW q \in Done(t) PROVE Shaped(q)
  BY <1>1 DEF Done, Shaped
<1>2. ASSUME NEW q \in MisoWritten(s, c) PROVE Shaped(q)
  <2>1. PICK r \in setMux(s, "Expander") :
          IF r.ok THEN q \in Message(r.s, "Expander", WithMiso(r.s, c)) ELSE q = r
    BY <1>2 DEF MisoWritten, iicWrite, Then
  <2>2. Shaped(r)
    BY SetMuxShaped
  <2> QED BY <2>1, <2>2, MessageShaped
<1>3. CASE s.target = "zcu208" \/ s.selected = c
  BY <1>1, <1>3 DEF SelectMiso, spiSDOMuxSelect, SelectByExpander
<1>4. CASE ~(s.target = "zcu208" \/ s.selected = c)
  <2>1. PICK q \in MisoWritten(s, c) : o = [q EXCEPT !.s.selected = SelectedAfter(c, q.ok)]
    BY <1>4 DEF SelectMiso, SelectByExpander, MisoWritten, WithMiso
  <2>2. Shaped(q)
    BY <1>2
  <2> QED BY <2>1, <2>2 DEF Shaped
<1> QED BY <1>3, <1>4

LEMMA AskedShaped ==
  ASSUME NEW s, NEW d, NEW o \in asked(s, d)
  PROVE  Shaped(o)
<1>1. PICK r \in setMux(s, d) : IF r.ok THEN o \in Message(r.s, d, r.s) ELSE o = r
  BY DEF asked, Then
<1>2. Shaped(r)
  BY SetMuxShaped
<1> QED BY <1>1, <1>2, MessageShaped

(* lmx2594read.                                                            *)
LEMMA Transferred ==
  ASSUME NEW s, Trusted(s), NEW c \in Chips, NEW o \in spiTransfer(s, c)
  PROVE  /\ Passed(s, o) /\ Shaped(o)
         /\ o.ok = TRUE => o.s.reply.chip = c /\ o.s.reply.r0 = Held(s, c)
<1>1. c \in 0 .. 3 /\ s.faults \in Nat
  BY ChipsAre DEF Trusted, Sane, BusState
<1>2. PICK a \in SelectMiso(s, c) :
        IF a.ok THEN o \in Then(Probe(a.s), LAMBDA t : asked(t, "Bridge")) ELSE o = a
  BY DEF spiTransfer, spiSend, Probe, Answered, asked, iicWrite, Then
<1>3. Passed(s, a) /\ (a.ok = TRUE => a.s.miso = c) /\ Shaped(a)
  BY <1>1, MisoSelected, MisoShaped
<1>4. CASE a.ok = FALSE
  <2>1. o = a
    BY <1>2, <1>4
  <2>2. ~(o.ok = TRUE)
    BY <1>4, <2>1
  <2> QED BY <1>3, <2>1, <2>2
<1>5. CASE a.ok = TRUE
  <2>1. PICK t : t = a.s
    OBVIOUS
  <2>2. /\ Trusted(t) /\ t.miso = c /\ t.faults <= s.faults /\ Registers(t) = Registers(s)
        /\ t \in BusState /\ t.faults \in Nat /\ Asking(t) = Asking(s)
    BY <1>3, <1>5, <2>1 DEF Passed, Trusted, Sane, BusState
  <2>3. OnLine(t).chip = c /\ OnLine(t).r0 = Held(s, c)
    <3>1. OnLine(t).chip = c /\ OnLine(t).r0 = Held(t, c)
      BY <2>2, LineIs
    <3> QED BY <2>2, <3>1 DEF Held, Registers
  <2>4. PICK b \in Probe(t) : IF b.ok THEN o \in asked(b.s, "Bridge") ELSE o = b
    <3>1. o \in Then(Probe(t), LAMBDA u : asked(u, "Bridge"))
      BY <1>2, <1>5, <2>1
    <3> QED BY <3>1 DEF Then
  <2>5. Bridged(t, b, t.r0) /\ Shaped(b)
    BY <2>2, <2>4, Probed
  <2>6. PICK u : u = b.s
    OBVIOUS
  <2>7. /\ Trusted(u) /\ u.faults <= t.faults /\ Registers(u) = Registers(s) /\ u.faults \in Nat /\ Sane(u)
        /\ Asking(u) = Asking(s)
        /\ \/ b.ok = TRUE /\ u.reply = OnLine(t)
           \/ b.ok = FALSE /\ u.faults # t.faults
    BY <2>2, <2>5, <2>6 DEF Bridged, Registers, Lines, Asking, Trusted, Sane, BusState
  <2>8. CASE b.ok = FALSE /\ u.faults # t.faults
    <3>1. o = b /\ u.faults <= s.faults /\ u.faults # s.faults
      BY <1>1, <2>2, <2>4, <2>7, <2>8
    <3>2. ~(o.ok = TRUE)
      BY <2>8, <3>1
    <3> QED BY <2>5, <2>6, <2>7, <2>8, <3>1, <3>2 DEF Passed
  <2>9. CASE b.ok = TRUE /\ u.reply = OnLine(t)
    <3>1. o \in asked(u, "Bridge")
      BY <2>4, <2>6, <2>9
    <3>2. Routed(u, "Bridge", o) /\ Shaped(o)
      BY <2>7, <3>1, Asked, AskedShaped, BusAssumption
    <3>3. PICK v : v = o.s
      OBVIOUS
    <3>4. /\ Sane(v) /\ v.faults <= u.faults /\ v.reply = u.reply
          /\ Lines(v) = Lines(u) /\ Registers(v) = Registers(u) /\ Paging(v) = Paging(u)
          /\ v.faults \in Nat
          /\ o.ok = TRUE \/ (o.ok = FALSE /\ v.faults # u.faults)
      BY <3>2, <3>3 DEF Routed, Rewired, Sane, BusState
    <3>5. Trusted(v)
      BY <2>7, <3>4 DEF Trusted, Lines, Picked, Paging, Paged
    <3>6. v.faults <= s.faults /\ (v.faults # u.faults => v.faults # s.faults)
      BY <1>1, <2>2, <2>7, <3>4
    <3>7. Passed(s, o)
      BY <2>7, <3>3, <3>4, <3>5, <3>6 DEF Passed, Lines, Asking
    <3> QED BY <2>3, <2>9, <3>2, <3>3, <3>4, <3>7
  <2> QED BY <2>7, <2>8, <2>9
<1> QED BY <1>3, <1>4, <1>5 DEF Passed

(* A read answers what the chip holds unless a transfer failed.            *)
LEMMA RegisterRead ==
  ASSUME NEW s, Trusted(s), NEW c \in Chips, NEW o \in lmx2594read(s, c)
  PROVE  /\ Trusted(o.s) /\ Registers(o.s) = Registers(s) /\ o.s.faults <= s.faults
         /\ Asking(o.s) = Asking(s)
         /\ o.s.faults = s.faults => o.s.reply.r0 = Held(s, c)
<1>1. c \in 0 .. 3
  BY ChipsAre
<1>2. PICK q \in spiTransfer(s, c) :
        o = [q EXCEPT !.s.reply = IF q.ok THEN q.s.reply ELSE [chip |-> c, r0 |-> Nobodys],
                      !.s.misread = @ \/ (q.ok /\ q.s.reply.chip # c)]
  BY DEF lmx2594read
<1>3. /\ Passed(s, q) /\ Shaped(q)
      /\ q.ok = TRUE => q.s.reply.chip = c /\ q.s.reply.r0 = Held(s, c)
  BY Transferred
<1>4. PICK t : t = q.s
  OBVIOUS
<1>5. /\ Trusted(t) /\ t \in BusState /\ Registers(t) = Registers(s) /\ t.faults <= s.faults
      /\ Asking(t) = Asking(s) /\ t.misread = FALSE
  BY <1>3, <1>4 DEF Passed, Trusted, Sane
<1>6. PICK r \in ReplyKind :
        /\ o.s = [[t EXCEPT !.reply = r] EXCEPT !.misread = FALSE]
        /\ t.faults = s.faults => r.r0 = Held(s, c)
  <2>1. CASE q.ok = TRUE
    <3>1. q = [s |-> t, ok |-> TRUE]
      BY <1>3, <1>4, <2>1 DEF Shaped
    <3>2. (t.misread \/ (q.ok /\ t.reply.chip # c)) = FALSE
      BY <1>3, <1>4, <1>5, <2>1
    <3>3. o = [[q EXCEPT !.s.reply = t.reply] EXCEPT !.s.misread = FALSE]
      BY <1>2, <1>4, <2>1, <3>1, <3>2
    <3>4. o.s = [[t EXCEPT !.reply = t.reply] EXCEPT !.misread = FALSE]
      BY <3>1, <3>3
    <3>5. t.reply \in ReplyKind
      BY <1>5 DEF BusState
    <3> QED BY <1>3, <1>4, <2>1, <3>4, <3>5
  <2>2. CASE q.ok = FALSE /\ t.faults # s.faults
    <3>1. q = [s |-> t, ok |-> FALSE]
      BY <1>3, <1>4, <2>2 DEF Shaped
    <3>2. (t.misread \/ (q.ok /\ t.reply.chip # c)) = FALSE
      BY <1>5, <2>2
    <3>3. PICK r \in ReplyKind : r = [chip |-> c, r0 |-> Nobodys]
      BY <1>1 DEF ReplyKind, Nobodys, R0, RegKind
    <3>4. o = [[q EXCEPT !.s.reply = r] EXCEPT !.s.misread = FALSE]
      BY <1>2, <1>4, <2>2, <3>1, <3>2, <3>3
    <3>5. o.s = [[t EXCEPT !.reply = r] EXCEPT !.misread = FALSE]
      BY <3>1, <3>4
    <3> QED BY <2>2, <3>5
  <2> QED BY <1>3, <1>4, <2>1, <2>2 DEF Passed
<1>7. PICK u : u = [t EXCEPT !.reply = r]
  OBVIOUS
<1>8. u \in BusState
  BY <1>5, <1>7 DEF BusState
<1>9. PICK v : v = o.s
  OBVIOUS
<1>10. v \in BusState
  BY <1>6, <1>7, <1>8, <1>9 DEF BusState
<1>11. /\ v.faults = t.faults /\ v.strayed = t.strayed /\ v.reply = r /\ v.misread = FALSE
       /\ Wires(v) = Wires(t) /\ Registers(v) = Registers(t)
       /\ Paging(v) = Paging(t) /\ Lines(v) = Lines(t)
  BY <1>5, <1>6, <1>9 DEF BusState, Wires, Registers, Paging, Lines
<1>12. Trusted(v)
  BY <1>5, <1>10, <1>11 DEF Trusted, Sane, Wires, Wired, Paging, Paged, Lines, Picked
<1> QED BY <1>5, <1>6, <1>9, <1>11, <1>12 DEF Lines, Asking

(* What is about synthesizer c leaves the registers of the others alone.   *)
Concerning(s, t, c) ==
  /\ Trusted(t) /\ t.faults <= s.faults /\ Asking(t) = Asking(s)
  /\ \A x \in Chips \ {c} : t.r0[x] = s.r0[x] /\ t.init[x] = s.init[x]

LEMMA TrustedIs ==
  ASSUME NEW s, Trusted(s)
  PROVE  /\ s \in BusState /\ s.faults \in Nat
         /\ s.r0 \in [Chips -> RegKind] /\ s.init \in [Chips -> RegKind]
BY DEF Trusted, Sane, BusState

(* Two functions about the same synthesizer make one.                      *)
LEMMA ConcerningTwice ==
  ASSUME NEW s, Trusted(s), NEW c, NEW t, Concerning(s, t, c), NEW u, Concerning(t, u, c)
  PROVE  /\ Concerning(s, u, c)
         /\ u.faults = s.faults => t.faults = s.faults /\ u.faults = t.faults
<1>1. s.faults \in Nat /\ t.faults \in Nat /\ u.faults \in Nat
  BY TrustedIs DEF Concerning
<1> QED BY <1>1 DEF Concerning

(* A write and a read, as functions about their synthesizer.               *)
LEMMA WriteConcerns ==
  ASSUME NEW s, Trusted(s), NEW c \in Chips, NEW v \in RegKind, NEW o \in lmx2594write(s, c, v)
  PROVE  /\ Concerning(s, o.s, c) /\ o.s.init = s.init
         /\ o.s.faults = s.faults => o.s.r0[c] = IF v.cfg = "elsewhere" THEN s.r0[c] ELSE v
<1>1. PICK t : t = o.s
  OBVIOUS
<1>2. s.r0 \in [Chips -> RegKind]
  BY TrustedIs
<1>3. PICK q : q = IF v.cfg = "elsewhere" THEN s.r0 ELSE [s.r0 EXCEPT ![c] = v]
  OBVIOUS
<1>4. Bridged(s, o, q)
  BY <1>3, RegisterWritten, OtherWritten
<1>5. /\ Trusted(t) /\ t.init = s.init /\ t.faults <= s.faults /\ Asking(t) = Asking(s)
      /\ \/ t.r0 = q
         \/ t.faults # s.faults /\ t.r0 = s.r0
  BY <1>1, <1>4 DEF Bridged, Lines, Asking
<1>6. /\ \A x \in Chips \ {c} : q[x] = s.r0[x]
      /\ q[c] = IF v.cfg = "elsewhere" THEN s.r0[c] ELSE v
  BY <1>2, <1>3
<1> QED BY <1>1, <1>5, <1>6 DEF Concerning

LEMMA ReadConcerns ==
  ASSUME NEW s, Trusted(s), NEW c \in Chips, NEW o \in lmx2594read(s, c)
  PROVE  /\ Concerning(s, o.s, c) /\ o.s.init = s.init /\ o.s.r0 = s.r0
         /\ o.s.reply.r0 \in RegKind
         /\ o.s.faults = s.faults => o.s.reply.r0 = Held(s, c)
<1>1. PICK t : t = o.s
  OBVIOUS
<1>2. /\ Trusted(t) /\ Registers(t) = Registers(s) /\ t.faults <= s.faults
      /\ Asking(t) = Asking(s)
      /\ t.faults = s.faults => t.reply.r0 = Held(s, c)
  BY <1>1, RegisterRead
<1>3. t.reply \in ReplyKind
  BY <1>2 DEF Trusted, Sane, BusState
<1>4. t.reply.r0 \in RegKind
  BY <1>3 DEF ReplyKind
<1> QED BY <1>1, <1>2, <1>4 DEF Concerning, Registers

LEMMA RegistersAre ==
  /\ Raw("reset") \in RegKind /\ Nobodys \in RegKind /\ OtherRegister \in RegKind
  /\ Raw("stray") \in RegKind /\ OtherRegister.cfg = "elsewhere"
  /\ \A cfg \in Configs : Raw(cfg) \in RegKind /\ cfg # "elsewhere"
  /\ Raw("reset").cfg # "elsewhere"
  /\ \A v \in RegKind : LockDetect(v) \in RegKind /\ LockDetect(v).cfg = v.cfg
  /\ \A cfg : Raw(cfg).ld = FALSE /\ Raw(cfg).cfg = cfg
  /\ \A cfg \in Configs \cup {"reset"} : LockDetect(Raw(cfg)) = Shown(cfg)
<1>1. \A cfg \in Configs : cfg # "elsewhere"
  BY BusAssumption DEF Configs
<1>2. \A cfg \in Configs \cup {"none", "reset", "stray", "elsewhere"} : Raw(cfg) \in RegKind
  BY DEF Raw, R0, RegKind
<1>3. ASSUME NEW v \in RegKind PROVE LockDetect(v) \in RegKind /\ LockDetect(v).cfg = v.cfg
  BY DEF RegKind, LockDetect
<1>4. \A cfg : Raw(cfg).ld = FALSE /\ Raw(cfg).cfg = cfg
  BY DEF Raw, R0
<1>5. ASSUME NEW cfg \in Configs \cup {"reset"} PROVE LockDetect(Raw(cfg)) = Shown(cfg)
  <2>1. PICK v \in RegKind, f \in BOOLEAN : v = Raw(cfg) /\ v.cfg = cfg /\ f = TRUE
    BY <1>2, <1>4
  <2>2. [v EXCEPT !.ld = f] = [cfg |-> v.cfg, ld |-> f]
    BY DEF RegKind
  <2> QED BY <2>1, <2>2 DEF LockDetect, Raw, Shown, R0
<1>6. Nobodys = Raw("none") /\ OtherRegister = Raw("elsewhere")
  BY DEF Nobodys, OtherRegister, Raw
<1> QED BY <1>1, <1>2, <1>3, <1>4, <1>5, <1>6

WithInit(s, c, v) == [s EXCEPT !.init[c] = v]
LEMMA WithInitIs ==
  ASSUME NEW s, Trusted(s), NEW c \in Chips, NEW v \in RegKind, NEW t, t = WithInit(s, c, v)
  PROVE  Concerning(s, t, c) /\ t.r0 = s.r0 /\ t.init[c] = v /\ t.faults = s.faults
<1>1. s \in BusState /\ s.faults \in Nat /\ s.init \in [Chips -> RegKind]
  BY TrustedIs
<1>2. t \in BusState
  BY <1>1 DEF BusState, WithInit
<1>3. /\ t.faults = s.faults /\ t.strayed = s.strayed /\ Wires(t) = Wires(s)
      /\ Paging(t) = Paging(s) /\ Lines(t) = Lines(s) /\ t.r0 = s.r0
      /\ t.init = [s.init EXCEPT ![c] = v]
  BY <1>1, <1>2 DEF BusState, WithInit, Wires, Paging, Lines
<1>4. Trusted(t)
  BY <1>2, <1>3 DEF Trusted, Sane, Wires, Wired, Paging, Paged, Lines, Picked
<1> QED BY <1>1, <1>3, <1>4 DEF Concerning, Lines, Asking

(* init2594: what is kept is of the table, if it has a register 0, and so   *)
(* is what the synthesizer has, unless a transfer has failed.              *)
Given(cfg) == IF cfg \in Lacking THEN "reset" ELSE cfg

LEMMA TableWritten ==
  ASSUME NEW s, Trusted(s), NEW c \in Chips, NEW cfg \in Configs, NEW o \in WriteTable(s, c, cfg)
  PROVE  /\ Concerning(s, o.s, c)
         /\ o.s.init[c] = IF cfg \in Lacking THEN s.init[c] ELSE Raw(cfg)
         /\ o.s.faults = s.faults =>
              o.s.r0[c] = IF cfg \in Lacking THEN s.r0[c] ELSE Raw(cfg)
<1>1. PICK w \in RegKind, x \in RegKind :
        w = Raw(cfg) /\ w.cfg # "elsewhere" /\ x = OtherRegister /\ x.cfg = "elsewhere"
  <2>1. /\ Raw(cfg) \in RegKind /\ Raw(cfg).cfg # "elsewhere"
        /\ OtherRegister \in RegKind /\ OtherRegister.cfg = "elsewhere"
    BY RegistersAre
  <2> QED BY <2>1
<1>2. PICK a \in lmx2594write(s, c, x) :
        o \in IF cfg \in Lacking THEN Done(a.s) ELSE lmx2594write(WithInit(a.s, c, w), c, w)
  BY <1>1 DEF WriteTable, Regardless, WithInit, Raw
<1>3. PICK t : t = a.s
  OBVIOUS
<1>4. /\ Concerning(s, t, c) /\ Trusted(t) /\ t.init = s.init
      /\ t.faults = s.faults => t.r0[c] = s.r0[c]
  BY <1>1, <1>3, WriteConcerns DEF Concerning
<1>5. CASE cfg \in Lacking
  <2>1. o.s = t
    BY <1>2, <1>3, <1>5 DEF Done
  <2> QED BY <1>4, <1>5, <2>1
<1>6. CASE cfg \notin Lacking
  <2>1. PICK u : u = WithInit(t, c, w)
    OBVIOUS
  <2>2. Concerning(t, u, c) /\ u.init[c] = w /\ Trusted(u)
    BY <1>4, <2>1, WithInitIs DEF Concerning
  <2>3. PICK v : v = o.s
    OBVIOUS
  <2>4. /\ Concerning(u, v, c) /\ v.init = u.init
        /\ v.faults = u.faults => v.r0[c] = w
    BY <1>1, <1>2, <1>3, <1>6, <2>1, <2>2, <2>3, WriteConcerns
  <2>5. Concerning(s, u, c)
    BY <1>4, <2>2, ConcerningTwice
  <2>6. Concerning(s, v, c) /\ (v.faults = s.faults => v.faults = u.faults)
    BY <2>4, <2>5, ConcerningTwice
  <2> QED BY <1>1, <1>6, <2>2, <2>3, <2>4, <2>6
<1> QED BY <1>5, <1>6

LEMMA Initialised ==
  ASSUME NEW s, Trusted(s), NEW c \in Chips, NEW cfg \in Configs, NEW o \in init2594(s, c, cfg)
  PROVE  /\ Concerning(s, o.s, c)
         /\ o.s.init[c] = IF cfg \in Lacking THEN s.init[c] ELSE Raw(cfg)
         /\ o.s.faults = s.faults => o.s.r0[c] = Raw(Given(cfg))
<1>1. PICK v \in RegKind : v = Raw("reset") /\ v.cfg # "elsewhere"
  BY RegistersAre
<1>2. PICK a \in lmx2594write(s, c, v) :
        o \in Regardless(lmx2594write(a.s, c, v), LAMBDA u : WriteTable(u, c, cfg))
  <2>1. PICK a \in lmx2594write(s, c, Raw("reset")) :
          o \in Regardless(lmx2594write(a.s, c, Raw("reset")), LAMBDA u : WriteTable(u, c, cfg))
    BY DEF init2594, Regardless, Raw
  <2> QED BY <1>1, <2>1
<1>3. PICK t : t = a.s
  OBVIOUS
<1>4. Concerning(s, t, c) /\ Trusted(t) /\ t.init = s.init
  <2>1. Concerning(s, t, c) /\ t.init = s.init
    BY <1>1, <1>2, <1>3, WriteConcerns
  <2> QED BY <2>1 DEF Concerning
<1>5. PICK u : o \in WriteTable(u, c, cfg) /\ \E b \in lmx2594write(t, c, v) : u = b.s
  BY <1>2, <1>3 DEF Regardless
<1>6. /\ Concerning(t, u, c) /\ Trusted(u) /\ u.init = t.init
      /\ u.faults = t.faults => u.r0[c] = v
  <2>1. /\ Concerning(t, u, c) /\ u.init = t.init
        /\ u.faults = t.faults => u.r0[c] = v
    BY <1>1, <1>4, <1>5, WriteConcerns
  <2> QED BY <2>1 DEF Concerning
<1>7. PICK x : x = o.s
  OBVIOUS
<1>8. /\ Concerning(u, x, c)
      /\ x.init[c] = IF cfg \in Lacking THEN u.init[c] ELSE Raw(cfg)
      /\ x.faults = u.faults => x.r0[c] = IF cfg \in Lacking THEN u.r0[c] ELSE Raw(cfg)
  BY <1>5, <1>6, <1>7, TableWritten
<1>9. Concerning(s, u, c) /\ (u.faults = s.faults => u.faults = t.faults)
  BY <1>4, <1>6, ConcerningTwice
<1>10. Concerning(s, x, c) /\ (x.faults = s.faults => u.faults = s.faults /\ x.faults = u.faults)
  BY <1>8, <1>9, ConcerningTwice
<1>11. x.faults = s.faults => x.r0[c] = Raw(Given(cfg))
  BY <1>1, <1>6, <1>8, <1>9, <1>10 DEF Given
<1> QED BY <1>4, <1>6, <1>7, <1>8, <1>10, <1>11

(* start2594                                                               *)
LEMMA Started ==
  ASSUME NEW s, Trusted(s), NEW c \in Chips, NEW o \in start2594(s, c)
  PROVE  /\ Concerning(s, o.s, c) /\ o.s.init = s.init
         /\ o.s.faults = s.faults /\ s.r0[c].ld = FALSE /\ s.r0[c].cfg # "elsewhere" =>
              o.s.r0[c] = LockDetect(s.r0[c])
<1>1. PICK a \in lmx2594read(s, c) :
        o \in Regardless(lmx2594write(a.s, c, a.s.reply.r0), LAMBDA u :
               Regardless(lmx2594read(u, c), LAMBDA v : lmx2594write(v, c, LockDetect(a.s.reply.r0))))
  BY DEF start2594, Regardless
<1>2. PICK r : r = a.s.reply.r0
  OBVIOUS
<1>3. PICK t : t = a.s
  OBVIOUS
<1>4. /\ Concerning(s, t, c) /\ t.init = s.init /\ r \in RegKind
      /\ t.faults = s.faults => r = Held(s, c)
  BY <1>2, <1>3, ReadConcerns
<1>5. PICK b \in lmx2594write(t, c, r) :
        o \in Regardless(lmx2594read(b.s, c), LAMBDA v : lmx2594write(v, c, LockDetect(r)))
  BY <1>1, <1>2, <1>3 DEF Regardless
<1>6. PICK u : u = b.s
  OBVIOUS
<1>7. Concerning(t, u, c) /\ u.init = t.init /\ Trusted(t)
  BY <1>4, <1>6, WriteConcerns DEF Concerning
<1>8. PICK d \in lmx2594read(u, c) : o \in lmx2594write(d.s, c, LockDetect(r))
  BY <1>5, <1>6 DEF Regardless
<1>9. PICK v : v = d.s
  OBVIOUS
<1>10. Concerning(u, v, c) /\ v.init = u.init /\ Trusted(u)
  BY <1>7, <1>9, ReadConcerns DEF Concerning
<1>11. PICK x : x = o.s
  OBVIOUS
<1>12. PICK w \in RegKind : w = LockDetect(r) /\ w.cfg = r.cfg
  BY <1>4, RegistersAre
<1>13. /\ Concerning(v, x, c) /\ x.init = v.init /\ Trusted(v)
       /\ x.faults = v.faults /\ w.cfg # "elsewhere" => x.r0[c] = w
  BY <1>8, <1>9, <1>10, <1>11, <1>12, WriteConcerns DEF Concerning
<1>14. Concerning(s, u, c) /\ (u.faults = s.faults => t.faults = s.faults)
  BY <1>4, <1>7, ConcerningTwice
<1>15. Concerning(s, v, c) /\ (v.faults = s.faults => u.faults = s.faults)
  BY <1>10, <1>14, ConcerningTwice
<1>16. Concerning(s, x, c) /\ (x.faults = s.faults => v.faults = s.faults /\ x.faults = v.faults)
  BY <1>13, <1>15, ConcerningTwice
<1>17. s.r0[c].ld = FALSE => Held(s, c) = s.r0[c]
  BY DEF Held
<1> QED BY <1>4, <1>7, <1>10, <1>11, <1>12, <1>13, <1>14, <1>15, <1>16, <1>17

(* A configuration, and an inspection, of one synthesizer.                 *)
LEMMA Configured ==
  ASSUME NEW s, Trusted(s), NEW c \in Chips, NEW cfg \in Configs, NEW o \in lmx2594Config(s, c, cfg)
  PROVE  /\ Concerning(s, o.s, c)
         /\ o.s.init[c] = IF cfg \in Lacking THEN s.init[c] ELSE Raw(cfg)
         /\ o.s.faults = s.faults => o.s.r0[c] = Shown(Given(cfg))
<1>1. PICK a \in init2594(s, c, cfg) : o \in start2594(a.s, c)
  BY DEF lmx2594Config, Regardless
<1>2. PICK t : t = a.s
  OBVIOUS
<1>3. PICK w : /\ w = Raw(Given(cfg)) /\ w.ld = FALSE /\ w.cfg # "elsewhere"
               /\ LockDetect(w) = Shown(Given(cfg))
  BY RegistersAre DEF Given
<1>4. /\ Concerning(s, t, c) /\ Trusted(t)
      /\ t.init[c] = IF cfg \in Lacking THEN s.init[c] ELSE Raw(cfg)
      /\ t.faults = s.faults => t.r0[c] = w
  <2>1. /\ Concerning(s, a.s, c)
        /\ a.s.init[c] = IF cfg \in Lacking THEN s.init[c] ELSE Raw(cfg)
        /\ a.s.faults = s.faults => a.s.r0[c] = Raw(Given(cfg))
    BY <1>1, Initialised, ZenonT(40)
  <2> QED BY <1>2, <1>3, <2>1 DEF Concerning
<1>5. PICK x : x = o.s
  OBVIOUS
<1>6. /\ Concerning(t, x, c) /\ x.init = t.init
      /\ x.faults = t.faults /\ t.r0[c].ld = FALSE /\ t.r0[c].cfg # "elsewhere" =>
           x.r0[c] = LockDetect(t.r0[c])
  BY <1>1, <1>2, <1>4, <1>5, Started
<1>7. Concerning(s, x, c) /\ (x.faults = s.faults => t.faults = s.faults /\ x.faults = t.faults)
  BY <1>4, <1>6, ConcerningTwice
<1>8. x.faults = s.faults => x.r0[c] = Shown(Given(cfg))
  BY <1>3, <1>4, <1>6, <1>7
<1> QED BY <1>4, <1>5, <1>6, <1>7, <1>8

(* The registers that are read of a synthesizer, however many.             *)
LEMMA ReadsConcern ==
  ASSUME NEW s, Trusted(s), NEW c \in Chips, NEW n \in Nat,
         NEW o \in ReadLoop!Outcomes(s, [i \in 1 .. n |-> c], 0)
  PROVE  Concerning(s, o.s, c) /\ o.s.init = s.init
<1> DEFINE seq == [i \in 1 .. n |-> c]
           Good(t) == Concerning(s, t, c) /\ t.init = s.init
           I == {x \in Nat \X BusState : Good(x[2])}
<1>1. \A k \in Nat : \A t : <<k, t>> \in I <=> Good(t)
  BY TrustedIs DEF Concerning
<1>2. seq \in Seq(Chips) /\ Len(seq) = n
  OBVIOUS
<1>3. <<0, s>> \in I
  <2>1. Good(s)
    BY TrustedIs DEF Concerning
  <2> QED BY <1>1, <2>1
<1>4. ASSUME NEW k \in 1 .. Len(seq), NEW t, <<k - 1, t>> \in I, NEW q \in ReadOne(t, seq[k], 0)
      PROVE  <<k, q.s>> \in I
  <2>1. k \in Nat /\ k - 1 \in Nat /\ seq[k] = c
    BY <1>2
  <2>2. Good(t) /\ Trusted(t)
    BY <1>1, <1>4, <2>1 DEF Concerning
  <2>3. PICK u : u = q.s
    OBVIOUS
  <2>4. Concerning(t, u, c) /\ u.init = t.init
    BY <1>4, <2>1, <2>2, <2>3, ReadConcerns DEF ReadOne
  <2>5. Concerning(s, u, c)
    BY <2>2, <2>4, ConcerningTwice
  <2>6. Good(u)
    BY <2>2, <2>4, <2>5
  <2> QED BY <1>1, <2>1, <2>3, <2>6
<1>5. PICK t : t = o.s
  OBVIOUS
<1> HIDE DEF I
<1>6. <<Len(seq), t>> \in I
  BY <1>2, <1>3, <1>4, <1>5, ReadLoop!InTurnRule
<1> QED BY <1>1, <1>2, <1>5, <1>6

LEMMA InitValuesAre ==
  ASSUME NEW s, Trusted(s), NEW c \in Chips, NEW z \in InitValues(s, c)
  PROVE  z \in RegKind /\ (c \in Slots(s) => z = s.init[c])
<1>1. s.init[c] \in RegKind /\ Raw("stray") \in RegKind /\ OtherRegister \in RegKind
  BY TrustedIs, RegistersAre
<1> QED BY <1>1 DEF InitValues, Raw

LEMMA Inspected ==
  ASSUME NEW s, Trusted(s), NEW c \in Chips, NEW n \in Nat, NEW o \in Inspect(s, c, n)
  PROVE  /\ Concerning(s, o.s, c) /\ o.s.init = s.init
         /\ o.s.faults = s.faults /\ c \in Slots(s) /\ s.init[c] = Raw(s.asked) =>
              o.s.r0[c] = Shown(s.asked)
<1>1. PICK z \in InitValues(s, c) :
        o \in Regardless(lmx2594write(s, c, z), LAMBDA t :
                Regardless(InTurn(t, [i \in 1 .. n |-> c], lmx2594read), LAMBDA u :
                  lmx2594write(u, c, LockDetect(z))))
  BY DEF Inspect
<1>2. z \in RegKind /\ (c \in Slots(s) => z = s.init[c])
  BY InitValuesAre
<1>3. PICK a \in lmx2594write(s, c, z) :
        o \in Regardless(ReadLoop!Outcomes(a.s, [i \in 1 .. n |-> c], 0), LAMBDA u :
                lmx2594write(u, c, LockDetect(z)))
  BY <1>1 DEF InTurn, Regardless, Done, ReadOne,
              ReadLoop!Outcomes, ReadLoop!InTurn, ReadLoop!Regardless, ReadLoop!Done
<1>4. PICK t : t = a.s
  OBVIOUS
<1>5. Concerning(s, t, c) /\ t.init = s.init /\ Trusted(t)
  BY <1>2, <1>4, WriteConcerns DEF Concerning
<1>6. PICK b \in ReadLoop!Outcomes(t, [i \in 1 .. n |-> c], 0) : o \in lmx2594write(b.s, c, LockDetect(z))
  BY <1>3, <1>4 DEF Regardless
<1>7. PICK u : u = b.s
  OBVIOUS
<1>8. Concerning(t, u, c) /\ u.init = t.init /\ Trusted(u)
  BY <1>5, <1>6, <1>7, ReadsConcern DEF Concerning
<1>9. PICK w \in RegKind : w = LockDetect(z) /\ w.cfg = z.cfg
  BY <1>2, RegistersAre
<1>10. PICK x : x = o.s
  OBVIOUS
<1>11. /\ Concerning(u, x, c) /\ x.init = u.init
       /\ x.faults = u.faults /\ w.cfg # "elsewhere" => x.r0[c] = w
  BY <1>6, <1>7, <1>8, <1>9, <1>10, WriteConcerns
<1>12. Concerning(s, u, c)
  BY <1>5, <1>8, ConcerningTwice
<1>13. Concerning(s, x, c) /\ (x.faults = s.faults => x.faults = u.faults)
  BY <1>11, <1>12, ConcerningTwice
<1>14. c \in Slots(s) /\ s.init[c] = Raw(s.asked) => w = Shown(s.asked) /\ w.cfg # "elsewhere"
  <2>1. PICK cfg \in Configs : cfg = s.asked
    BY TrustedIs DEF BusState
  <2>2. LockDetect(Raw(cfg)) = Shown(cfg) /\ Raw(cfg).cfg # "elsewhere"
    BY RegistersAre
  <2> QED BY <1>2, <1>9, <2>1, <2>2
<1> QED BY <1>5, <1>8, <1>10, <1>11, <1>13, <1>14

(* Every synthesizer of the board in turn.                                 *)
LEMMA SynthesizersAre ==
  ASSUME NEW s \in BusState
  PROVE  /\ Len(Synthesizers(s)) \in Nat
         /\ \A n \in 1 .. Len(Synthesizers(s)) : Synthesizers(s)[n] \in Chips
         /\ \A c \in Present(s) : \E n \in 1 .. Len(Synthesizers(s)) : c = Synthesizers(s)[n]
         /\ Synthesizers(s)[1] \in Chips \cap Present(s) \cap Slots(s)
<1>1. PICK target \in Targets : target = s.target
  BY DEF BusState
<1>2. PICK sel \in Seq(0 .. 3) : /\ sel = lmx2594MuxSel[target] /\ sel # <<>> /\ sel[1] < Len(sel)
                                 /\ sel = Synthesizers(s)
  BY <1>1, BusAssumption DEF Synthesizers
<1>3. /\ Len(sel) \in Nat /\ DOMAIN sel = 1 .. Len(sel) /\ 1 \in DOMAIN sel
      /\ \A n \in 1 .. Len(sel) : sel[n] \in 0 .. 3
  BY <1>2
<1>4. Range(sel) \subseteq Chips
  BY <1>1, <1>2 DEF Chips
<1>5. sel[1] \in Slots(s)
  BY <1>2, <1>3 DEF Slots
<1> QED BY <1>2, <1>3, <1>4, <1>5 DEF Present, Range

LEMMA AskingIs ==
  ASSUME NEW s, NEW t, Asking(t) = Asking(s)
  PROVE  /\ t.asked = s.asked /\ Synthesizers(t) = Synthesizers(s)
         /\ Present(t) = Present(s) /\ Slots(t) = Slots(s)
BY DEF Asking, Present, Synthesizers, Slots

(* Loop invariant: what is kept of the synthesizers passed is of the table *)
(* asked for, if it has a register 0; without a fault so is what they have, *)
(* with the lock detector on the pin.                                      *)
LEMMA AllConfigured ==
  ASSUME NEW s, Trusted(s), NEW cfg \in Configs,
         NEW o \in ConfigLoop!Outcomes(s, Synthesizers(s), cfg)
  PROVE  /\ Trusted(o.s) /\ o.s.faults <= s.faults /\ Asking(o.s) = Asking(s)
         /\ \A c \in Present(s) : o.s.init[c] = IF cfg \in Lacking THEN s.init[c] ELSE Raw(cfg)
         /\ o.s.faults = s.faults => \A c \in Present(s) : o.s.r0[c] = Shown(Given(cfg))
<1> DEFINE sel == Synthesizers(s)
           Kept(t, c) == t.init[c] = IF cfg \in Lacking THEN s.init[c] ELSE Raw(cfg)
           Set(t, c) == t.r0[c] = Shown(Given(cfg))
           Good(t, n) == /\ Trusted(t) /\ t.faults <= s.faults /\ Asking(t) = Asking(s)
                         /\ \A i \in 1 .. n : Kept(t, sel[i])
                         /\ cfg \in Lacking => \A c \in Chips : t.init[c] = s.init[c]
                         /\ t.faults = s.faults => \A i \in 1 .. n : Set(t, sel[i])
           I == {x \in Nat \X BusState : Good(x[2], x[1])}
<1>1. \A n \in Nat : \A t : <<n, t>> \in I <=> Good(t, n)
  BY TrustedIs
<1>2. <<0, s>> \in I
  <2>1. Good(s, 0)
    BY TrustedIs
  <2> QED BY <2>1, <1>1
<1>3. /\ Len(sel) \in Nat /\ \A n \in 1 .. Len(sel) : sel[n] \in Chips
      /\ \A c \in Present(s) : \E n \in 1 .. Len(sel) : c = sel[n]
  BY TrustedIs, SynthesizersAre
<1> HIDE DEF I, Good, Kept, Set
<1>4. ASSUME NEW n \in 1 .. Len(sel), NEW t, <<n - 1, t>> \in I, NEW q \in ConfigOne(t, sel[n], cfg)
      PROVE  <<n, q.s>> \in I
  <2>1. n \in Nat /\ n - 1 \in Nat
    BY <1>3
  <2>2. PICK c \in Chips : c = sel[n]
    BY <1>3
  <2>3. /\ Trusted(t) /\ t.faults <= s.faults /\ Asking(t) = Asking(s)
        /\ \A i \in 1 .. n - 1 : Kept(t, sel[i])
        /\ cfg \in Lacking => \A x \in Chips : t.init[x] = s.init[x]
        /\ t.faults = s.faults => \A i \in 1 .. n - 1 : Set(t, sel[i])
    <3>1. Good(t, n - 1)
      BY <1>1, <1>4, <2>1
    <3> QED BY <3>1 DEF Good
  <2>4. PICK u : u = q.s
    OBVIOUS
  <2>5. /\ Concerning(t, u, c)
        /\ u.init[c] = IF cfg \in Lacking THEN t.init[c] ELSE Raw(cfg)
        /\ u.faults = t.faults => Set(u, c)
    BY <1>4, <2>2, <2>3, <2>4, Configured DEF ConfigOne, Set
  <2>6. /\ Trusted(u) /\ u.faults <= s.faults /\ Asking(u) = Asking(s)
        /\ u.faults = s.faults => u.faults = t.faults /\ t.faults = s.faults
    <3>1. s.faults \in Nat /\ t.faults \in Nat /\ u.faults \in Nat
      BY <2>3, <2>5, TrustedIs DEF Concerning
    <3> QED BY <2>3, <2>5, <3>1 DEF Concerning
  <2>7. cfg \in Lacking => \A x \in Chips : u.init[x] = s.init[x]
    BY <2>3, <2>5 DEF Concerning
  <2>8. ASSUME NEW i \in 1 .. n
        PROVE  Kept(u, sel[i]) /\ (u.faults = s.faults => Set(u, sel[i]))
    <3>1. CASE sel[i] = c
      BY <2>2, <2>5, <2>6, <2>7, <3>1 DEF Kept
    <3>2. CASE sel[i] # c
      <4>1. i \in 1 .. n - 1 /\ i \in 1 .. Len(sel)
        BY <1>3, <2>1, <2>2, <3>2
      <4>2. Kept(t, sel[i]) /\ (t.faults = s.faults => Set(t, sel[i]))
        BY <2>3, <4>1
      <4>3. sel[i] \in Chips \ {c}
        BY <1>3, <3>2, <4>1
      <4>4. u.r0[sel[i]] = t.r0[sel[i]] /\ u.init[sel[i]] = t.init[sel[i]]
        BY <2>5, <4>3 DEF Concerning
      <4> QED BY <2>6, <4>2, <4>4 DEF Kept, Set
    <3> QED BY <3>1, <3>2
  <2>9. Good(u, n)
    BY <2>6, <2>7, <2>8 DEF Good
  <2> QED BY <1>1, <2>1, <2>4, <2>9
<1>5. PICK t : t = o.s
  OBVIOUS
<1>6. <<Len(sel), t>> \in I
  BY <1>2, <1>3, <1>4, <1>5, ConfigLoop!InTurnRule
<1>7. Good(t, Len(sel))
  BY <1>1, <1>3, <1>6
<1>8. \A c \in Present(s) : Kept(t, c) /\ (t.faults = s.faults => Set(t, c))
  BY <1>3, <1>7 DEF Good
<1> QED BY <1>5, <1>7, <1>8 DEF Good, Kept, Set

(* Loop invariant: without a fault, the synthesizers passed that have an   *)
(* entry have the settings asked for, and the lock detector on the pin.    *)
LEMMA AllInspected ==
  ASSUME NEW s, Settled(s), NEW m \in Nat, NEW o \in InspectLoop!Outcomes(s, Synthesizers(s), m)
  PROVE  /\ Settled(o.s) /\ o.s.faults <= s.faults /\ Asking(o.s) = Asking(s)
         /\ o.s.faults = s.faults =>
              \A c \in Present(s) \cap Slots(s) : o.s.r0[c] = Shown(s.asked)
<1> DEFINE sel == Synthesizers(s)
           Set(t, c) == c \in Slots(s) => t.r0[c] = Shown(s.asked)
           Good(t, n) == /\ Trusted(t) /\ t.faults <= s.faults /\ Asking(t) = Asking(s)
                         /\ t.init = s.init
                         /\ t.faults = s.faults => \A i \in 1 .. n : Set(t, sel[i])
           I == {x \in Nat \X BusState : Good(x[2], x[1])}
<1>1. \A n \in Nat : \A t : <<n, t>> \in I <=> Good(t, n)
  BY TrustedIs
<1>2. <<0, s>> \in I
  <2>1. Good(s, 0)
    BY TrustedIs DEF Settled
  <2> QED BY <2>1, <1>1
<1>3. /\ Len(sel) \in Nat /\ \A n \in 1 .. Len(sel) : sel[n] \in Chips \cap Present(s)
      /\ \A c \in Present(s) : \E n \in 1 .. Len(sel) : c = sel[n]
  <2>1. s \in BusState
    BY TrustedIs DEF Settled
  <2>2. Len(sel) \in Nat /\ DOMAIN sel = 1 .. Len(sel)
    <3>1. s.target \in Targets
      BY <2>1 DEF BusState
    <3>2. sel \in Seq(0 .. 3)
      BY <3>1, BusAssumption DEF Synthesizers
    <3> QED BY <3>2
  <2> QED BY <2>1, <2>2, SynthesizersAre DEF Present, Range
<1> HIDE DEF I, Good, Set
<1>4. ASSUME NEW n \in 1 .. Len(sel), NEW t, <<n - 1, t>> \in I, NEW q \in InspectOne(t, sel[n], m)
      PROVE  <<n, q.s>> \in I
  <2>1. n \in Nat /\ n - 1 \in Nat
    BY <1>3
  <2>2. PICK c \in Chips \cap Present(s) : c = sel[n]
    BY <1>3
  <2>3. /\ Trusted(t) /\ t.faults <= s.faults /\ Asking(t) = Asking(s) /\ t.init = s.init
        /\ t.faults = s.faults => \A i \in 1 .. n - 1 : Set(t, sel[i])
    <3>1. Good(t, n - 1)
      BY <1>1, <1>4, <2>1
    <3> QED BY <3>1 DEF Good
  <2>4. PICK u : u = q.s
    OBVIOUS
  <2>5. /\ Concerning(t, u, c) /\ u.init = t.init
        /\ u.faults = t.faults => Set(u, c)
    <3>1. t.asked = s.asked /\ Slots(t) = Slots(s)
      BY <2>3, AskingIs
    <3>2. t.init[c] = Raw(t.asked)
      BY <2>2, <2>3, <3>1 DEF Settled, Fits
    <3>3. q \in Inspect(t, c, m)
      BY <1>4, <2>2 DEF InspectOne
    <3>4. /\ Concerning(t, u, c) /\ u.init = t.init
          /\ u.faults = t.faults /\ c \in Slots(t) /\ t.init[c] = Raw(t.asked) => u.r0[c] = Shown(t.asked)
      BY <2>3, <2>4, <3>3, Inspected
    <3> QED BY <3>1, <3>2, <3>4 DEF Set
  <2>6. /\ Trusted(u) /\ u.faults <= s.faults /\ Asking(u) = Asking(s) /\ u.init = s.init
        /\ u.faults = s.faults => u.faults = t.faults /\ t.faults = s.faults
    <3>1. s.faults \in Nat /\ t.faults \in Nat /\ u.faults \in Nat
      BY <2>3, <2>5, TrustedIs DEF Concerning, Settled
    <3> QED BY <2>3, <2>5, <3>1 DEF Concerning
  <2>7. ASSUME u.faults = s.faults, NEW i \in 1 .. n
        PROVE  Set(u, sel[i])
    <3>1. CASE sel[i] = c
      BY <2>5, <2>6, <2>7, <3>1
    <3>2. CASE sel[i] # c
      <4>1. i \in 1 .. n - 1 /\ i \in 1 .. Len(sel)
        BY <1>3, <2>1, <2>2, <3>2
      <4>2. Set(t, sel[i])
        BY <2>3, <2>6, <2>7, <4>1
      <4>3. sel[i] \in Chips \ {c}
        BY <1>3, <3>2, <4>1
      <4>4. u.r0[sel[i]] = t.r0[sel[i]]
        BY <2>5, <4>3 DEF Concerning
      <4> QED BY <4>2, <4>4 DEF Set
    <3> QED BY <3>1, <3>2
  <2>8. Good(u, n)
    BY <2>6, <2>7 DEF Good
  <2> QED BY <1>1, <2>1, <2>4, <2>8
<1>5. PICK t : t = o.s
  OBVIOUS
<1>6. <<Len(sel), t>> \in I
  BY <1>2, <1>3, <1>4, <1>5, InspectLoop!InTurnRule
<1>7. Good(t, Len(sel))
  BY <1>1, <1>3, <1>6
<1>8. t.faults = s.faults => \A c \in Present(s) \cap Slots(s) : t.r0[c] = Shown(s.asked)
  BY <1>3, <1>7 DEF Good, Set
<1>9. Settled(t)
  BY <1>7, FitsSame DEF Good, Settled
<1> QED BY <1>5, <1>7, <1>8, <1>9 DEF Good

LEMMA LoopsAre ==
  ASSUME NEW s
  PROVE  /\ \A cfg : ConfigLoop!Outcomes(s, Synthesizers(s), cfg) = lmx2594ConfigAllSame(s, cfg)
         /\ \A n : InspectLoop!Outcomes(s, Synthesizers(s), n) = InspectAll(s, n)
BY DEF lmx2594ConfigAllSame, InspectAll, InTurn, Regardless, Done, ConfigOne, InspectOne,
       ConfigLoop!Outcomes, ConfigLoop!InTurn, ConfigLoop!Regardless, ConfigLoop!Done,
       InspectLoop!Outcomes, InspectLoop!InTurn, InspectLoop!Regardless, InspectLoop!Done

(* The oscillator: the steps of userMGTrefClkAdjust.                       *)
ClockKind == [ppm : Ppm, frozen : BOOLEAN]
WithClock(t, k) == [t EXCEPT !.clk = k]
WithGot(t, g) == [t EXCEPT !.got = g]

LEMMA WithClockIs ==
  ASSUME NEW s \in BusState, NEW k \in ClockKind, NEW g \in Ppm, NEW t,
         t = WithClock(s, k) \/ t = WithGot(s, g)
  PROVE  /\ t \in BusState /\ t.faults = s.faults /\ t.strayed = s.strayed
         /\ Wires(t) = Wires(s) /\ Lines(t) = Lines(s) /\ Paging(t) = Paging(s)
         /\ Registers(t) = Registers(s)
         /\ t = WithClock(s, k) => t.clk = k /\ t.got = s.got
         /\ t = WithGot(s, g) => t.clk = s.clk /\ t.got = g
<1>1. CASE t = WithClock(s, k)
  <2>1. t \in BusState
    BY <1>1 DEF BusState, WithClock, ClockKind
  <2>2. /\ t.faults = s.faults /\ t.strayed = s.strayed
        /\ Wires(t) = Wires(s) /\ Lines(t) = Lines(s) /\ Paging(t) = Paging(s)
        /\ Registers(t) = Registers(s)
        /\ t.clk = k /\ t.got = s.got
    BY <1>1, <2>1 DEF BusState, WithClock, Wires, Lines, Paging, Registers
  <2>3. t = WithGot(s, g) => t.clk = s.clk /\ t.got = g
    BY DEF BusState, WithGot
  <2> QED BY <2>1, <2>2, <2>3
<1>2. CASE t = WithGot(s, g)
  <2>1. t \in BusState
    BY <1>2 DEF BusState, WithGot
  <2>2. /\ t.faults = s.faults /\ t.strayed = s.strayed
        /\ Wires(t) = Wires(s) /\ Lines(t) = Lines(s) /\ Paging(t) = Paging(s)
        /\ Registers(t) = Registers(s)
        /\ t.clk = s.clk /\ t.got = g
    BY <1>2, <2>1 DEF BusState, WithGot, Wires, Lines, Paging, Registers
  <2>3. t = WithClock(s, k) => t.clk = k /\ t.got = s.got
    BY DEF BusState, WithClock
  <2> QED BY <2>1, <2>2, <2>3
<1> QED BY <1>1, <1>2

(* What a message to the oscillator leaves of it.                          *)
Clocked(o, k, g) == Settled(o.s) /\ ((o.ok = TRUE /\ o.s.clk = k /\ o.s.got = g) \/ o.ok = FALSE)

(* A message to the oscillator is heard or the function ends.              *)
LEMMA ClockMessage ==
  ASSUME NEW s, Settled(s), NEW r, Routed(s, "MgtClk", r), NEW k \in ClockKind, NEW g \in Ppm,
         NEW e, (e = WithClock(r.s, k) /\ g = s.got) \/ (e = WithGot(r.s, g) /\ k = s.clk),
         NEW o, r.ok = TRUE => o \in Message(r.s, "MgtClk", e), r.ok = FALSE => o = r
  PROVE  Clocked(o, k, g)
<1>1. s \in BusState /\ Sane(s)
  BY DEF Settled, Trusted, Sane
<1>2. PICK t \in BusState : t = r.s
  BY DEF Routed, Sane
<1>3. Content(t) = Content(s) /\ t.strayed = FALSE
  BY <1>2, RewiredContent DEF Routed, Sane
<1>4. e = WithClock(t, k) \/ e = WithGot(t, g)
  BY <1>2
<1>5. /\ e \in BusState /\ e.faults = t.faults /\ e.strayed = t.strayed
      /\ Wires(e) = Wires(t) /\ Lines(e) = Lines(t) /\ Paging(e) = Paging(t)
      /\ Registers(e) = Registers(t)
      /\ e = WithClock(t, k) => e.clk = k /\ e.got = t.got
      /\ e = WithGot(t, g) => e.clk = t.clk /\ e.got = g
  BY <1>4, WithClockIs
<1>6. e.clk = k /\ e.got = g
  BY <1>2, <1>3, <1>5 DEF Content, Oscillator
<1>7. Wires(e) = Wires(r.s) /\ e.faults = r.s.faults /\ e.strayed = FALSE
  BY <1>2, <1>3, <1>5
<1>8. Delivered(s, e, o)
  BY <1>1, <1>5, <1>7, Delivery
<1>9. PICK u : u = o.s
  OBVIOUS
<1>10. /\ Sane(u) /\ Lines(u) = Lines(s) /\ Paging(u) = Paging(s)
       /\ Registers(u) = Registers(s)
       /\ (o.ok = TRUE /\ u.clk = k /\ u.got = g) \/ o.ok = FALSE
  BY <1>3, <1>5, <1>6, <1>8, <1>9 DEF Delivered, Content, Oscillator
<1>11. Settled(u)
  <2>1. Fits(u)
    BY <1>10, FitsSame DEF Lines, Registers, Asking, Settled
  <2> QED BY <1>10, <2>1 DEF Settled, Trusted, Lines, Picked, Paging, Paged
<1> QED BY <1>9, <1>10, <1>11 DEF Clocked

LEMMA FrozenIs ==
  ASSUME NEW k \in ClockKind, NEW f \in BOOLEAN
  PROVE  /\ [k EXCEPT !.frozen = f] = [ppm |-> k.ppm, frozen |-> f]
         /\ [k EXCEPT !.frozen = f] \in ClockKind
BY DEF ClockKind

(* The steps of the function.                                              *)
RecallStep(s) == writeReg(s, LAMBDA t : [t EXCEPT !.clk = Recalled(@)])
ReadStep(s) == iicRead(s, "MgtClk", LAMBDA u : [u EXCEPT !.got = u.clk.ppm])
FreezeStep(s) == writeReg(s, LAMBDA v : [v EXCEPT !.clk.frozen = TRUE])
SetStep(s, ppm) == writeReg(s, LAMBDA w : [w EXCEPT !.clk.ppm = ppm])
UnfreezeStep(s) == writeReg(s, LAMBDA x : [x EXCEPT !.clk.frozen = FALSE])
LastStep(s) == writeReg(s, LAMBDA y : y)

LEMMA ClockIs ==
  ASSUME NEW s, Settled(s)
  PROVE  s.clk \in ClockKind /\ s.got \in Ppm
BY DEF Settled, Trusted, Sane, BusState, ClockKind

LEMMA RoutedClock ==
  ASSUME NEW s, Settled(s), NEW r, Routed(s, "MgtClk", r)
  PROVE  r.s \in BusState /\ r.s.clk = s.clk /\ r.s.got = s.got
<1>1. Content(r.s) = Content(s)
  BY RewiredContent DEF Routed
<1> QED BY <1>1 DEF Routed, Sane, Content, Oscillator

(* Its six steps in turn: recall, read, freeze, set, unfreeze, and the     *)
(* last write.                                                             *)
LEMMA RecallStepIs ==
  ASSUME NEW s, Settled(s), NEW o \in RecallStep(s)
  PROVE  Clocked(o, [s.clk EXCEPT !.ppm = 0], s.got)
<1>1. PICK k \in ClockKind : k = [s.clk EXCEPT !.ppm = 0]
  <2>1. PICK c \in ClockKind : c = s.clk
    BY ClockIs
  <2>2. 0 \in Ppm
    BY DEF Ppm
  <2>3. [c EXCEPT !.ppm = 0] \in ClockKind
    BY <2>2 DEF ClockKind
  <2> QED BY <2>1, <2>3
<1>2. PICK r \in setMux(s, "MgtClk") :
        IF r.ok THEN o \in Message(r.s, "MgtClk", [r.s EXCEPT !.clk = Recalled(r.s.clk)]) ELSE o = r
  BY DEF RecallStep, writeReg, iicWrite, Then
<1>3. Routed(s, "MgtClk", r)
  BY <1>2, SetMux, BusAssumption DEF Settled, Trusted
<1>4. PICK e : e = WithClock(r.s, k)
  OBVIOUS
<1>5. e = [r.s EXCEPT !.clk = Recalled(r.s.clk)]
  BY <1>1, <1>3, <1>4, RoutedClock DEF WithClock, Recalled
<1>6. (r.ok = TRUE => o \in Message(r.s, "MgtClk", e)) /\ (r.ok = FALSE => o = r)
  BY <1>2, <1>5
<1>7. PICK g \in Ppm : g = s.got
  BY ClockIs
<1>8. (e = WithClock(r.s, k) /\ g = s.got) \/ (e = WithGot(r.s, g) /\ k = s.clk)
  BY <1>4, <1>7
<1>9. Clocked(o, k, g)
  BY <1>3, <1>6, <1>8, ClockMessage
<1> QED BY <1>1, <1>7, <1>9

LEMMA FreezeStepIs ==
  ASSUME NEW s, Settled(s), NEW o \in FreezeStep(s)
  PROVE  Clocked(o, [s.clk EXCEPT !.frozen = TRUE], s.got)
<1>1. PICK k \in ClockKind : k = [s.clk EXCEPT !.frozen = TRUE]
  <2>1. PICK c \in ClockKind : c = s.clk
    BY ClockIs
  <2>2. PICK f \in BOOLEAN : f = TRUE
    OBVIOUS
  <2>3. [c EXCEPT !.frozen = f] \in ClockKind
    BY FrozenIs
  <2> QED BY <2>1, <2>2, <2>3
<1>2. PICK r \in setMux(s, "MgtClk") :
        IF r.ok THEN o \in Message(r.s, "MgtClk", [r.s EXCEPT !.clk.frozen = TRUE]) ELSE o = r
  BY DEF FreezeStep, writeReg, iicWrite, Then
<1>3. Routed(s, "MgtClk", r)
  BY <1>2, SetMux, BusAssumption DEF Settled, Trusted
<1>4. PICK e : e = WithClock(r.s, k)
  OBVIOUS
<1>5. e = [r.s EXCEPT !.clk.frozen = TRUE]
  BY <1>1, <1>3, <1>4, RoutedClock DEF WithClock
<1>6. (r.ok = TRUE => o \in Message(r.s, "MgtClk", e)) /\ (r.ok = FALSE => o = r)
  BY <1>2, <1>5
<1>7. PICK g \in Ppm : g = s.got
  BY ClockIs
<1>8. (e = WithClock(r.s, k) /\ g = s.got) \/ (e = WithGot(r.s, g) /\ k = s.clk)
  BY <1>4, <1>7
<1>9. Clocked(o, k, g)
  BY <1>3, <1>6, <1>8, ClockMessage
<1> QED BY <1>1, <1>7, <1>9

LEMMA SetStepIs ==
  ASSUME NEW s, Settled(s), NEW ppm \in Ppm, NEW o \in SetStep(s, ppm)
  PROVE  Clocked(o, [s.clk EXCEPT !.ppm = ppm], s.got)
<1>1. PICK k \in ClockKind : k = [s.clk EXCEPT !.ppm = ppm]
  <2>1. PICK c \in ClockKind : c = s.clk
    BY ClockIs
  <2>2. [c EXCEPT !.ppm = ppm] \in ClockKind
    BY DEF ClockKind
  <2> QED BY <2>1, <2>2
<1>2. PICK r \in setMux(s, "MgtClk") :
        IF r.ok THEN o \in Message(r.s, "MgtClk", [r.s EXCEPT !.clk.ppm = ppm]) ELSE o = r
  BY DEF SetStep, writeReg, iicWrite, Then
<1>3. Routed(s, "MgtClk", r)
  BY <1>2, SetMux, BusAssumption DEF Settled, Trusted
<1>4. PICK e : e = WithClock(r.s, k)
  OBVIOUS
<1>5. e = [r.s EXCEPT !.clk.ppm = ppm]
  BY <1>1, <1>3, <1>4, RoutedClock DEF WithClock
<1>6. (r.ok = TRUE => o \in Message(r.s, "MgtClk", e)) /\ (r.ok = FALSE => o = r)
  BY <1>2, <1>5
<1>7. PICK g \in Ppm : g = s.got
  BY ClockIs
<1>8. (e = WithClock(r.s, k) /\ g = s.got) \/ (e = WithGot(r.s, g) /\ k = s.clk)
  BY <1>4, <1>7
<1>9. Clocked(o, k, g)
  BY <1>3, <1>6, <1>8, ClockMessage
<1> QED BY <1>1, <1>7, <1>9

LEMMA UnfreezeStepIs ==
  ASSUME NEW s, Settled(s), NEW o \in UnfreezeStep(s)
  PROVE  Clocked(o, [s.clk EXCEPT !.frozen = FALSE], s.got)
<1>1. PICK k \in ClockKind : k = [s.clk EXCEPT !.frozen = FALSE]
  <2>1. PICK c \in ClockKind : c = s.clk
    BY ClockIs
  <2>2. PICK f \in BOOLEAN : f = FALSE
    OBVIOUS
  <2>3. [c EXCEPT !.frozen = f] \in ClockKind
    BY FrozenIs
  <2> QED BY <2>1, <2>2, <2>3
<1>2. PICK r \in setMux(s, "MgtClk") :
        IF r.ok THEN o \in Message(r.s, "MgtClk", [r.s EXCEPT !.clk.frozen = FALSE]) ELSE o = r
  BY DEF UnfreezeStep, writeReg, iicWrite, Then
<1>3. Routed(s, "MgtClk", r)
  BY <1>2, SetMux, BusAssumption DEF Settled, Trusted
<1>4. PICK e : e = WithClock(r.s, k)
  OBVIOUS
<1>5. e = [r.s EXCEPT !.clk.frozen = FALSE]
  BY <1>1, <1>3, <1>4, RoutedClock DEF WithClock
<1>6. (r.ok = TRUE => o \in Message(r.s, "MgtClk", e)) /\ (r.ok = FALSE => o = r)
  BY <1>2, <1>5
<1>7. PICK g \in Ppm : g = s.got
  BY ClockIs
<1>8. (e = WithClock(r.s, k) /\ g = s.got) \/ (e = WithGot(r.s, g) /\ k = s.clk)
  BY <1>4, <1>7
<1>9. Clocked(o, k, g)
  BY <1>3, <1>6, <1>8, ClockMessage
<1> QED BY <1>1, <1>7, <1>9

LEMMA ReadStepIs ==
  ASSUME NEW s, Settled(s), NEW o \in ReadStep(s)
  PROVE  Clocked(o, s.clk, s.clk.ppm)
<1>1. PICK k \in ClockKind, g \in Ppm : k = s.clk /\ g = s.clk.ppm
  BY ClockIs DEF ClockKind
<1>2. PICK r \in asked(s, "MgtClk") :
        IF r.ok THEN o \in Message(r.s, "MgtClk", [r.s EXCEPT !.got = r.s.clk.ppm]) ELSE o = r
  <2>1. o \in Then(asked(s, "MgtClk"), LAMBDA t : Message(t, "MgtClk", [t EXCEPT !.got = t.clk.ppm]))
    BY DEF ReadStep, iicRead, iicWrite, asked
  <2> QED BY <2>1 DEF Then
<1>3. Routed(s, "MgtClk", r)
  BY <1>2, Asked, BusAssumption DEF Settled, Trusted
<1>4. PICK e : e = WithGot(r.s, g)
  OBVIOUS
<1>5. e = [r.s EXCEPT !.got = r.s.clk.ppm]
  BY <1>1, <1>3, <1>4, RoutedClock DEF WithGot
<1>6. (r.ok = TRUE => o \in Message(r.s, "MgtClk", e)) /\ (r.ok = FALSE => o = r)
  BY <1>2, <1>5
<1>7. (e = WithClock(r.s, k) /\ g = s.got) \/ (e = WithGot(r.s, g) /\ k = s.clk)
  BY <1>1, <1>4
<1>8. Clocked(o, k, g)
  BY <1>3, <1>6, <1>7, ClockMessage
<1> QED BY <1>1, <1>8

LEMMA LastStepIs ==
  ASSUME NEW s, Settled(s), NEW o \in LastStep(s)
  PROVE  Clocked(o, s.clk, s.got)
<1>1. o \in asked(s, "MgtClk")
  BY DEF LastStep, writeReg, iicWrite, asked
<1>2. Routed(s, "MgtClk", o)
  BY <1>1, Asked, BusAssumption DEF Settled, Trusted
<1>3. PICK t : t = o.s
  OBVIOUS
<1>4. /\ Sane(t) /\ Lines(t) = Lines(s) /\ Paging(t) = Paging(s) /\ Oscillator(t) = Oscillator(s)
      /\ Registers(t) = Registers(s)
      /\ o.ok = TRUE \/ o.ok = FALSE
  BY <1>2, <1>3 DEF Routed, Rewired
<1>5. Settled(t)
  <2>1. Fits(t)
    BY <1>4, FitsSame DEF Lines, Registers, Asking, Settled
  <2> QED BY <1>4, <2>1 DEF Settled, Trusted, Lines, Picked, Paging, Paged
<1> QED BY <1>3, <1>4, <1>5 DEF Clocked, Oscillator

LEMMA Clamped ==
  ASSUME NEW ppm \in Int
  PROVE  Clamp(ppm) \in Ppm /\ 0 + Clamp(ppm) = Clamp(ppm)
BY DEF Clamp, Ppm

(* A failure ends the adjustment; whatever came before it is trusted.      *)
LEMMA Adjusted ==
  ASSUME NEW s, Settled(s), NEW ppm \in Int, NEW o \in userMGTrefClkAdjust(s, ppm)
  PROVE  Settled(o.s) /\ (o.ok = TRUE => o.s.clk = [ppm |-> Clamp(ppm), frozen |-> FALSE])
<1> DEFINE After5(w) == Then(UnfreezeStep(w), LAMBDA x : LastStep(x))
           After4(v, p) == Then(SetStep(v, p), LAMBDA w : After5(w))
           After3(u) == Then(FreezeStep(u), LAMBDA v : After4(v, u.got + Clamp(ppm)))
           After2(t) == Then(ReadStep(t), LAMBDA u : After3(u))
           Fine(q) == Settled(q.s) /\ (q.ok = TRUE => q.s.clk = [ppm |-> Clamp(ppm), frozen |-> FALSE])
<1>1. PICK a \in RecallStep(s) : IF a.ok THEN o \in After2(a.s) ELSE o = a
  <2>1. o \in Then(RecallStep(s), LAMBDA t : After2(t))
    BY DEF userMGTrefClkAdjust, RecallStep, ReadStep, FreezeStep, SetStep, UnfreezeStep, LastStep
  <2> QED BY <2>1 DEF Then
<1>2. Clocked(a, [s.clk EXCEPT !.ppm = 0], s.got)
  BY RecallStepIs
<1>3. ASSUME NEW q, NEW k, NEW g, Clocked(q, k, g), q.ok = FALSE PROVE Fine(q)
  BY <1>3 DEF Clocked
<1> HIDE DEF Fine
<1>4. CASE a.ok = FALSE
  <2>1. o = a
    BY <1>1, <1>4
  <2> QED BY <1>2, <1>3, <1>4, <2>1 DEF Fine
<1>5. CASE a.ok = TRUE
  <2>1. PICK t : t = a.s
    OBVIOUS
  <2>2. Settled(t) /\ t.clk.ppm = 0
    <3>1. s.clk \in ClockKind
      BY ClockIs
    <3>2. [s.clk EXCEPT !.ppm = 0].ppm = 0
      BY <3>1 DEF ClockKind
    <3> QED BY <1>2, <1>5, <2>1, <3>2 DEF Clocked
  <2>3. PICK b \in ReadStep(t) : IF b.ok THEN o \in After3(b.s) ELSE o = b
    <3>1. o \in After2(t)
      BY <1>1, <1>5, <2>1
    <3> QED BY <3>1 DEF Then
  <2>4. Clocked(b, t.clk, 0)
    BY <2>2, <2>3, ReadStepIs
  <2>5. CASE b.ok = FALSE
    <3>1. o = b
      BY <2>3, <2>5
    <3> QED BY <1>3, <2>4, <2>5, <3>1 DEF Fine
  <2>6. CASE b.ok = TRUE
    <3>1. PICK u : u = b.s
      OBVIOUS
    <3>2. PICK p \in Ppm : p = u.got + Clamp(ppm) /\ p = Clamp(ppm) /\ Settled(u)
      BY <2>4, <2>6, <3>1, Clamped DEF Clocked
    <3>3. PICK c \in FreezeStep(u) : IF c.ok THEN o \in After4(c.s, p) ELSE o = c
      <4>1. o \in After3(u)
        BY <2>3, <2>6, <3>1
      <4> QED BY <3>2, <4>1 DEF Then
    <3>4. Clocked(c, [u.clk EXCEPT !.frozen = TRUE], u.got)
      BY <3>2, <3>3, FreezeStepIs
    <3>5. CASE c.ok = FALSE
      <4>1. o = c
        BY <3>3, <3>5
      <4> QED BY <1>3, <3>4, <3>5, <4>1 DEF Fine
    <3>6. CASE c.ok = TRUE
      <4>1. PICK v : v = c.s
        OBVIOUS
      <4>2. Settled(v)
        BY <3>4, <4>1 DEF Clocked
      <4>3. PICK d \in SetStep(v, p) : IF d.ok THEN o \in After5(d.s) ELSE o = d
        <5>1. o \in After4(v, p)
          BY <3>3, <3>6, <4>1
        <5> QED BY <5>1 DEF Then
      <4>4. Clocked(d, [v.clk EXCEPT !.ppm = p], v.got)
        BY <4>2, <4>3, SetStepIs
      <4>5. CASE d.ok = FALSE
        <5>1. o = d
          BY <4>3, <4>5
        <5> QED BY <1>3, <4>4, <4>5, <5>1 DEF Fine
      <4>6. CASE d.ok = TRUE
        <5>1. PICK w : w = d.s
          OBVIOUS
        <5>2. Settled(w) /\ w.clk = [v.clk EXCEPT !.ppm = p]
          BY <4>4, <4>6, <5>1 DEF Clocked
        <5>3. PICK e \in UnfreezeStep(w) : IF e.ok THEN o \in LastStep(e.s) ELSE o = e
          <6>1. o \in After5(w)
            BY <4>3, <4>6, <5>1
          <6> QED BY <6>1 DEF Then
        <5>4. Clocked(e, [w.clk EXCEPT !.frozen = FALSE], w.got)
          BY <5>2, <5>3, UnfreezeStepIs
        <5>5. [w.clk EXCEPT !.frozen = FALSE] = [ppm |-> Clamp(ppm), frozen |-> FALSE]
          <6>1. PICK k \in ClockKind : k = v.clk
            BY <4>2, ClockIs
          <6>2. w.clk = [k EXCEPT !.ppm = p]
            BY <5>2, <6>1
          <6>3. PICK f \in BOOLEAN : f = FALSE
            OBVIOUS
          <6>4. w.clk \in ClockKind /\ w.clk.ppm = p
            BY <6>2 DEF ClockKind
          <6>5. [w.clk EXCEPT !.frozen = f] = [ppm |-> p, frozen |-> f]
            BY <6>4, FrozenIs
          <6> QED BY <3>2, <6>3, <6>5
        <5>6. CASE e.ok = FALSE
          <6>1. o = e
            BY <5>3, <5>6
          <6> QED BY <1>3, <5>4, <5>6, <6>1 DEF Fine
        <5>7. CASE e.ok = TRUE
          <6>1. PICK x : x = e.s
            OBVIOUS
          <6>2. Settled(x) /\ x.clk = [ppm |-> Clamp(ppm), frozen |-> FALSE]
            BY <5>4, <5>5, <5>7, <6>1 DEF Clocked
          <6>3. Clocked(o, x.clk, x.got)
            BY <5>3, <5>7, <6>1, <6>2, LastStepIs
          <6> QED BY <6>2, <6>3 DEF Clocked
        <5> QED BY <5>4, <5>6, <5>7 DEF Clocked
      <4> QED BY <4>4, <4>5, <4>6 DEF Clocked
    <3> QED BY <3>4, <3>5, <3>6 DEF Clocked
  <2> QED BY <2>4, <2>5, <2>6 DEF Clocked
<1> QED BY <1>2, <1>4, <1>5 DEF Clocked

(* Between operations: the ends of one, and the start of the next.         *)
BusInv == Settled(bus) /\ bus.faults = 0 /\ StatusPinShowsLock /\ AdjustedFromFactory

LEMMA NobodysIs ==
  Nobodys \in RegKind /\ [chip |-> 0, r0 |-> Nobodys] \in ReplyKind
BY DEF R0, Nobodys, RegKind, ReplyKind

(* An operation begins and ends with the same devices and settings.        *)
LEMMA ReadyIs ==
  ASSUME NEW s, Settled(s), NEW t, t = Ready(s)
  PROVE  Settled(t) /\ t.faults = MaxFaults /\ Asking(t) = Asking(s)
<1>1. s \in BusState /\ MaxFaults \in Nat
  BY TrustedIs, BusAssumption DEF Settled
<1>2. t \in BusState /\ t.faults = MaxFaults
  BY <1>1 DEF BusState, Ready
<1>3. /\ t.strayed = s.strayed /\ Wires(t) = Wires(s) /\ Paging(t) = Paging(s) /\ Lines(t) = Lines(s)
      /\ Registers(t) = Registers(s) /\ Asking(t) = Asking(s)
  BY <1>1 DEF BusState, Ready, Wires, Paging, Lines, Registers, Asking
<1>4. Trusted(t)
  BY <1>2, <1>3 DEF Settled, Trusted, Sane, Wires, Wired, Paging, Paged, Lines, Picked
<1>5. Fits(t)
  BY <1>3, FitsSame DEF Settled, Registers
<1> QED BY <1>2, <1>3, <1>4, <1>5 DEF Settled

LEMMA IdleIs ==
  ASSUME NEW s, Settled(s), NEW t, t = Idle(s)
  PROVE  /\ Settled(t) /\ t.faults = 0 /\ Asking(t) = Asking(s)
         /\ t.r0 = s.r0 /\ t.clk = s.clk
<1>1. s \in BusState
  BY TrustedIs DEF Settled
<1>2. PICK r \in ReplyKind : r = [chip |-> 0, r0 |-> Nobodys]
  BY NobodysIs
<1>3. t = [s EXCEPT !.faults = 0, !.got = 0, !.reply = r]
  BY <1>2 DEF Idle
<1>4. 0 \in Ppm
  BY DEF Ppm
<1>5. t \in BusState /\ t.faults = 0
  <2>1. PICK u : u = [s EXCEPT !.faults = 0]
    OBVIOUS
  <2>2. u \in BusState
    BY <1>1, <2>1 DEF BusState
  <2>3. PICK v : v = [u EXCEPT !.got = 0]
    OBVIOUS
  <2>4. v \in BusState
    BY <1>4, <2>2, <2>3 DEF BusState
  <2>5. [v EXCEPT !.reply = r] \in BusState
    BY <1>2, <2>4 DEF BusState
  <2>6. t = [v EXCEPT !.reply = r]
    BY <1>3, <2>1, <2>3
  <2> QED BY <1>1, <1>3, <2>5, <2>6 DEF BusState
<1>6. /\ t.strayed = s.strayed /\ Wires(t) = Wires(s) /\ Paging(t) = Paging(s) /\ Lines(t) = Lines(s)
      /\ Registers(t) = Registers(s) /\ Asking(t) = Asking(s) /\ t.clk = s.clk
  BY <1>1, <1>3 DEF BusState, Wires, Paging, Lines, Registers, Asking
<1>7. Trusted(t)
  BY <1>5, <1>6 DEF Settled, Trusted, Sane, Wires, Wired, Paging, Paged, Lines, Picked
<1>8. Fits(t)
  BY <1>6, FitsSame DEF Settled, Registers
<1> QED BY <1>5, <1>6, <1>7, <1>8 DEF Settled, Registers

(* A boot may find the multiplexers and the pages set anyhow.              *)
LEMMA BootForgets ==
  ASSUME NEW s \in BusState, s.strayed = FALSE, s.offPage = FALSE, s.misread = FALSE,
         NEW t, t = iicInit(s)
  PROVE  Trusted(t) /\ t.faults = s.faults /\ t.asked = "default"
<1>1. PICK cache \in [Mux -> PortKind \cup {UnknownPort}], pageCache \in [Irps -> 0 .. 3 \cup {NoPage}],
           init \in [Chips -> RegKind] :
        /\ cache = [m \in Mux |-> IF m = 0 THEN NoPort ELSE UnknownPort]
        /\ pageCache = [d \in Irps |-> NoPage] /\ init = [c \in Chips |-> Nobodys]
  BY RegistersAre DEF PortKind
<1>2. t = [s EXCEPT !.cache = cache, !.pageCache = pageCache, !.selected = NoChip, !.miso = 0,
                     !.init = init, !.asked = "default"]
  BY <1>1 DEF iicInit
<1>3. NoChip \in 0 .. NoChip /\ 0 \in 0 .. 3
  BY DEF NoChip
<1>4. t \in BusState
  <2>1. PICK u : u = [s EXCEPT !.cache = cache]
    OBVIOUS
  <2>2. u \in BusState
    BY <2>1 DEF BusState
  <2>3. PICK v : v = [u EXCEPT !.pageCache = pageCache]
    OBVIOUS
  <2>4. v \in BusState
    BY <2>2, <2>3 DEF BusState
  <2>5. PICK w : w = [v EXCEPT !.selected = NoChip]
    OBVIOUS
  <2>6. w \in BusState
    BY <1>3, <2>4, <2>5 DEF BusState
  <2>7. PICK x : x = [w EXCEPT !.miso = 0]
    OBVIOUS
  <2>8. x \in BusState
    BY <1>3, <2>6, <2>7 DEF BusState
  <2>9. PICK y : y = [x EXCEPT !.init = init]
    OBVIOUS
  <2>10. y \in BusState
    BY <2>8, <2>9 DEF BusState
  <2>11. [y EXCEPT !.asked = "default"] \in BusState
    BY <2>10 DEF BusState, Configs
  <2>12. t = [y EXCEPT !.asked = "default"]
    BY <1>2, <2>1, <2>3, <2>5, <2>7, <2>9
  <2> QED BY <2>11, <2>12
<1>5. /\ t.faults = s.faults /\ t.strayed = FALSE /\ t.offPage = FALSE
      /\ t.misread = FALSE /\ t.asked = "default"
      /\ t.cache = cache /\ t.pageCache = pageCache /\ t.selected = NoChip
  BY <1>2 DEF BusState
<1>6. Wired(t)
  BY <1>1, <1>5 DEF Wired, Mux
<1>7. Paged(t)
  <2>1. "IrpsB" \in Irps
    BY BusAssumption DEF Irps
  <2> QED BY <1>1, <1>5, <2>1 DEF Paged
<1>8. Picked(t)
  BY <1>5 DEF Picked
<1> QED BY <1>4, <1>5, <1>6, <1>7, <1>8 DEF Trusted, Sane

LEMMA ColdIs ==
  ASSUME NEW target \in Targets, NEW page \in [Irps -> Pages], NEW t, t = ColdBoard(target, page)
  PROVE  t \in BusState /\ t.strayed = FALSE /\ t.offPage = FALSE /\ t.misread = FALSE
         /\ t.faults = 0
<1>1. page \in [Irps -> Pages \cup {0}]
  OBVIOUS
<1>2. [ppm |-> 0, frozen |-> FALSE] \in [ppm : Ppm, frozen : BOOLEAN] /\ 0 \in Ppm
  BY DEF Ppm
<1>3. [c \in Chips |-> Nobodys] \in [Chips -> RegKind]
  BY NobodysIs
<1>4. /\ [m \in Mux |-> NoPort] \in [Mux -> PortKind]
      /\ [m \in Mux |-> NoPort] \in [Mux -> PortKind \cup {UnknownPort}]
      /\ [d \in Irps |-> NoPage] \in [Irps -> 0 .. 3 \cup {NoPage}]
      /\ 0 \in 0 .. 3 /\ NoChip \in 0 .. NoChip /\ "default" \in Configs
  BY DEF PortKind, NoChip, Configs
<1> QED BY <1>1, <1>2, <1>3, <1>4, NobodysIs DEF ColdBoard, BusState

(* What is true after a configuration or an inspection.                    *)
LEMMA ConfiguredAll ==
  ASSUME NEW s, Trusted(s), NEW cfg \in Configs, cfg \in Lacking => Fits(s),
         cfg \notin Lacking => s.asked = cfg, NEW o \in lmx2594ConfigAllSame(s, cfg)
  PROVE  /\ Settled(o.s) /\ o.s.faults <= s.faults /\ Asking(o.s) = Asking(s)
         /\ o.s.faults = s.faults => \A c \in Present(s) : o.s.r0[c] = Shown(Given(cfg))
<1>1. o \in ConfigLoop!Outcomes(s, Synthesizers(s), cfg)
  BY LoopsAre
<1>2. PICK t : t = o.s
  OBVIOUS
<1>3. /\ Trusted(t) /\ t.faults <= s.faults /\ Asking(t) = Asking(s)
      /\ \A c \in Present(s) : t.init[c] = IF cfg \in Lacking THEN s.init[c] ELSE Raw(cfg)
      /\ t.faults = s.faults => \A c \in Present(s) : t.r0[c] = Shown(Given(cfg))
  BY <1>1, <1>2, AllConfigured
<1>4. t.asked = s.asked /\ Present(t) = Present(s)
  BY <1>3, AskingIs
<1>5. Fits(t)
  BY <1>3, <1>4 DEF Fits
<1> QED BY <1>2, <1>3, <1>5 DEF Settled

LEMMA InspectedAll ==
  ASSUME NEW s, Settled(s), NEW n \in Nat, NEW o \in InspectAll(s, n)
  PROVE  /\ Settled(o.s) /\ o.s.faults <= s.faults /\ Asking(o.s) = Asking(s)
         /\ o.s.faults = s.faults =>
              \A c \in Present(s) \cap Slots(s) : o.s.r0[c] = Shown(s.asked)
<1>1. o \in InspectLoop!Outcomes(s, Synthesizers(s), n)
  BY LoopsAre
<1> QED BY <1>1, AllInspected

(* What a boot does after iicInit.                                         *)
LEMMA ClocksStarted ==
  ASSUME NEW s, Trusted(s), s.asked = "default", NEW o \in StartClocks(s)
  PROVE  /\ Settled(o.s) /\ o.s.faults <= s.faults /\ Asking(o.s) = Asking(s)
         /\ o.s.faults = s.faults =>
              \A c \in Present(s) \cap Slots(s) : o.s.r0[c] = Shown(s.asked)
<1>1. PICK a \in lmx2594ConfigAllSame(s, "default") : o \in InspectAll(a.s, RegistersRead)
  BY DEF StartClocks, rfClkInit, rfClkShow, Regardless
<1>2. PICK t : t = a.s
  OBVIOUS
<1>3. Settled(t) /\ t.faults <= s.faults /\ Asking(t) = Asking(s)
  <2>1. "default" \in Configs /\ "default" \notin Lacking
    BY BusAssumption DEF Configs
  <2> QED BY <1>1, <1>2, <2>1, ConfiguredAll
<1>4. PICK u : u = o.s
  OBVIOUS
<1>5. /\ Settled(u) /\ u.faults <= t.faults /\ Asking(u) = Asking(t)
      /\ u.faults = t.faults => \A c \in Present(t) \cap Slots(t) : u.r0[c] = Shown(t.asked)
  <2>1. RegistersRead \in Nat
    BY BusAssumption
  <2> QED BY <1>1, <1>2, <1>3, <1>4, <2>1, InspectedAll
<1>6. t.asked = s.asked /\ Present(t) = Present(s) /\ Slots(t) = Slots(s)
  BY <1>3, AskingIs
<1>7. s.faults \in Nat /\ t.faults \in Nat /\ u.faults \in Nat
  BY <1>3, <1>5, TrustedIs DEF Settled
<1>8. u.faults <= s.faults /\ (u.faults = s.faults => u.faults = t.faults)
  BY <1>3, <1>5, <1>7
<1> QED BY <1>3, <1>4, <1>5, <1>6, <1>8

(* What an operation must leave for the invariant to hold after it.        *)
LeftAsAsked(op, arg, s) ==
  /\ op = "config" => \A c \in Present(s) : s.r0[c] = Shown(Given(arg))
  /\ op \in {"boot", "status"} => \A c \in Present(s) \cap Slots(s) : s.r0[c] = Shown(s.asked)
  /\ op = "readback" => s.r0[Synthesizers(s)[1]] = Shown(s.asked)
Ends(op, arg, o) ==
  /\ Settled(o.s)
  /\ o.s.faults = MaxFaults => LeftAsAsked(op, arg, o.s)
  /\ op = "adjust" /\ o.ok = TRUE => o.s.clk = [ppm |-> Clamp(arg), frozen |-> FALSE]

(* The pins of a state that an operation has left.                         *)
LEMMA PinsFollow ==
  ASSUME NEW op, NEW arg, NEW s, NEW t, t.r0 = s.r0, Asking(t) = Asking(s),
         LeftAsAsked(op, arg, s)
  PROVE  LeftAsAsked(op, arg, t)
<1>1. /\ t.asked = s.asked /\ Synthesizers(t) = Synthesizers(s)
      /\ Present(t) = Present(s) /\ Slots(t) = Slots(s)
  BY AskingIs
<1> QED BY <1>1 DEF LeftAsAsked

LEMMA PinsAre == (busOp.clean => LeftAsAsked(busOp.op, busOp.arg, bus)) => StatusPinShowsLock
BY DEF LeftAsAsked, StatusPinShowsLock, AsAsked, Given, Present, Shown

(* The first boot, or an operation, that ends well gives the invariant.    *)
LEMMA PerformKeeps ==
  ASSUME NEW op, NEW arg, NEW Outcomes, Perform(op, arg, Outcomes),
         \A o \in Outcomes : Ends(op, arg, o)
  PROVE  BusInv'
<1>1. PICK o \in Outcomes : bus' = Idle(o.s) /\ busOp' = Result(op, arg, o)
  BY DEF Perform
<1>2. PICK s : s = o.s
  OBVIOUS
<1>3. /\ Settled(s)
      /\ s.faults = MaxFaults => LeftAsAsked(op, arg, s)
      /\ op = "adjust" /\ o.ok = TRUE => s.clk = [ppm |-> Clamp(arg), frozen |-> FALSE]
  BY <1>1, <1>2 DEF Ends
<1>4. PICK t : t = bus'
  OBVIOUS
<1>5. Settled(t) /\ t.faults = 0 /\ t.r0 = s.r0 /\ t.clk = s.clk /\ Asking(t) = Asking(s)
  BY <1>1, <1>2, <1>3, <1>4, IdleIs
<1>6. /\ busOp'.op = op /\ busOp'.arg = arg
      /\ busOp'.ok = o.ok /\ busOp'.clean = (s.faults = MaxFaults)
  BY <1>1, <1>2 DEF Result
<1>7. StatusPinShowsLock'
  <2>1. s.faults = MaxFaults => LeftAsAsked(op, arg, t)
    BY <1>3, <1>5, PinsFollow
  <2>2. (busOp.clean => LeftAsAsked(busOp.op, busOp.arg, bus))'
    BY <1>4, <1>6, <2>1 DEF LeftAsAsked, Present, Synthesizers, Slots
  <2>3. ((busOp.clean => LeftAsAsked(busOp.op, busOp.arg, bus)) => StatusPinShowsLock)'
    BY PinsAre, PTL
  <2> QED BY <2>2, <2>3
<1>8. AdjustedFromFactory'
  BY <1>3, <1>4, <1>5, <1>6 DEF AdjustedFromFactory
<1> QED BY <1>4, <1>5, <1>7, <1>8 DEF BusInv, Settled, Trusted, Sane, Wired, Paged, Picked, Fits,
                                      Present, Synthesizers

(* The invariant holds after the first boot.                               *)
LEMMA BusInvInit == BusInit => BusInv
<1> SUFFICES ASSUME BusInit PROVE BusInv
  OBVIOUS
<1>1. PICK target \in Targets, page \in [Irps -> Pages] :
        \E o \in StartClocks(iicInit(ColdBoard(target, page))) : bus = Idle(o.s) /\ busOp = Result("boot", 0, o)
  BY DEF BusInit, Boards
<1>2. PICK s : s = ColdBoard(target, page)
  OBVIOUS
<1>3. PICK t : t = iicInit(s)
  OBVIOUS
<1>4. PICK o \in StartClocks(t) : bus = Idle(o.s) /\ busOp = Result("boot", 0, o)
  BY <1>1, <1>2, <1>3
<1>5. s \in BusState /\ s.strayed = FALSE /\ s.offPage = FALSE /\ s.misread = FALSE /\ s.faults = 0
  BY <1>2, ColdIs
<1>6. Trusted(t) /\ t.faults = 0 /\ t.asked = "default"
  BY <1>3, <1>5, BootForgets
<1>7. PICK u : u = o.s
  OBVIOUS
<1>8. /\ Settled(u) /\ u.faults <= 0 /\ Asking(u) = Asking(t)
      /\ u.faults = 0 => \A c \in Present(t) \cap Slots(t) : u.r0[c] = Shown(t.asked)
  BY <1>4, <1>6, <1>7, ClocksStarted
<1>9. Settled(bus) /\ bus.faults = 0 /\ bus.r0 = u.r0 /\ Asking(bus) = Asking(u)
  BY <1>4, <1>7, <1>8, IdleIs
<1>10. u.faults = 0
  BY <1>8, TrustedIs DEF Settled
<1>11. /\ u.asked = t.asked /\ Present(u) = Present(t) /\ Slots(u) = Slots(t)
       /\ busOp.op = "boot"
  BY <1>4, <1>8, AskingIs DEF Result
<1>12. LeftAsAsked("boot", 0, u)
  BY <1>8, <1>10, <1>11 DEF LeftAsAsked
<1>13. LeftAsAsked("boot", 0, bus)
  BY <1>9, <1>12, PinsFollow
<1>14. busOp.arg = 0
  BY <1>4 DEF Result
<1>15. StatusPinShowsLock
  BY <1>11, <1>13, <1>14, PinsAre
<1> QED BY <1>9, <1>11, <1>15 DEF BusInv, AdjustedFromFactory

(* Every operation.                                                        *)
LEMMA ConfigureKeeps == BusInv /\ Configure => BusInv'
<1> SUFFICES ASSUME BusInv, Configure PROVE BusInv'
  OBVIOUS
<1>1. PICK s : s = Ready(bus)
  OBVIOUS
<1>2. Settled(s) /\ s.faults = MaxFaults
  BY <1>1, ReadyIs DEF BusInv
<1>3. PICK cfg \in Tables : Perform("config", cfg, lmx2594ConfigAllSame(AskedFor(s, cfg), cfg))
  BY <1>1 DEF Configure
<1>4. PICK t : t = AskedFor(s, cfg)
  OBVIOUS
<1>5. /\ Trusted(t) /\ t.faults = MaxFaults
      /\ cfg \in Lacking => Fits(t)
      /\ cfg \notin Lacking => t.asked = cfg
  <2>1. CASE cfg \in Lacking
    BY <1>2, <1>4, <2>1 DEF AskedFor, Settled
  <2>2. CASE cfg \notin Lacking
    <3>1. t = [s EXCEPT !.asked = cfg]
      BY <1>4, <2>2 DEF AskedFor
    <3>2. s \in BusState /\ cfg \in Configs
      BY <1>2, TrustedIs DEF Settled, Configs
    <3>3. t \in BusState /\ t.faults = s.faults /\ t.asked = cfg /\ t.misread = s.misread
      BY <3>1, <3>2 DEF BusState
    <3>4. /\ t.strayed = s.strayed /\ Wires(t) = Wires(s) /\ Paging(t) = Paging(s)
          /\ t.target = s.target /\ t.selected = s.selected /\ t.miso = s.miso
      BY <3>1, <3>2 DEF BusState, Wires, Paging
    <3>5. Trusted(t)
      BY <1>2, <3>3, <3>4 DEF Settled, Trusted, Sane, Wires, Wired, Paging, Paged, Picked
    <3> QED BY <1>2, <2>2, <3>3, <3>5
  <2> QED BY <2>1, <2>2
<1>6. ASSUME NEW o \in lmx2594ConfigAllSame(t, cfg) PROVE Ends("config", cfg, o)
  <2>1. PICK u : u = o.s
    OBVIOUS
  <2>2. /\ Settled(u) /\ Asking(u) = Asking(t)
        /\ u.faults = t.faults => \A c \in Present(t) : u.r0[c] = Shown(Given(cfg))
    BY <1>5, <1>6, <2>1, ConfiguredAll DEF Configs
  <2>3. Present(u) = Present(t)
    BY <2>2, AskingIs
  <2> QED BY <1>5, <2>1, <2>2, <2>3 DEF Ends, LeftAsAsked
<1> QED BY <1>3, <1>4, <1>6, PerformKeeps

(* lmx2594Status and rfClkShow, with the registers that each reads.        *)
LEMMA ShownEnds ==
  ASSUME NEW s, Settled(s), s.faults = MaxFaults, NEW n \in Nat, NEW o \in InspectAll(s, n)
  PROVE  Ends("status", 0, o)
<1>1. PICK u : u = o.s
  OBVIOUS
<1>2. /\ Settled(u) /\ Asking(u) = Asking(s)
      /\ u.faults = s.faults => \A c \in Present(s) \cap Slots(s) : u.r0[c] = Shown(s.asked)
  BY <1>1, InspectedAll
<1>3. u.asked = s.asked /\ Present(u) = Present(s) /\ Slots(u) = Slots(s)
  BY <1>2, AskingIs
<1> QED BY <1>1, <1>2, <1>3 DEF Ends, LeftAsAsked

LEMMA FirstEnds ==
  ASSUME NEW s, Settled(s), s.faults = MaxFaults, NEW o \in lmx2594ReadbackFirst(s)
  PROVE  Ends("readback", 0, o)
<1>1. s \in BusState /\ RegistersRead \in Nat /\ Trusted(s)
  BY TrustedIs, BusAssumption DEF Settled
<1>2. PICK c \in Chips : c = Synthesizers(s)[1] /\ c \in Present(s) /\ c \in Slots(s)
  BY <1>1, SynthesizersAre
<1>3. o \in Inspect(s, c, RegistersRead)
  BY <1>2 DEF lmx2594ReadbackFirst
<1>4. PICK u : u = o.s
  OBVIOUS
<1>5. s.init[c] = Raw(s.asked)
  BY <1>2 DEF Settled, Fits
<1>6. /\ Concerning(s, u, c) /\ u.init = s.init
      /\ u.faults = s.faults => u.r0[c] = Shown(s.asked)
  BY <1>1, <1>2, <1>3, <1>4, <1>5, Inspected
<1>7. Trusted(u) /\ Asking(u) = Asking(s)
  BY <1>6 DEF Concerning
<1>8. u.asked = s.asked /\ Synthesizers(u) = Synthesizers(s)
  BY <1>7, AskingIs
<1>9. Settled(u)
  BY <1>6, <1>7, FitsSame DEF Settled
<1> QED BY <1>2, <1>4, <1>6, <1>8, <1>9 DEF Ends, LeftAsAsked

LEMMA BootKeeps == BusInv /\ BusRestart => BusInv'
<1> SUFFICES ASSUME BusInv, BusRestart PROVE BusInv'
  OBVIOUS
<1>1. PICK t : t = iicInit(bus)
  OBVIOUS
<1>2. bus \in BusState /\ bus.strayed = FALSE /\ bus.offPage = FALSE /\ bus.misread = FALSE
  BY DEF BusInv, Settled, Trusted, Sane, Paged
<1>3. Trusted(t) /\ t.asked = "default"
  BY <1>1, <1>2, BootForgets
<1>4. PICK u : u = Ready(t)
  OBVIOUS
<1>5. Trusted(u) /\ u.faults = MaxFaults /\ u.asked = "default"
  <2>1. t \in BusState /\ MaxFaults \in Nat
    BY <1>3, TrustedIs, BusAssumption
  <2>2. u \in BusState /\ u.faults = MaxFaults
    BY <1>4, <2>1 DEF BusState, Ready
  <2>3. /\ u.strayed = t.strayed /\ Wires(u) = Wires(t) /\ Paging(u) = Paging(t) /\ Lines(u) = Lines(t)
    BY <1>4, <2>1 DEF BusState, Ready, Wires, Paging, Lines
  <2> QED BY <1>3, <2>2, <2>3 DEF Trusted, Sane, Wires, Wired, Paging, Paged, Lines, Picked
<1>6. Perform("boot", 0, StartClocks(u))
  BY <1>1, <1>4 DEF BusRestart
<1>7. ASSUME NEW o \in StartClocks(u) PROVE Ends("boot", 0, o)
  <2>1. PICK v : v = o.s
    OBVIOUS
  <2>2. /\ Settled(v) /\ Asking(v) = Asking(u)
        /\ v.faults = u.faults => \A c \in Present(u) \cap Slots(u) : v.r0[c] = Shown(u.asked)
    BY <1>5, <1>7, <2>1, ClocksStarted
  <2>3. v.asked = u.asked /\ Present(v) = Present(u) /\ Slots(v) = Slots(u)
    BY <2>2, AskingIs
  <2> QED BY <1>5, <2>1, <2>2, <2>3 DEF Ends, LeftAsAsked
<1> QED BY <1>6, <1>7, PerformKeeps

LEMMA OperationKeeps == BusInv /\ BusNext => BusInv'
<1> SUFFICES ASSUME BusInv, BusNext PROVE BusInv'
  OBVIOUS
<1>1. PICK s : s = Ready(bus)
  OBVIOUS
<1>2. Settled(s) /\ s.faults = MaxFaults
  BY <1>1, ReadyIs DEF BusInv
<1>3. CASE GetStatus
  <2>1. Perform("status", 0, InspectAll(s, 1))
    BY <1>1, <1>3 DEF GetStatus, lmx2594Status
  <2> QED BY <1>2, <2>1, ShownEnds, PerformKeeps
<1>4. CASE ShowClocks
  <2>1. Perform("status", 0, InspectAll(s, RegistersRead)) /\ RegistersRead \in Nat
    BY <1>1, <1>4, BusAssumption DEF ShowClocks, rfClkShow
  <2> QED BY <1>2, <2>1, ShownEnds, PerformKeeps
<1>5. CASE GetFirst
  <2>1. Perform("readback", 0, lmx2594ReadbackFirst(s))
    BY <1>1, <1>5 DEF GetFirst
  <2> QED BY <1>2, <2>1, FirstEnds, PerformKeeps
<1>6. CASE FetchMonitors
  <2>1. Perform("sysmon", 0, sysmonFetch(s))
    BY <1>1, <1>6 DEF FetchMonitors
  <2>2. ASSUME NEW o \in sysmonFetch(s) PROVE Ends("sysmon", 0, o)
    BY <1>2, <2>2, MonitorsFetched DEF Ends, LeftAsAsked
  <2> QED BY <2>1, <2>2, PerformKeeps
<1>7. CASE Adjust
  <2>1. PICK ppm \in Offsets : Perform("adjust", ppm, userMGTrefClkAdjust(s, ppm))
    BY <1>1, <1>7 DEF Adjust
  <2>2. ASSUME NEW o \in userMGTrefClkAdjust(s, ppm) PROVE Ends("adjust", ppm, o)
    <3>1. ppm \in Int
      BY BusAssumption
    <3>2. Settled(o.s) /\ (o.ok = TRUE => o.s.clk = [ppm |-> Clamp(ppm), frozen |-> FALSE])
      BY <1>2, <2>2, <3>1, Adjusted
    <3> QED BY <3>2 DEF Ends, LeftAsAsked
  <2> QED BY <2>1, <2>2, PerformKeeps
<1> QED BY <1>3, <1>4, <1>5, <1>6, <1>7, ConfigureKeeps, BootKeeps DEF BusNext

(* The inductive invariant.                                                *)
THEOREM BusInvariant == BusSpec => []BusInv
<1>1. BusInv /\ UNCHANGED busVars => BusInv'
  BY DEF BusInv, busVars, Settled, Trusted, Sane, Wired, Paged, Picked, Fits, Present,
         Synthesizers, Slots, AsAsked, StatusPinShowsLock, AdjustedFromFactory
<1>2. BusInv /\ [BusNext]_busVars => BusInv'
  BY <1>1, OperationKeeps
<1> QED BY <1>2, BusInvInit, PTL DEF BusSpec

(* setMux, pmbusRead, lmx2594read: every message reaches the device it is  *)
(* for and no other, a value comes from the page and the chip asked for,   *)
(* whatever failed before.                                                 *)
THEOREM AccessesReachTheirDevice == BusSpec => []AccessesReach
<1>1. BusInv => AccessesReach
  <2> SUFFICES ASSUME BusInv PROVE AccessesReach
    OBVIOUS
  <2>1. bus \in BusState /\ bus.faults = 0 /\ bus.strayed = FALSE /\ bus.offPage = FALSE
        /\ bus.misread = FALSE
    BY DEF BusInv, Settled, Trusted, Sane, Paged
  <2>2. BusTypeOK
    <3>1. bus.clk \in [ppm : Ppm, frozen : BOOLEAN]
      BY <2>1 DEF BusState
    <3>2. bus.clk.ppm \in Ppm
      BY <3>1
    <3>3. /\ bus.port \in [Mux -> PortKind] /\ bus.cache \in [Mux -> PortKind \cup {UnknownPort}]
          /\ bus.pageCache \in [Irps -> 0 .. 3 \cup {NoPage}]
          /\ bus.selected \in 0 .. NoChip /\ bus.miso \in 0 .. 3
      BY <2>1 DEF BusState
    <3>4. /\ PortKind = 0 .. 15 \cup {NoPort}
          /\ PortKind \cup {UnknownPort} = 0 .. 15 \cup {NoPort, UnknownPort}
      BY DEF PortKind
    <3>5. /\ bus.port \in [Mux -> 0 .. 15 \cup {NoPort}]
          /\ bus.cache \in [Mux -> 0 .. 15 \cup {NoPort, UnknownPort}]
      BY <3>3, <3>4, Zenon
    <3> QED BY <2>1, <3>2, <3>3, <3>5 DEF BusTypeOK
  <2> QED BY <2>1, <2>2 DEF AccessesReach, NothingStrays, PageAsAsked, FromTheChipAsked
<1> QED BY <1>1, BusInvariant, PTL

(* lmx2594Config, lmx2594Status, rfClkShow, lmx2594Readback: without a     *)
(* failed transfer they leave every synthesizer with the settings asked    *)
(* for and the lock detector on its pin; an inspection only those that     *)
(* have an entry in lmx2594v0InitValues.                                   *)
THEOREM PinsShowTheLock == BusSpec => []StatusPinShowsLock
<1>1. BusInv => StatusPinShowsLock
  BY DEF BusInv
<1> QED BY <1>1, BusInvariant, PTL

(* userMGTrefClkAdjust: a success leaves the oscillator running at the     *)
(* offset asked for from the factory frequency.                            *)
THEOREM OffsetsDoNotAddUp == BusSpec => []AdjustedFromFactory
<1>1. BusInv => AdjustedFromFactory
  BY DEF BusInv
<1> QED BY <1>1, BusInvariant, PTL
=============================================================================
