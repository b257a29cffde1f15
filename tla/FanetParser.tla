----------------------------- MODULE FanetParser -----------------------------
(***************************************************************************)
(* internal/mqtt/parser.go, the reading of FANET packets, with the writing *)
(* of them by scripts/mqtt-test-publisher.go, by weather stations and, in  *)
(* shorter forms, by what the parser's test and message-format.md say.     *)
(*                                                                         *)
(* A packet is its type, its address and the bytes of its data; the 12     *)
(* bytes before them are there.  Coordinates are in halves of the unit     *)
(* that is sent.                                                           *)
(***************************************************************************)
EXTENDS Integers, Sequences, FiniteSets

LOCAL INSTANCE FiniteSetsExt

CONSTANTS
  Unparsed,     \* data that could not be parsed
  Nothing,      \* no packet, no message
  Coordinates,  \* of the test pilots, in half units
  Altitudes,    \* of the test pilots, in metres
  Lengths,      \* of the data of a service packet
  Headers       \* of a service packet

ASSUME ParserAssumption ==
  /\ Coordinates \subseteq Int
  /\ \A c \in Coordinates : -16777086 <= c /\ c <= 16777086  \* 90 degrees of latitude
  /\ Altitudes \subseteq 500..4000 /\ Lengths \subseteq 1..16 /\ Headers \subseteq 0..255

VARIABLES
  pilot,   \* the state of a test pilot
  packet,  \* the packet on its way
  parsed   \* what Parse made of the last packet

parserVars == <<pilot, packet, parsed>>

-----------------------------------------------------------------------------
(* Bytes.                                                                   *)

Byte(data, i)     == data[i + 1]
Unsigned16(data, i) == Byte(data, i) + 256 * Byte(data, i + 1)
Signed(n, range)  == IF 2 * n >= range THEN n - range ELSE n  \* two's complement
Signed24(data, i) == Signed(Unsigned16(data, i) + 65536 * Byte(data, i + 2), 16777216)
Bit(n, weight)    == (n \div weight) % 2 = 1

Bytes16(n) == <<n % 256, (n \div 256) % 256>>
Bytes24(n) == Bytes16(n) \o <<(n \div 65536) % 256>>

-----------------------------------------------------------------------------
(* The test publisher.  The heading of a pilot that turns left of north is  *)
(* a negative number turned into a uint16.                                  *)

Heading == 0..359 \cup 65507..65535

\* One value of a pilot at a time differs from these.
FirstPilot == [lat |-> 1, lon |-> 2, altitude |-> 1000, speed |-> 50, climb |-> -5,
               heading |-> 270, aircraft |-> 1, address |-> 1048577]

Toward0(n, d) == IF n < 0 THEN -((-n) \div d) ELSE n \div d
Clip(n, most) == IF n > most THEN most ELSE n

Coordinate24s(p) == Bytes24(Toward0(p.lat, 2)) \o Bytes24(Toward0(p.lon, 2))

AltStatus(p) ==
  32768 + 4096 * p.aircraft
        + IF p.altitude > 2047 THEN 2048 + Clip(p.altitude \div 4, 2047) ELSE p.altitude
SpeedByte(p) ==
  IF p.speed > 63 THEN 128 + 2 * Clip(p.speed \div 5, 63) ELSE 2 * p.speed
ClimbByte(p) ==
  IF p.climb \in -64..63 THEN p.climb % 128
  ELSE LET fifth == Toward0(p.climb, 5) IN
       128 + ((IF fifth < -64 THEN -64 ELSE Clip(fifth, 63)) % 128)
\* Go leaves open what a float too big for a byte becomes.
HeadingBytes(p) == IF p.heading < 360 THEN {(p.heading * 256) \div 360} ELSE {0, 255}

AirTracking(p) ==
  {Coordinate24s(p) \o Bytes16(AltStatus(p)) \o <<SpeedByte(p), ClimbByte(p), h>> : h \in HeadingBytes(p)}
GroundTracking(p) ==
  {Coordinate24s(p) \o Bytes16(p.altitude - 1000) \o <<(2 * p.speed) % 256, h, 0>> : h \in HeadingBytes(p)}
Thermal(p) ==
  {Coordinate24s(p) \o Bytes16(p.altitude) \o <<q>> \o Bytes16(climb) \o Bytes16(0) :
     q \in {0, 5}, climb \in {100, 499}}
\* Wind heading, speed and gusts, temperature, humidity, pressure and battery.
Weather == {<<0>> \o Bytes16(w) \o Bytes16(300) \o Bytes16(700) \o Bytes16(t) \o <<60>>
                  \o Bytes16(50) \o <<80>> : w \in {0, 182 * 359}, t \in {-1000, 2900}}

\* A thermal without wind: TestParser_ParseThermal.
ShortThermal(p) ==
  {Coordinate24s(p) \o Bytes16(p.altitude) \o <<4>> \o Bytes16(climb) : climb \in {100, 499}}
\* A place and a byte for the type of the object and its status: message-format.md, Type 7.
ShortGround(p) == {Coordinate24s(p) \o <<status>> : status \in {17, 224}}

\* createPayload, and the shorter forms; the bytes of a name are parsed as they are.
Payloads(type) ==
  CASE type = 1 -> AirTracking(pilot)
    [] type = 2 -> {<<84, 101, 115, 116>>}
    [] type = 4 -> Weather
    [] type = 7 -> GroundTracking(pilot) \cup ShortGround(pilot)
    [] type = 9 -> Thermal(pilot) \cup ShortThermal(pilot)

-----------------------------------------------------------------------------
(* The parser.                                                              *)

\* The scaled fields of an air packet.
AltitudeUnscaled(status) == status % 2048
AirAltitude(status) == IF Bit(status, 2048) THEN 4 * (status % 2048) ELSE status % 2048
AirSpeed(b) == IF Bit(b, 128) THEN ((b % 128) * 5) \div 2 ELSE (b % 128) \div 2
AirClimb(b) == Signed(b % 128, 128) * (IF Bit(b, 128) THEN 5 ELSE 1)

ParseAirTracking(data) ==
  IF Len(data) < 11 THEN Unparsed
  ELSE [lat      |-> Signed24(data, 0),
        lon      |-> Signed24(data, 3),
        altitude |-> AirAltitude(Unsigned16(data, 6)),
        online   |-> Bit(Unsigned16(data, 6), 32768),
        aircraft |-> (Unsigned16(data, 6) \div 4096) % 8,
        speed    |-> AirSpeed(Byte(data, 8)),
        climb    |-> AirClimb(Byte(data, 9)),
        heading  |-> (Byte(data, 10) * 360) \div 256]

\* At most 64 bytes, without the zeros at the end.
WithoutZeros(name) == SubSeq(name, 1, Max({0} \cup {i \in DOMAIN name : name[i] # 0}))
ParseName(data) ==
  IF data = <<>> THEN Unparsed ELSE WithoutZeros(SubSeq(data, 1, Clip(Len(data), 64)))

\* The weather fields in the order they are read: the flag, and the number of bytes.
WeatherFields ==
  <<[name |-> "temperature", flag |-> 64, size |-> 1], [name |-> "wind", flag |-> 32, size |-> 3],
    [name |-> "humidity", flag |-> 16, size |-> 1], [name |-> "pressure", flag |-> 8, size |-> 2],
    [name |-> "battery", flag |-> 2, size |-> 1]>>

\* A field that is announced and is not there whole is passed over, and the offset stays.
ReadField(at, header, length, f) ==
  IF Bit(header, f.flag) /\ at.offset + f.size <= length
  THEN [offset |-> at.offset + f.size,
        fields |-> [name \in DOMAIN at.fields \cup {f.name} |->
                      IF name = f.name THEN at.offset ELSE at.fields[name]]]
  ELSE at
WeatherOffsets(header, length) ==
  LET Read(at, i) == ReadField(at, header, length, WeatherFields[i])
  IN  Read(Read(Read(Read(Read([offset |-> 7, fields |-> << >>], 1), 2), 3), 4), 5).fields

WeatherValue(data, name, i) ==
  CASE name = "temperature" -> Signed(Byte(data, i), 256)  \* in half degrees
    [] name = "wind"        -> <<(Byte(data, i) * 360) \div 256, Byte(data, i + 1), Byte(data, i + 2)>>
    [] name = "humidity"    -> Byte(data, i) \div 4
    [] name = "pressure"    -> Unsigned16(data, i) + 4300
    [] name = "battery"     -> (((Byte(data, i) % 16) * 100) % 256) \div 15  \* in 8 bits

ParseService(data) ==
  IF Len(data) < 7 THEN Unparsed
  ELSE [header  |-> Byte(data, 0),
        lat     |-> Signed24(data, 1),
        lon     |-> Signed24(data, 4),
        weather |-> LET at == WeatherOffsets(Byte(data, 0), Len(data))
                    IN  [name \in DOMAIN at |-> WeatherValue(data, name, at[name])]]

ParseGroundTracking(data) ==
  IF Len(data) < 10 THEN Unparsed
  ELSE [lat      |-> Signed24(data, 0),
        lon      |-> Signed24(data, 3),
        altitude |-> Signed(Unsigned16(data, 6), 65536),
        speed    |-> Unsigned16(data, 8) \div 64,
        heading  |-> (Unsigned16(data, 8) % 64) * 6]

ParseThermal(data) ==
  IF Len(data) < 13 THEN Unparsed
  ELSE [lat      |-> Signed24(data, 0),
        lon      |-> Signed24(data, 3),
        altitude |-> Unsigned16(data, 6),
        strength |-> Byte(data, 8),
        climb    |-> Signed(Unsigned16(data, 9), 65536)]

\* The outdated and the new form of the hardware information.
ParseHWInfo(data) ==
  IF Len(data) < 1 THEN Unparsed
  ELSE [device |-> Byte(data, 0), maker |-> IF Len(data) >= 2 THEN Byte(data, 1) ELSE 0]
ParseNewHWInfo(data) ==
  IF Len(data) < 2 THEN Unparsed ELSE [maker |-> Byte(data, 0), device |-> Byte(data, 1)]

\* A packet of an unknown type, or whose data is not understood, is still a message.
ParseData(type, data) ==
  CASE type = 1  -> ParseAirTracking(data)
    [] type = 2  -> ParseName(data)
    [] type = 4  -> ParseService(data)
    [] type = 7  -> ParseGroundTracking(data)
    [] type = 8  -> ParseHWInfo(data)
    [] type = 9  -> ParseThermal(data)
    [] type = 10 -> ParseNewHWInfo(data)
    [] OTHER     -> Unparsed

Parse(p) ==
  [type |-> p.type, device |-> Unsigned16(p.address, 0) + 65536 * Byte(p.address, 2),
   data |-> IF p.data = <<>> THEN Unparsed ELSE ParseData(p.type, p.data)]

-----------------------------------------------------------------------------
ParserInit ==
  /\ pilot  = FirstPilot
  /\ packet = Nothing
  /\ parsed = Nothing

\* updatePilotState, many times.
Fly ==
  /\ packet = Nothing /\ parsed = Nothing
  /\ pilot' \in {[FirstPilot EXCEPT !.lat = c, !.lon = -c] : c \in Coordinates}
               \cup {[FirstPilot EXCEPT !.altitude = a] : a \in Altitudes}
               \cup {[FirstPilot EXCEPT !.speed = v] : v \in 20..150}
               \cup {[FirstPilot EXCEPT !.climb = v] : v \in -30..29}
               \cup {[FirstPilot EXCEPT !.heading = h] : h \in Heading}
               \cup {[FirstPilot EXCEPT !.aircraft = t] : t \in 1..4}
  /\ UNCHANGED <<packet, parsed>>

Send(type, data) ==
  /\ packet = Nothing
  /\ packet' = [type |-> type, address |-> Bytes24(pilot.address), data |-> data]
  /\ parsed' = Nothing
  /\ UNCHANGED pilot

\* publishMessage.
Publish(type) == \E data \in Payloads(type) : Send(type, data)

\* A weather station sends a service packet, or a device the information on its hardware;
\* every byte but the first tells its index.
Transmit(type, header, length) ==
  /\ pilot = FirstPilot
  /\ Send(type, [i \in 1..length |-> IF i = 1 THEN header ELSE i - 1])

HandlePacket ==
  /\ packet # Nothing
  /\ parsed' = [of |-> packet, message |-> Parse(packet)] /\ packet' = Nothing
  /\ UNCHANGED pilot

ParserNext ==
  \/ Fly \/ HandlePacket
  \/ \E type \in {1, 2, 4, 7, 9} : Publish(type)
  \/ \E type \in {4, 8, 10}, header \in Headers, length \in Lengths :
       Transmit(type, header, length)

ParserSpec == ParserInit /\ [][ParserNext]_parserVars

-----------------------------------------------------------------------------
(* Properties.                                                              *)

ParserTypeOK ==
  /\ pilot.speed \in 20..150 /\ pilot.climb \in -30..29 /\ pilot.heading \in Heading
  /\ packet # Nothing => \A i \in DOMAIN packet.data : packet.data[i] \in 0..255

SamePlace(data) == {2 * data.lat - pilot.lat, 2 * data.lon - pilot.lon} \subseteq -1..1

\* What the parser reads of a position, or of a thermal that has its wind, is what was
\* sent: a place is off by less than a unit in either hemisphere, an altitude by less than
\* the scale of 4, a speed by less than the scale of 5, a climb not at all, a heading by 2
\* degrees.
FieldsSurvive ==
  parsed # Nothing =>
    LET sent == parsed.of.type
        data == parsed.message.data
        thermal == sent = 9 /\ Len(parsed.of.data) >= 13
    IN  /\ parsed.message.device = pilot.address
        /\ sent = 1 \/ thermal => SamePlace(data)
        /\ thermal => data.altitude = pilot.altitude /\ data.climb \in {100, 499}
        /\ sent = 1 =>
             /\ pilot.altitude - data.altitude \in IF pilot.altitude > 2047 THEN 0..3 ELSE {0}
             /\ pilot.speed - data.speed \in IF pilot.speed > 63 THEN 0..4 ELSE {0}
             /\ data.climb = pilot.climb /\ data.aircraft = pilot.aircraft
             /\ pilot.heading < 360 => pilot.heading - data.heading \in 0..2

\* The bytes that a header announces.
Announced(header) == {f \in {WeatherFields[i] : i \in 1..5} : Bit(header, f.flag)}
SizeOf(header, i) == IF Bit(header, WeatherFields[i].flag) THEN WeatherFields[i].size ELSE 0
AnnouncedSize(header) ==
  SizeOf(header, 1) + SizeOf(header, 2) + SizeOf(header, 3) + SizeOf(header, 4) + SizeOf(header, 5)

\* The weather fields of a service packet follow each other from byte 7 on, within the
\* packet; the fields that are announced are all read unless one of them is cut off.
FieldsFollow ==
  packet # Nothing /\ packet.type = 4 /\ Len(packet.data) >= 7 =>
    LET h      == packet.data[1]
        n      == Len(packet.data)
        at     == WeatherOffsets(h, n)
        read   == {f \in {WeatherFields[i] : i \in 1..5} : f.name \in DOMAIN at}
        End(f) == at[f.name] + f.size
    IN  /\ \A f \in read : End(f) <= n /\ (at[f.name] = 7 \/ \E g \in read : End(g) = at[f.name])
        /\ \A f, g \in read : f # g => End(f) <= at[g.name] \/ End(g) <= at[f.name]
        /\ n >= 7 + AnnouncedSize(h) => read = Announced(h)

\* A position, a thermal of 13 bytes and the weather of a service packet are read as they
\* were sent.  It is not said, for it does not hold, of the shorter forms: a thermal of 11
\* bytes, which TestParser_ParseThermal expects to be read, is dropped, and so is a ground
\* track as message-format.md lays it out.  Of other ground tracks, names and hardware this
\* says nothing.
PacketsAreRead == FieldsSurvive /\ FieldsFollow

=============================================================================
