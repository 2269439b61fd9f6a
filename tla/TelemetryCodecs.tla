-------------------------- MODULE TelemetryCodecs --------------------------
(****************************************************************************)
(* The codecs between datagrams and TelemetryFrames: ECUBridge and JSON in  *)
(* both directions, F1 and PitgunV1 as decoders.  A packet is the list of   *)
(* its fields with the bytes each takes; what a decoder meets at a place    *)
(* where no field begins is an arbitrary value.  The value of a sample is   *)
(* the tuple of its bytes, one number for a scalar.                         *)
(****************************************************************************)
EXTENDS Integers, Sequences, FiniteSets, SequencesExt

CONSTANTS MaxCount,     \* u16::MAX, the most samples or events a packet can count
          StandardSize, \* ECUBRIDGE_PACKET_SIZE
          MaxTs         \* u64::MAX, in nanoseconds

ASSUME CodecAssumption == MaxCount \in Nat /\ StandardSize \in Nat /\ MaxTs \in Nat

NaN == -1        \* a float that is not finite
Null == -2       \* what serde_json writes for it
NoData == "none" \* an event without data, a frame without context
Anything == -3   \* bytes read where no field begins

Scalars == <<"Bool", "U8", "U16", "U32", "U64", "I8", "I16", "I32", "I64", "F32", "F64">>

Frame(session, sequence, time, samples, events, context) ==
  [session |-> session, sequence |-> sequence, time |-> time, samples |-> samples,
   events |-> events, context |-> context]
Sample(id, type, value, quality) ==
  [id |-> id, type |-> type, value |-> value, quality |-> quality]
Event(id, name, severity) == [id |-> id, name |-> name, severity |-> severity, data |-> NoData]

NoFrame == Frame(0, 0, 0, << >>, << >>, NoData)
Decoded(frame) == [out |-> "Frame", frame |-> frame]
NoOutput == [out |-> "NoOutput", frame |-> NoFrame]
Skipped == [out |-> "Skipped", frame |-> NoFrame]
Error(kind) == [out |-> kind, frame |-> NoFrame]
IsError(output) == output.out \notin {"Frame", "NoOutput", "Skipped"}

AtMost(a, b) == IF a <= b THEN a ELSE b

------------------------------------------------------------------------------
(* ECUBridge *)

EcuHeaderSize == 28
EcuCrcSize == 4

\* DataTypeCode: 0..10 the scalars, then 4, 8 and 16 bytes; other codes are
\* unknown to this version.
KnownCodes == 0..13
SizeBytes(code) ==
  CASE code \in {0, 1, 5} -> 1
    [] code \in {2, 6} -> 2
    [] code \in {3, 7, 9, 11} -> 4
    [] code \in {4, 8, 10, 12} -> 8
    [] OTHER -> 16

\* Vec::resize with zeros.
Resize(bytes, n) == [i \in 1..n |-> IF i <= Len(bytes) THEN bytes[i] ELSE 0]

\* MUTANT of BytesCode: nine bytes still go for eight.
BytesCodeOff(type, n) ==
  IF type = "String" THEN 13 ELSE IF n <= 4 THEN 11 ELSE IF n <= 9 THEN 12 ELSE 13

BytesCode(type, n) ==
  IF type = "String" THEN 13 ELSE IF n <= 4 THEN 11 ELSE IF n <= 8 THEN 12 ELSE 13

\* encode_sample: an unknown quality has no code of its own and goes as good.
EncodeSample(s) ==
  LET quality == IF s.quality = "Unknown" THEN "Good" ELSE s.quality
      scalar == \E k \in DOMAIN Scalars : Scalars[k] = s.type
      code == IF scalar THEN CHOOSE c \in 0..10 : Scalars[c + 1] = s.type
              ELSE BytesCode(s.type, Len(s.value))
  IN [field |-> "sample", id |-> s.id, quality |-> quality, code |-> code,
      value |-> IF scalar THEN s.value ELSE Resize(s.value, SizeBytes(code)),
      size |-> 3 + SizeBytes(code)]

\* An event as encode writes it: no name and no data.
EncodeEvent(e) ==
  [field |-> "event", id |-> e.id, quality |-> e.severity, code |-> 0, value |-> << >>, size |-> 4]

TotalSize(fields) == FoldLeft(LAMBDA sum, field : sum + field.size, 0, fields)

\* EcuBridgeCodec::encode; `bytes` is the length of the datagram.
EcuEncode(frame, standard) ==
  LET samples == AtMost(Len(frame.samples), MaxCount)
      events == AtMost(Len(frame.events), MaxCount)
      body == [k \in 1..samples |-> EncodeSample(frame.samples[k])]
                \o [k \in 1..events |-> EncodeEvent(frame.events[k])]
      content == EcuHeaderSize + TotalSize(body)
      padded == IF standard /\ content < StandardSize - EcuCrcSize
                THEN StandardSize - EcuCrcSize ELSE content
  IN [magic |-> TRUE, heartbeat |-> FALSE, hasEvents |-> frame.events # << >>,
      session |-> frame.session, time |-> frame.time, samples |-> samples, events |-> events,
      body |-> body, bytes |-> padded + EcuCrcSize, crc |-> TRUE]

\* The builder for tests and emulators keeps its heartbeat flag to itself: the
\* packet is the one encode makes of the frame.
BuildPacket(frame, heartbeat) == EcuEncode(frame, TRUE)

\* The byte after field k of the body.
FieldEnd(p, k) == EcuHeaderSize + TotalSize(SubSeq(p.body, 1, k))

\* read_value: codes 11 to 13 become Bytes, whatever was encoded.
DecodeSample(field) ==
  Sample(field.id, IF field.code <= 10 THEN Scalars[field.code + 1] ELSE "Bytes",
         field.value, field.quality)

\* decode_event: the name is made from the id, the data skipped.
DecodeEvent(field) == Event(field.id, "event_n", field.quality)

\* The samples that decode, up to the first error.
ReadableSamples(p) ==
  LET readable(k) == p.body[k].code \in KnownCodes /\ FieldEnd(p, k) <= p.bytes
  IN CHOOSE n \in 0..p.samples :
       /\ \A k \in 1..n : readable(k)
       /\ n < p.samples => ~readable(n + 1)

\* The events read from where the samples ended.  After an error the cursor is
\* inside a field: what is read there are not events anybody sent.
ReadEvents(p, read) ==
  IF ~p.hasEvents THEN {<< >>}
  ELSE IF read < p.samples
  THEN {[k \in 1..n |-> Event(Anything, "event_n", "Info")] : n \in 0..p.events}
  ELSE LET whole(n) == \A k \in 1..n : FieldEnd(p, p.samples + k) <= p.bytes
           n == CHOOSE n \in 0..p.events : whole(n) /\ (n < p.events => ~whole(n + 1))
       IN {[k \in 1..n |-> DecodeEvent(p.body[p.samples + k])]}

\* EcuBridgeCodec::decode: the set of what it may answer.
EcuDecode(p, verify) ==
  IF p.bytes < EcuHeaderSize THEN {Error("InsufficientData")}
  ELSE IF ~p.magic THEN {Error("InvalidHeader")}
  ELSE IF verify /\ ~p.crc THEN {Error("ChecksumMismatch")}
  ELSE IF p.heartbeat THEN {NoOutput}
  ELSE LET read == ReadableSamples(p) IN
       {Decoded(Frame(p.session, 0, p.time, [k \in 1..read |-> DecodeSample(p.body[k])], events, NoData))
          : events \in ReadEvents(p, read)}

------------------------------------------------------------------------------
(* JSON *)

\* serde_json writes a float that is not finite as null.
JsonEncode(frame) ==
  [frame EXCEPT !.samples =
     [k \in DOMAIN frame.samples |->
        IF frame.samples[k].value = <<NaN>> THEN [frame.samples[k] EXCEPT !.value = <<Null>>]
        ELSE frame.samples[k]]]

\* Nothing can be a float and null: the whole document is refused.
JsonDecode(document, whole) ==
  IF ~whole \/ \E k \in DOMAIN document.samples : document.samples[k].value = <<Null>>
  THEN Error("SerializationError")
  ELSE Decoded(document)

------------------------------------------------------------------------------
(* F1: a header, then one record for each car *)

F1HeaderSize == 29
F1Motion == 0
F1LapData == 2
F1Event == 3
F1CarTelemetry == 6
F1PacketTypes == 0..13

\* is_telemetry: it counts two types that decode skips, and leaves out two that it
\* handles.
F1IsTelemetry(id) == id \in {F1Motion, F1CarTelemetry, 7, 13}

\* A record: its size, and for each sample its parameter, the place of its bytes
\* and how many they are.
F1MotionRecord ==
  [size |-> 60,
   fields |-> <<<<120, 0, 4>>, <<121, 4, 4>>, <<122, 8, 4>>, <<41, 12, 4>>, <<42, 16, 4>>, <<43, 20, 4>>,
                <<50, 32, 4>>, <<51, 36, 4>>, <<52, 40, 4>>, <<130, 44, 4>>, <<131, 48, 4>>, <<132, 52, 4>>>>]
F1CarTelemetryRecord ==
  [size |-> 60,
   fields |-> <<<<40, 0, 2>>, <<10, 2, 4>>, <<20, 6, 4>>, <<11, 10, 4>>, <<30, 15, 1>>, <<1, 16, 2>>, <<100, 18, 1>>,
                <<150, 22, 2>>, <<151, 24, 2>>, <<152, 26, 2>>, <<153, 28, 2>>,
                <<70, 30, 1>>, <<71, 31, 1>>, <<72, 32, 1>>, <<73, 33, 1>>,
                <<80, 42, 4>>, <<81, 46, 4>>, <<82, 50, 4>>, <<83, 54, 4>>>>]
F1LapRecord ==
  [size |-> 57, fields |-> <<<<110, 0, 4>>, <<114, 12, 4>>, <<113, 24, 1>>, <<115, 29, 1>>>>]

F1Record(id) ==
  CASE id = F1Motion -> F1MotionRecord
    [] id = F1LapData -> F1LapRecord
    [] OTHER -> F1CarTelemetryRecord

F1EventCodes ==
  <<"SSTA", "SEND", "FTLP", "RTMT", "DRSE", "DRSD", "TMPT", "CHQF", "RCWN", "PENA", "SPTP", "STLG",
    "LGOT", "DTSV", "SGSV", "FLBK", "BUTN", "RDFL", "OVTK">>

F1EventId(code) ==
  IF \E k \in DOMAIN F1EventCodes : F1EventCodes[k] = code
  THEN CHOOSE k \in DOMAIN F1EventCodes : F1EventCodes[k] = code ELSE 0

\* decode_motion, decode_car_telemetry and decode_lap_data.  The value of a sample
\* is where its bytes were read and how many.
F1Samples(p, car) ==
  LET record == F1Record(p.id)
      offset == F1HeaderSize + car * record.size
  IN IF p.bytes < offset + record.size THEN << >>
     ELSE [k \in DOMAIN record.fields |->
             Sample(record.fields[k][1], "F1", <<offset + record.fields[k][2], record.fields[k][3]>>, "Good")]

F1Severity(code) ==
  CASE code \in {"RTMT", "PENA"} -> "Warning"
    [] code = "RDFL" -> "Critical"
    [] code = "BUTN" -> "Trace"
    [] code \in {"SPTP", "FLBK"} \/ F1EventId(code) = 0 -> "Debug"
    [] OTHER -> "Info"

\* decode_event.  A code stands for the name the decoder gives it.
F1Events(p) ==
  IF p.bytes < F1HeaderSize + 4 THEN << >>
  ELSE <<Event(F1EventId(p.code), p.code, F1Severity(p.code))>>

\* F1UdpCodec::decode for one car, or for the player's when car is Player.
Player == -1
F1Decode(p, car, telemetryOnly) ==
  IF p.bytes < F1HeaderSize THEN Error("InsufficientData")
  ELSE IF p.id \notin F1PacketTypes THEN Error("InvalidPacketType")
  ELSE IF telemetryOnly /\ ~F1IsTelemetry(p.id) THEN Skipped
  ELSE IF p.id \notin {F1Motion, F1CarTelemetry, F1LapData, F1Event} THEN Skipped
  ELSE LET samples == IF p.id = F1Event THEN << >>
                      ELSE F1Samples(p, IF car = Player THEN p.player ELSE car)
           events == IF p.id = F1Event THEN F1Events(p) ELSE << >>
       IN IF samples = << >> /\ events = << >> THEN NoOutput
          ELSE Decoded(Frame(p.session, p.frame, p.time, samples, events, NoData))

\* can_decode: the year of the game, in a datagram that holds a header.
F1CanDecode(p) == p.bytes >= F1HeaderSize /\ p.format \in 2020..2030

------------------------------------------------------------------------------
(* PitgunV1: the length of the channel's name, the name, a time and a value *)

PitgunEncode(nameLength, utf8, ts, value) ==
  [name |-> nameLength, utf8 |-> utf8, ts |-> ts, value |-> value, bytes |-> 2 + nameLength + 16 + 8]

\* decode_pitgun_v1, then the legacy arm of decode_packet: the name goes with the
\* event, so that every channel becomes parameter 0 of session `session`.
PitgunDecode(p, session) ==
  LET ts == AtMost(p.ts, MaxTs) IN
  IF p.bytes < 2 + p.name + 16 + 8 \/ ~p.utf8 THEN Error("MalformedData")
  ELSE Decoded(Frame(session, 0, ts \div 1000, <<Sample(0, "F64", <<p.value>>, "Good")>>, << >>, NoData))

==============================================================================
