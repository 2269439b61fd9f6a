------------------------------ MODULE MCPackets ------------------------------
(****************************************************************************)
(* Telemetry between the socket and a record: the UDP packet path, a frame  *)
(* on its way through a codec, the segment statistics of a stream, and a    *)
(* recording from replayed files to written ones.                           *)
(* They share no state: a behaviour exercises one of them (`part`).         *)
(****************************************************************************)
EXTENDS UdpReceiver

CONSTANTS Keys, Values, Times, MaxBatch, MaxEvents, NonFinite

VARIABLES part, link, stage, sent, packet, damage, output, options, current, out, seen, ended,
          scenario, emitter, wire, faults, sub, disk, history
linkState == <<link, stage, sent, packet, damage, output>>
segmentState == <<options, current, out, seen, ended>>
recordingState == <<scenario, emitter, wire, faults, sub, disk, history>>
allVars == <<part, vars, linkState, segmentState, recordingState>>

F1Packet(bytes, id, player, code) ==
  [bytes |-> bytes, format |-> 2024, id |-> id, player |-> player, frame |-> 1, session |-> 7,
   time |-> 3, code |-> code]

TheSamples ==
  <<Sample(1, "F32", <<NaN>>, "Unknown"), Sample(2, "Bytes", [i \in 1..9 |-> i], "Bad"),
    Sample(3, "String", [i \in 1..18 |-> i], "Degraded"), Sample(4, "Bytes", <<5>>, "Good"),
    Sample(5, "U16", <<260>>, "NoSignal")>>
TheEvents == <<Event(8, "flag", "Critical"), Event(9, "lights", "Trace"), Event(10, "pit", "Info")>>
TheFrames ==
  {Frame(6, 4, 2, SubSeq(TheSamples, a, b), SubSeq(TheEvents, 1, n), "lap 3")
     : a \in 1..5, b \in 0..5, n \in 0..3}

F1Lengths == {0, 28, 29, 32, 33, 85, 86, 88, 89, 146, 148, 149, 199, 200, 208, 209, 1349}
TheF1Packets ==
  {F1Packet(bytes, id, player, "RDFL") : bytes \in F1Lengths, id \in {0, 1, 2, 3, 6, 7, 14}, player \in 0..2}
    \cup {F1Packet(40, 3, 0, code) : code \in {"OVTK", "SSTA", "????"}}

TheWire ==
  [F1 |-> {F1Packet(209, 6, 1, "SSTA"), F1Packet(209, 7, 1, "SSTA"), F1Packet(33, 14, 1, "SSTA")},
   EcuBridge |-> {BuildPacket(Frame(6, 4, 2, TheSamples, TheEvents, NoData), FALSE), BuildPacket(NoFrame, TRUE),
                  [EcuEncode(NoFrame, TRUE) EXCEPT !.heartbeat = TRUE],
                  [EcuEncode(NoFrame, TRUE) EXCEPT !.crc = FALSE]},
   PitgunV1 |-> {PitgunEncode(3, TRUE, 4000, 5), PitgunEncode(3, FALSE, 4000, 5),
                 [PitgunEncode(3, TRUE, 9000, 5) EXCEPT !.bytes = 20]}]
MCWire == TheWire

Link == INSTANCE CodecLink WITH Frames <- TheFrames, F1Packets <- TheF1Packets
Segments == INSTANCE SegmentAggregate

------------------------------------------------------------------------------
(* The recordings *)

P == INSTANCE EventProcessors
RowAt(ts, value) == [ts |-> ts, value |-> value]
Unreadable == [ts |-> -1, value |-> 0]
CsvFile(channel, rows) == [channel |-> channel, rows |-> rows]
Merged == <<CsvFile("speed", <<RowAt(1, 2), RowAt(2, 4)>>), CsvFile("key", <<RowAt(1, 1), RowAt(3, 2)>>)>>
Unordered == <<CsvFile("speed", <<RowAt(2, 2), RowAt(1, 3)>>), CsvFile("speed", <<RowAt(2, 5)>>), CsvFile("key", << >>)>>
Nothing == <<CsvFile("speed", << >>)>>
OtherInputs ==
  {<<CsvFile("speed", <<RowAt(4, 2), RowAt(5, 3)>>), CsvFile("key", <<RowAt(4, 1), RowAt(4, 1)>>)>>,
   <<CsvFile("speed", <<RowAt(1, 2), Unreadable>>), CsvFile("other", <<RowAt(1, 0), RowAt(2, 0)>>)>>,
   <<CsvFile("speed", <<Unreadable>>)>>, Nothing}
Args(channel, csv) ==
  [config |-> << >>, transport |-> "udp", bindable |-> TRUE, ws_url |-> FALSE, directory |-> TRUE,
   write_csv |-> csv, json |-> ~csv, channel |-> channel]
Manifest(processors) ==
  [Args(<< >>, FALSE) EXCEPT !.config =
     <<[loads |-> TRUE, source |-> "udp", bindable |-> TRUE, processors |-> processors, sink |-> "console"]>>]
FilterSpeed == [P!NoFields EXCEPT !.type = "channel_filter", !.channels = <<<<"speed">>>>]
ScaleSpeed == [P!NoFields EXCEPT !.type = "scale", !.channel = <<"speed">>, !.factor = <<2>>]
Ratio == P!BinaryOp("Add", P!FuncCall("abs", <<P!BinaryOp("Sub", P!Literal(0), P!Var("speed"))>>), P!Var("key"))
FormulaRatio == [P!NoFields EXCEPT !.type = "formula", !.output = <<"ratio">>, !.ast = <<Ratio>>]
Targets(metrics) == <<<<[channel |-> "speed", metrics |-> metrics]>>>>
SegmentsByKey == [P!NoFields EXCEPT !.type = "segment_aggregate", !.segment_key = <<"key">>, !.targets = Targets(<< >>)]
ToWebSocket == [Args(<< >>, TRUE) EXCEPT !.transport = "ws", !.ws_url = TRUE]
Refused == {[ToWebSocket EXCEPT !.ws_url = FALSE], [Args(<< >>, TRUE) EXCEPT !.directory = FALSE],
            Manifest(<<[SegmentsByKey EXCEPT !.targets = Targets(<<<<"median">>>>)]>>),
            Manifest(<<[FormulaRatio EXCEPT !.ast = << >>]>>)}
Chains == {<<ScaleSpeed, FormulaRatio, SegmentsByKey>>, <<FilterSpeed, FormulaRatio>>,
           <<[SegmentsByKey EXCEPT !.emit_on_change = <<FALSE>>], P!NoFields>>}
Scenario(inputs, commands, runs, disturbances) ==
  [files |-> inputs, commands |-> commands, runs |-> runs, faults |-> disturbances]
Silence == Scenario(Nothing, {ToWebSocket} \cup Refused, 2, 0)
TheScenarios ==
  {Scenario(inputs, {Args(<< >>, TRUE), Args(<<"speed">>, TRUE)}, 2, 0) : inputs \in {Merged, Unordered}}
    \cup {Scenario(inputs, {Args(<< >>, TRUE)}, 1, 1) : inputs \in OtherInputs \cup {Merged, Unordered}}
    \cup {Scenario(inputs, {Manifest(p)}, 1, 1) : inputs \in {Merged, Unordered}, p \in Chains}
    \cup {Silence}
Text(events, eos) ==
  [kind |-> "text", json |-> TRUE, schema_version |-> 1, session |-> TRUE, events |-> events, eos |-> eos]
TheMessages ==
  {Text(<<P!Happened("speed", 1, 2), P!Happened("key", 1, 1)>>, FALSE), Text(<<P!Happened("speed", 1, 3)>>, TRUE), Text(<< >>, FALSE),
   [Text(<< >>, FALSE) EXCEPT !.schema_version = 2], [Text(<< >>, FALSE) EXCEPT !.kind = "close"]}

Recorded ==
  INSTANCE Recording WITH
    Channels <- {"key", "speed", "other", "ratio"}, Scenarios <- TheScenarios, Messages <- TheMessages,
    BatchMaxLen <- 3, BufferRows <- 2, MaxU64 <- 3, MaxU128 <- 5, MaxMessages <- 2

------------------------------------------------------------------------------

MCInit ==
  /\ part \in {"source", "link", "segments", "recording"}
  /\ Init
  /\ IF part = "link" THEN Link!LinkInit
     ELSE /\ link = "idle" /\ stage = "frame" /\ sent = NoFrame /\ packet = << >>
          /\ damage = Link!Undamaged /\ output = NoOutput
  /\ part # "source" => config = AutoDetect /\ sender = "F1"
  /\ Segments!Init
  /\ part # "segments" => options = [onChange |-> TRUE, lastOnEof |-> TRUE]
  /\ Recorded!RecordingInit
  /\ part # "recording" => scenario = Silence

MCNext ==
  \/ part = "source" /\ Next /\ UNCHANGED <<part, linkState, segmentState, recordingState>>
  \/ part = "link" /\ Link!LinkNext({0, 27, 28, 29, 30} \cup 31..90) /\ UNCHANGED <<part, vars, segmentState, recordingState>>
  \/ part = "segments" /\ Segments!Next /\ UNCHANGED <<part, vars, linkState, recordingState>>
  \/ part = "recording" /\ Recorded!RecordingNext /\ UNCHANGED <<part, vars, linkState, segmentState>>

MCSpec == MCInit /\ [][MCNext]_allVars

\* However a stream is cut into batches, the records are those of its segments, and
\* between batches the processor holds the last one (SegmentAggregateProcessor).
SegmentsAreExact == Segments!RecordsMatchSegments /\ Segments!OpenSegmentIsLast

\* A frame survives its codec: an ECUBridge packet carries it, and nothing damaged
\* passes the checksum; a JSON document that decodes is the frame that was encoded; the
\* F1 decoder reads the record of the car asked for, inside the datagram.
CodecsCarry == part = "link" => Link!EcuBridgeCarries /\ Link!JsonIsLossless /\ Link!F1ReadsItsCar

\* A recording is what was replayed: files are merged in time order, a recording over
\* an undisturbed network misses and repeats nothing, and every file is an unbroken
\* stretch of one run (pitgun-replay, UdpSource, WsSource, CsvSink).
RecordingIsFaithful ==
  part = "recording" =>
    Recorded!ReplayMergesInTime /\ Recorded!RecordedAsSent /\ Recorded!FilesAreStretches

\* What a chain of processors adds does not depend on more than it should: a formula
\* sees its batch, the aggregates the whole stream (Pipeline::run_once).
ChainIsFaithful ==
  part = "recording" => Recorded!DerivedFromItsBatch /\ Recorded!AggregatesAcrossBatches

\* The processors' records follow from the stream alone: segments from its keys,
\* derived values from their batch, whatever chain they run in.
ProcessedFaithfully == SegmentsAreExact /\ ChainIsFaithful
==============================================================================
