---------------------------- MODULE UdpReceiver ----------------------------
(****************************************************************************)
(* The packet path of AsyncUdpSource::receive_loop: the codec is detected   *)
(* on the first datagram and kept, every datagram is counted once, and the  *)
(* sequence tracker estimates what the network lost.  The network may       *)
(* lose, repeat and reorder datagrams, and stray ones arrive.               *)
(****************************************************************************)
EXTENDS TelemetryCodecs

CONSTANTS MaxFrame,    \* bound on the frame identifiers of the sender
          MaxReceived, \* bound on the calls of socket.recv that return
          Wire         \* the packets a sender of each format may send for a frame

ASSUME MaxFrameAssumption == MaxFrame \in Nat
ASSUME MaxReceivedAssumption == MaxReceived \in Nat

\* What the game sends is recognised as such: a whole header that names its year.
ASSUME WireAssumption == \A p \in Wire["F1"] : F1CanDecode(p) /\ "frame" \in DOMAIN p

\* UdpCodecType.
Codecs == {"EcuBridge", "F1", "PitgunV1"}
AutoDetect == "Auto"

VARIABLES
  config,   \* UdpSourceConfig::codec
  sender,   \* the format of the one sender the source listens to
  sentUpTo, \* the sender has sent packets for the frames 1..sentUpTo
  locked,   \* locked_codec, AutoDetect for None
  stats,    \* UdpStats, the tracker included; recvErrors is the part of errors
            \* that counts failed recv calls
  first,    \* history: the format of the first datagram, "none" before it
  tracked   \* history: sequences passed to track(): the first one, and all

vars == <<config, sender, sentUpTo, locked, stats, first, tracked>>

Stats == [received : Nat, decoded : Nat, skipped : Nat, errors : Nat, recvErrors : Nat,
          initialized : BOOLEAN, last : Nat, lost : Nat, outOfOrder : Nat]

NewStats == [received |-> 0, decoded |-> 0, skipped |-> 0, errors |-> 0, recvErrors |-> 0,
             initialized |-> FALSE, last |-> 0, lost |-> 0, outOfOrder |-> 0]

Init ==
  /\ config \in Codecs \cup {AutoDetect}
  /\ sender \in Codecs
  /\ sentUpTo = 0
  /\ locked = config
  /\ stats = NewStats
  /\ first = "none"
  /\ tracked = [first |-> 0, all |-> {}]

------------------------------------------------------------------------------

\* The format when a decoder recognises it, the legacy codec otherwise.
DetectCodec(format, packet) ==
  CASE format = "EcuBridge" -> "EcuBridge"
    [] format = "F1" /\ F1CanDecode(packet) -> "F1"
    [] OTHER -> "PitgunV1"

\* What decode_packet may answer for a packet of the given format that is sent for
\* the given frame.  Only the F1 codec numbers its frames, by the identifier in
\* the header; the other two leave the builder's 0.  An F1 decoder looks at no
\* magic number, so foreign bytes may make a frame with any identifier.
DecodePacket(format, codec, packet, frame) ==
  CASE format = "stray" -> {Error("MalformedData")}
    [] format # "stray" /\ codec = "F1" ->
         IF format = "F1" THEN {F1Decode([packet EXCEPT !.frame = frame], Player, FALSE)}
         ELSE {Decoded(Frame(0, n, 0, << >>, << >>, NoData)) : n \in 0..MaxFrame}
                \cup {Skipped, Error("InvalidPacketType")}
    [] format # "stray" /\ codec = "EcuBridge" ->
         IF format = "EcuBridge" THEN EcuDecode(packet, TRUE) ELSE {Error("InvalidHeader")}
    [] format # "stray" /\ codec = "PitgunV1" ->
         IF format = "PitgunV1" THEN {PitgunDecode(packet, 1)} ELSE {Error("MalformedData")}

\* MUTANT of Track: a late packet moves last_sequence back.
TrackMovesBack(s, n) ==
  IF ~s.initialized THEN [s EXCEPT !.initialized = TRUE, !.last = n]
  ELSE IF n > s.last THEN [s EXCEPT !.lost = @ + (n - s.last - 1), !.last = n]
  ELSE IF n < s.last THEN [s EXCEPT !.outOfOrder = @ + 1, !.last = n]
  ELSE s

\* SequenceTracker::track.
Track(s, n) ==
  IF ~s.initialized THEN [s EXCEPT !.initialized = TRUE, !.last = n]
  ELSE IF n > s.last THEN [s EXCEPT !.lost = @ + (n - s.last - 1), !.last = n]
  ELSE IF n < s.last THEN [s EXCEPT !.outOfOrder = @ + 1]
  ELSE s

\* The counters after one decoded result.
CountResult(s, output) ==
  CASE output.out = "Frame" -> Track([s EXCEPT !.decoded = @ + 1], output.frame.sequence)
    [] output.out \in {"Skipped", "NoOutput"} -> [s EXCEPT !.skipped = @ + 1]
    [] IsError(output) -> [s EXCEPT !.errors = @ + 1]

\* The next frame of the sender goes out: external.
Send ==
  /\ sentUpTo < MaxFrame
  /\ sentUpTo' = sentUpTo + 1
  /\ UNCHANGED <<config, sender, locked, stats, first, tracked>>

\* History: the sequence of a frame goes to the tracker.
Tracked(output) ==
  IF output.out # "Frame" THEN tracked
  ELSE [first |-> IF stats.initialized THEN tracked.first ELSE output.frame.sequence,
        all |-> tracked.all \cup {output.frame.sequence}]

Room == stats.received + stats.recvErrors < MaxReceived

\* socket.recv returns a datagram.
Receive(format, packet, frame) ==
  LET codec == IF locked = AutoDetect THEN DetectCodec(format, packet) ELSE locked IN
  /\ Room
  /\ locked' = codec
  /\ \E output \in DecodePacket(format, codec, packet, frame) :
       /\ stats' = CountResult([stats EXCEPT !.received = @ + 1], output)
       /\ tracked' = Tracked(output)
  /\ first' = IF first = "none" THEN format ELSE first
  /\ UNCHANGED <<config, sender, sentUpTo>>

\* Any packet sent so far, once more, late or not at all.
ReceivePacket ==
  \E frame \in 1..sentUpTo, packet \in Wire[sender] : Receive(sender, packet, frame)

ReceiveStray == Receive("stray", << >>, 0)

\* socket.recv fails.
ReceiveError ==
  /\ Room
  /\ stats' = [stats EXCEPT !.errors = @ + 1, !.recvErrors = @ + 1]
  /\ UNCHANGED <<config, sender, sentUpTo, locked, first, tracked>>

Next == Send \/ ReceivePacket \/ ReceiveStray \/ ReceiveError

Spec == Init /\ [][Next]_vars

------------------------------------------------------------------------------
(* Properties *)

Missing == {n \in tracked.first..stats.last : n \notin tracked.all}

\* packets_lost against the sequences that really never came between the first
\* and the last one: loss is never under-reported, and over-reported by at most
\* one for each packet counted out of order, so frames_dropped (their sum) bounds
\* the frames missing; without late packets the count is exact.
LossBounds ==
  stats.initialized =>
    /\ stats.lost >= Cardinality(Missing)
    /\ stats.lost <= Cardinality(Missing) + stats.outOfOrder
    /\ stats.last \in tracked.all
    /\ \A n \in tracked.all : n <= stats.last

\* An auto-detecting source that heard its sender first keeps the sender's codec,
\* whatever strays arrive later: detect_codec is asked once in a loop's life.
CodecIsKept == (config = AutoDetect /\ first = sender) => locked = sender

\* The UDP source reports loss within bounds and stays with the codec it settled on.
ReceiverIsHonest == LossBounds /\ CodecIsKept
==============================================================================
