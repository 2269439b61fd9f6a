---------------------------- MODULE ReceiverProofs ---------------------------
(***************************************************************************)
(* The UDP packet path for any packets a sender may send, any number of    *)
(* frames and of calls of recv: however the network loses, repeats and     *)
(* reorders datagrams and whatever strays arrive, the loss that the        *)
(* sequence tracker reports stays within its bounds, and the source keeps  *)
(* the codec of the sender it heard first.                                 *)
(***************************************************************************)
EXTENDS UdpReceiver, FiniteSetTheorems, TLAPS

------------------------------------------------------------------------------
(* The sequence tracker *)

TrackedSet == [first : Nat, all : SUBSET Nat]

\* The sequences between the first and the last one that never came.
Gap(from, to, came) == {n \in from..to : n \notin came}

\* The history after a frame went to the tracker.
WithSequence(s, t, n) ==
  [first |-> IF s.initialized THEN t.first ELSE n, all |-> t.all \cup {n}]

\* The bounds on the reported loss, for counters s and history t.
Bounded(s, t) ==
  /\ s.lost >= Cardinality(Gap(t.first, s.last, t.all))
  /\ s.lost <= Cardinality(Gap(t.first, s.last, t.all)) + s.outOfOrder
  /\ s.last \in t.all
  /\ \A n \in t.all : n <= s.last

\* The inductive invariant of the tracker: before the first frame nothing is lost.
Accounted(s, t) ==
  /\ ~s.initialized => t.all = {} /\ s.lost = 0
  /\ s.initialized => Bounded(s, t) /\ t.first \in t.all

\* A gap is a finite set.
LEMMA GapFinite ==
  ASSUME NEW a \in Nat, NEW b \in Nat, NEW came
  PROVE  IsFiniteSet(Gap(a, b, came)) /\ Cardinality(Gap(a, b, came)) \in Nat
<1>1. IsFiniteSet(a..b)
  BY FS_Interval
<1>2. Gap(a, b, came) \in SUBSET (a..b)
  BY DEF Gap
<1>3. IsFiniteSet(Gap(a, b, came))
  BY ONLY <1>1, <1>2, FS_Subset
<1> QED BY <1>3, FS_CardinalityType

\* A packet ahead of the last one opens a gap of all that lies between.
LEMMA GapWidens ==
  ASSUME NEW a \in Nat, NEW b \in Nat, NEW came \in SUBSET Nat, NEW n \in Nat, n > b,
         b \in came, a <= b, \A m \in came : m <= b
  PROVE  Cardinality(Gap(a, n, came \cup {n})) = Cardinality(Gap(a, b, came)) + ((n - b) - 1)
<1> DEFINE new == (b + 1)..(n - 1)
<1>1. Gap(a, n, came \cup {n}) = Gap(a, b, came) \cup new
  BY DEF Gap
<1>2. Gap(a, b, came) \cap new = {}
  BY DEF Gap
<1>3. IsFiniteSet(new) /\ Cardinality(new) = (n - b) - 1
  <2>1. b + 1 \in Int /\ n - 1 \in Int
    OBVIOUS
  <2>2. IsFiniteSet(new) /\ Cardinality(new) = IF b + 1 > n - 1 THEN 0 ELSE ((n - 1) - (b + 1)) + 1
    BY <2>1, FS_Interval
  <2>3. (IF b + 1 > n - 1 THEN 0 ELSE ((n - 1) - (b + 1)) + 1) = (n - b) - 1
    OBVIOUS
  <2> QED BY <2>2, <2>3
<1>4. /\ IsFiniteSet(Gap(a, b, came)) /\ Cardinality(Gap(a, b, came)) \in Nat
  BY GapFinite
<1> HIDE DEF new
<1>5. Cardinality(Gap(a, b, came) \cup new)
        = Cardinality(Gap(a, b, came)) + Cardinality(new) - Cardinality({})
  BY ONLY <1>2, <1>3, <1>4, FS_Union
<1>6. Cardinality({}) = 0 /\ (n - b) - 1 \in Int
  BY FS_EmptySet
<1>7. Cardinality(Gap(a, b, came) \cup new) = Cardinality(Gap(a, b, came)) + ((n - b) - 1)
  BY ONLY <1>3, <1>4, <1>5, <1>6
<1> QED BY <1>1, <1>7

\* A late packet fills at most one place of the gap.
LEMMA GapFills ==
  ASSUME NEW a \in Nat, NEW b \in Nat, NEW came \in SUBSET Nat, NEW n \in Nat
  PROVE  /\ Cardinality(Gap(a, b, came \cup {n})) <= Cardinality(Gap(a, b, came))
         /\ Cardinality(Gap(a, b, came)) <= Cardinality(Gap(a, b, came \cup {n})) + 1
<1>1. Gap(a, b, came \cup {n}) = Gap(a, b, came) \ {n}
  BY DEF Gap
<1>2. IsFiniteSet(Gap(a, b, came)) /\ Cardinality(Gap(a, b, came)) \in Nat
  BY GapFinite
<1>3. Cardinality(Gap(a, b, came) \ {n})
        = IF n \in Gap(a, b, came) THEN Cardinality(Gap(a, b, came)) - 1
          ELSE Cardinality(Gap(a, b, came))
  BY <1>2, FS_RemoveElement
<1> DEFINE c == Cardinality(Gap(a, b, came))
           d == Cardinality(Gap(a, b, came) \ {n})
<1>4. c \in Nat /\ (d = c - 1 \/ d = c)
  BY <1>2, <1>3
<1> HIDE DEF c, d
<1>5. d <= c /\ c <= d + 1
  BY ONLY <1>4
<1> QED BY <1>1, <1>5 DEF c, d

\* The step the tracker takes keeps its invariant, whatever sequence it is given.
LEMMA TrackerStep ==
  ASSUME NEW s \in Stats, NEW t \in TrackedSet, NEW n \in Nat, Accounted(s, t)
  PROVE  Track(s, n) \in Stats /\ Accounted(Track(s, n), WithSequence(s, t, n))
<1> DEFINE u == Track(s, n)
           v == WithSequence(s, t, n)
           c == Cardinality(Gap(t.first, s.last, t.all))
<1>1. /\ s.initialized \in BOOLEAN /\ s.last \in Nat /\ s.lost \in Nat /\ s.outOfOrder \in Nat
      /\ t.first \in Nat /\ t.all \in SUBSET Nat
  BY DEF Stats, TrackedSet
<1>2. v.all = t.all \cup {n} /\ n \in v.all
  BY DEF WithSequence
<1>3. CASE ~s.initialized
  <2>1. u = [s EXCEPT !.initialized = TRUE, !.last = n] /\ v.first = n
    BY <1>3, Zenon DEF Track, WithSequence
  <2>2. t.all = {} /\ s.lost = 0
    BY <1>3 DEF Accounted
  <2>3. u \in Stats
    BY <2>1 DEF Stats
  <2>4. u.initialized /\ u.last = n /\ u.lost = s.lost /\ u.outOfOrder = s.outOfOrder
    BY <2>1 DEF Stats
  <2>5. Gap(v.first, u.last, v.all) = {}
    BY <1>2, <2>1, <2>4 DEF Gap
  <2>6. \A m \in v.all : m <= n
    BY <1>2, <2>2
  <2> HIDE DEF u, v
  <2>7. Bounded(u, v) /\ v.first \in v.all
    <3>1. Cardinality(Gap(v.first, u.last, v.all)) = 0
      BY <2>5, FS_EmptySet
    <3>2. u.lost = 0 /\ u.outOfOrder \in Nat
      BY <1>1, <2>2, <2>4
    <3>3. 0 >= 0 /\ 0 <= 0 + u.outOfOrder
      BY ONLY <3>2
    <3>4. u.last \in v.all /\ v.first \in v.all /\ \A m \in v.all : m <= u.last
      BY <1>2, <2>1, <2>4, <2>6
    <3> QED BY ONLY <3>1, <3>2, <3>3, <3>4, Zenon DEF Bounded
  <2> QED BY <2>3, <2>4, <2>7, Zenon DEF Accounted, u, v
<1>4. CASE s.initialized
  <2>1. /\ v.first = t.first /\ v.first \in v.all /\ t.first <= s.last
        /\ s.lost >= c /\ s.lost <= c + s.outOfOrder /\ s.last \in t.all
        /\ \A m \in t.all : m <= s.last
    BY <1>1, <1>2, <1>4 DEF Accounted, Bounded, WithSequence
  <2>2. c \in Nat
    BY <1>1, GapFinite
  <2> DEFINE d == Cardinality(Gap(v.first, u.last, v.all))
  <2>3. CASE n > s.last
    <3>1. u = [s EXCEPT !.lost = @ + (n - s.last - 1), !.last = n]
      BY <1>4, <2>3 DEF Track
    <3>2. u.last = n /\ u.lost = s.lost + ((n - s.last) - 1) /\ u.outOfOrder = s.outOfOrder
      BY <3>1 DEF Stats
    <3>3. u \in Stats
      <4> DEFINE x == s.lost + (n - s.last - 1)
      <4>1. x \in Nat
        BY <1>1, <2>3
      <4>2. u = [s EXCEPT !.lost = x, !.last = n]
        BY <3>1
      <4> HIDE DEF x, u
      <4> QED BY <4>1, <4>2 DEF Stats
    <3>4. u.initialized
      BY <1>4, <3>1 DEF Stats
    <3>5. d = c + ((n - s.last) - 1)
      BY <1>1, <1>2, <2>1, <2>3, <3>2, GapWidens
    <3>6. \A m \in v.all : m <= n
      BY <1>1, <1>2, <2>1, <2>3
    <3> HIDE DEF c, d, u, v
    <3>7. u.lost >= d /\ u.lost <= d + u.outOfOrder
      BY <1>1, <2>1, <2>2, <2>3, <3>2, <3>5
    <3>8. Bounded(u, v)
      BY <1>2, <3>2, <3>6, <3>7 DEF Bounded, d
    <3> QED BY <2>1, <3>3, <3>4, <3>8, Zenon DEF Accounted, u, v
  <2>4. CASE n <= s.last
    <3>1. u = IF n < s.last THEN [s EXCEPT !.outOfOrder = @ + 1] ELSE s
      BY <1>1, <1>4, <2>4 DEF Track
    <3>2. /\ u.last = s.last /\ u.lost = s.lost
          /\ u.outOfOrder = IF n < s.last THEN s.outOfOrder + 1 ELSE s.outOfOrder
      BY <3>1 DEF Stats
    <3>3. u \in Stats
      BY <1>1, <3>1 DEF Stats
    <3>4. u.initialized
      BY <1>4, <3>1 DEF Stats
    <3>5. d <= c /\ c <= d + 1 /\ (n = s.last => d = c)
      <4>1. d = Cardinality(Gap(t.first, s.last, t.all \cup {n}))
        BY <1>2, <2>1, <3>2
      <4>2. n = s.last => t.all \cup {n} = t.all
        BY <2>1
      <4>3. /\ Cardinality(Gap(t.first, s.last, t.all \cup {n})) <= c
            /\ c <= Cardinality(Gap(t.first, s.last, t.all \cup {n})) + 1
        BY <1>1, GapFills
      <4> QED BY ONLY <4>1, <4>2, <4>3
    <3>6. \A m \in v.all : m <= s.last
      BY <1>2, <2>1, <2>4
    <3>9. d \in Nat
      BY <1>1, <2>1, <3>2, GapFinite
    <3> HIDE DEF c, d, u, v
    <3>7. u.lost >= d /\ u.lost <= d + u.outOfOrder
      BY <1>1, <2>1, <2>2, <2>4, <3>2, <3>5, <3>9
    <3>8. Bounded(u, v)
      BY <1>2, <2>1, <3>2, <3>6, <3>7 DEF Bounded, d
    <3> QED BY <2>1, <3>3, <3>4, <3>8, Zenon DEF Accounted, u, v
  <2> QED BY <1>1, <2>3, <2>4
<1> QED BY <1>1, <1>3, <1>4

------------------------------------------------------------------------------
(* What is decoded *)

\* What a decoder answers for a packet it may be given: a frame with a number, or no frame.
LEMMA Outputs ==
  ASSUME NEW format \in Codecs \cup {"stray"}, NEW codec \in Codecs, NEW frame \in Nat,
         NEW packet, format = "F1" => packet \in Wire["F1"],
         NEW output \in DecodePacket(format, codec, packet, frame)
  PROVE  output.out = "Frame" => output.frame.sequence \in Nat
<1> SUFFICES ASSUME output.out = "Frame" PROVE output.frame.sequence \in Nat
  OBVIOUS
<1>0. \A k : Error(k).out = k
  BY DEF Error
<1>1. CASE format = "stray"
  BY <1>1, <1>0 DEF DecodePacket
<1>2. CASE format # "stray" /\ codec = "F1" /\ format = "F1"
  <2> DEFINE p == [packet EXCEPT !.frame = frame]
  <2>1. output = F1Decode(p, Player, FALSE)
    BY <1>2 DEF DecodePacket
  <2>2. "frame" \in DOMAIN packet
    BY <1>2, WireAssumption
  <2>3. p.frame = frame
    BY <2>2
  <2> HIDE DEF p
  <2>4. output \in {Error("InsufficientData"), Error("InvalidPacketType"), Skipped, NoOutput}
        \/ \E samples, events : output = Decoded(Frame(p.session, p.frame, p.time, samples, events, NoData))
    BY <2>1, Zenon DEF F1Decode
  <2> QED BY <2>3, <2>4 DEF Error, Skipped, NoOutput, Decoded, Frame
<1>3. CASE format # "stray" /\ codec = "F1" /\ format # "F1"
  <2>1. output \in {Decoded(Frame(0, n, 0, << >>, << >>, NoData)) : n \in 0..MaxFrame}
                     \cup {Skipped, Error("InvalidPacketType")}
    BY <1>3 DEF DecodePacket
  <2> QED BY <2>1, MaxFrameAssumption DEF Error, Skipped, Decoded, Frame
<1>4. CASE format # "stray" /\ codec = "EcuBridge"
  <2>1. output \in EcuDecode(packet, TRUE) \/ output = Error("InvalidHeader")
    BY <1>4 DEF DecodePacket
  <2>2. output \in {Error("InsufficientData"), Error("InvalidHeader"), Error("ChecksumMismatch"), NoOutput}
        \/ \E samples, events : output = Decoded(Frame(packet.session, 0, packet.time, samples, events, NoData))
    BY <2>1, Zenon DEF EcuDecode
  <2> QED BY <2>2 DEF Error, NoOutput, Decoded, Frame
<1>5. CASE format # "stray" /\ codec = "PitgunV1"
  <2>1. output = PitgunDecode(packet, 1) \/ output = Error("MalformedData")
    BY <1>5 DEF DecodePacket
  <2> DEFINE ts == AtMost(packet.ts, MaxTs)
             whole == Decoded(Frame(1, 0, ts \div 1000, <<Sample(0, "F64", <<packet.value>>, "Good")>>, << >>, NoData))
  <2>2. output = Error("MalformedData") \/ output = whole
    BY <2>1 DEF PitgunDecode
  <2> QED BY <2>2 DEF Error, Decoded, Frame
<1> QED BY <1>1, <1>2, <1>3, <1>4, <1>5 DEF Codecs

------------------------------------------------------------------------------
(* The loop *)

\* The inductive invariant: the types, the tracker's invariant, and that a codec is
\* settled with the first datagram, on the sender's when it was the sender's.
ReceiverInv ==
  /\ config \in Codecs \cup {AutoDetect} /\ sender \in Codecs /\ sentUpTo \in Nat
  /\ locked \in Codecs \cup {AutoDetect}
  /\ stats \in Stats /\ tracked \in TrackedSet
  /\ Accounted(stats, tracked)
  /\ first = "none" => locked = config
  /\ first # "none" => locked # AutoDetect
  /\ CodecIsKept

\* Counting one result keeps the counters and what they say of the history.
LEMMA CountKeeps ==
  ASSUME ReceiverInv, NEW output, output.out = "Frame" => output.frame.sequence \in Nat
  PROVE  LET s == CountResult([stats EXCEPT !.received = @ + 1], output)
         IN  s \in Stats /\ Tracked(output) \in TrackedSet /\ Accounted(s, Tracked(output))
<1> DEFINE s0 == [stats EXCEPT !.received = @ + 1]
<1>1. stats \in Stats /\ tracked \in TrackedSet /\ Accounted(stats, tracked)
  BY DEF ReceiverInv
<1>2. ASSUME NEW s \in Stats, s.initialized = stats.initialized, s.last = stats.last,
             s.lost = stats.lost, s.outOfOrder = stats.outOfOrder
      PROVE  Accounted(s, tracked)
  BY <1>1, <1>2, Zenon DEF Accounted, Bounded
<1>3. s0 \in Stats
  BY <1>1 DEF Stats
<1>4. /\ s0.initialized = stats.initialized /\ s0.last = stats.last
      /\ s0.lost = stats.lost /\ s0.outOfOrder = stats.outOfOrder
  BY <1>1 DEF Stats
<1> HIDE DEF s0
<1>5. CASE output.out = "Frame"
  <2> DEFINE s1 == [s0 EXCEPT !.decoded = @ + 1]
             n == output.frame.sequence
  <2>1. s1 \in Stats
    BY <1>3 DEF Stats
  <2>2. /\ s1.initialized = s0.initialized /\ s1.last = s0.last
        /\ s1.lost = s0.lost /\ s1.outOfOrder = s0.outOfOrder
    BY <1>3 DEF Stats
  <2>3. CountResult(s0, output) = Track(s1, n)
    <3>1. output.out \notin {"Skipped", "NoOutput"} /\ ~IsError(output)
      BY <1>5 DEF IsError
    <3> QED BY <1>5, <3>1, Zenon DEF CountResult
  <2>4. Tracked(output) = WithSequence(s1, tracked, n)
    BY <1>4, <1>5, <2>2, Zenon DEF Tracked, WithSequence
  <2> HIDE DEF s1
  <2>5. Accounted(s1, tracked)
    BY <1>2, <1>4, <2>1, <2>2
  <2>6. n \in Nat
    BY <1>5
  <2> HIDE DEF n
  <2>7. Track(s1, n) \in Stats /\ Accounted(Track(s1, n), WithSequence(s1, tracked, n))
    BY ONLY <1>1, <2>1, <2>5, <2>6, TrackerStep
  <2>8. WithSequence(s1, tracked, n) \in TrackedSet
    BY <1>1, <2>6 DEF TrackedSet, WithSequence
  <2> QED BY <2>3, <2>4, <2>7, <2>8, Zenon DEF s0
<1>6. CASE output.out # "Frame"
  <2>1. Tracked(output) = tracked
    BY <1>6 DEF Tracked
  <2>2. \/ CountResult(s0, output) = [s0 EXCEPT !.skipped = @ + 1]
        \/ CountResult(s0, output) = [s0 EXCEPT !.errors = @ + 1]
    BY <1>6, Zenon DEF CountResult, IsError
  <2> DEFINE s == CountResult(s0, output)
  <2>3. /\ s \in Stats /\ s.initialized = s0.initialized /\ s.last = s0.last
        /\ s.lost = s0.lost /\ s.outOfOrder = s0.outOfOrder
    BY <1>3, <2>2 DEF Stats
  <2> HIDE DEF s
  <2>4. Accounted(s, tracked)
    BY <1>2, <1>4, <2>3
  <2> QED BY <1>1, <2>1, <2>3, <2>4, Zenon DEF s0, s
<1> QED BY <1>5, <1>6

\* A datagram of the sender, or a stray one, keeps the invariant.
LEMMA ReceiveKeeps ==
  ASSUME ReceiverInv, NEW format \in {sender, "stray"}, NEW packet, NEW frame \in Nat,
         format # "stray" => packet \in Wire[sender], Receive(format, packet, frame)
  PROVE  ReceiverInv'
<1> DEFINE codec == IF locked = AutoDetect THEN DetectCodec(format, packet) ELSE locked
<1>1. /\ config \in Codecs \cup {AutoDetect} /\ sender \in Codecs /\ sentUpTo \in Nat
      /\ locked \in Codecs \cup {AutoDetect} /\ AutoDetect \notin Codecs
      /\ "stray" \notin Codecs /\ "none" \notin Codecs /\ format \in Codecs \cup {"stray"}
      /\ config' = config /\ sender' = sender /\ sentUpTo' = sentUpTo
  BY DEF ReceiverInv, Codecs, AutoDetect, Receive
<1>2. DetectCodec(format, packet) \in Codecs
  <2>1. DetectCodec(format, packet) \in {"EcuBridge", "F1", "PitgunV1"}
    BY Zenon DEF DetectCodec
  <2> QED BY <2>1 DEF Codecs
<1>3. format = sender => DetectCodec(format, packet) = sender
  <2>1. CASE sender = "EcuBridge"
    BY <2>1 DEF DetectCodec
  <2>2. CASE sender = "F1" /\ format = sender
    <3>1. F1CanDecode(packet)
      BY <1>1, <2>2, WireAssumption DEF Codecs
    <3> QED BY <2>2, <3>1 DEF DetectCodec
  <2>3. CASE sender = "PitgunV1" /\ format = sender
    BY <2>3 DEF DetectCodec
  <2> QED BY <1>1, <2>1, <2>2, <2>3 DEF Codecs
<1>4. codec \in Codecs /\ locked' = codec
  BY <1>1, <1>2 DEF Receive
<1>5. PICK output \in DecodePacket(format, codec, packet, frame) :
        /\ stats' = CountResult([stats EXCEPT !.received = @ + 1], output)
        /\ tracked' = Tracked(output)
  BY Zenon DEF Receive
<1>6. first' = IF first = "none" THEN format ELSE first
  BY DEF Receive
<1>7. output.out = "Frame" => output.frame.sequence \in Nat
  <2>1. format = "F1" => packet \in Wire["F1"]
    BY <1>1
  <2> HIDE DEF codec
  <2> QED BY <1>1, <1>4, <1>5, <2>1, Outputs
<1>8. stats' \in Stats /\ tracked' \in TrackedSet /\ Accounted(stats', tracked')
  BY <1>5, <1>7, CountKeeps, Zenon
<1>9. locked' \in Codecs /\ locked' # AutoDetect /\ first' # "none"
  BY <1>1, <1>4, <1>6
<1>10. CodecIsKept'
  <2> SUFFICES ASSUME config = AutoDetect, first' = sender PROVE locked' = sender
    BY <1>1 DEF CodecIsKept
  <2>1. CASE first = "none"
    <3>1. locked = AutoDetect /\ format = sender
      BY <1>6, <2>1 DEF ReceiverInv
    <3> QED BY <1>3, <1>4, <3>1
  <2>2. CASE first # "none"
    <3>1. first = sender /\ locked # AutoDetect
      BY <1>6, <2>2 DEF ReceiverInv
    <3>2. locked = sender
      BY <3>1 DEF ReceiverInv, CodecIsKept
    <3> QED BY <1>4, <3>1, <3>2
  <2> QED BY <2>1, <2>2
<1> QED BY <1>1, <1>8, <1>9, <1>10, Zenon DEF ReceiverInv

\* The loss that the UDP source reports bounds what the network lost, reordering and
\* repetition included, and a source that detects its codec keeps that of the sender
\* it heard first.
THEOREM ReceiverHonest == Spec => []ReceiverIsHonest
<1>1. Init => ReceiverInv
  <2> SUFFICES ASSUME Init PROVE ReceiverInv
    OBVIOUS
  <2>1. stats \in Stats /\ stats.initialized = FALSE /\ stats.lost = 0
    BY DEF Init, NewStats, Stats
  <2>2. tracked \in TrackedSet /\ tracked.all = {}
    BY DEF Init, TrackedSet
  <2>3. Accounted(stats, tracked)
    BY <2>1, <2>2 DEF Accounted
  <2>4. /\ config \in Codecs \cup {AutoDetect} /\ sender \in Codecs /\ sentUpTo \in Nat
        /\ locked = config /\ first = "none" /\ first # sender
    BY DEF Init, Codecs
  <2> QED BY <2>1, <2>2, <2>3, <2>4, Zenon DEF ReceiverInv, CodecIsKept
<1>2. ReceiverInv /\ [Next]_vars => ReceiverInv'
  <2> SUFFICES ASSUME ReceiverInv, [Next]_vars PROVE ReceiverInv'
    OBVIOUS
  <2>1. CASE Send
    <3>1. sentUpTo' \in Nat /\ UNCHANGED <<config, sender, locked, stats, first, tracked>>
      BY <2>1 DEF Send, ReceiverInv
    <3> QED BY <3>1, Zenon DEF ReceiverInv, CodecIsKept
  <2>2. CASE ReceivePacket
    <3>1. PICK frame \in 1..sentUpTo, packet \in Wire[sender] : Receive(sender, packet, frame)
      BY <2>2 DEF ReceivePacket
    <3>2. frame \in Nat
      BY DEF ReceiverInv
    <3> QED BY <3>1, <3>2, ReceiveKeeps
  <2>3. CASE ReceiveStray
    BY <2>3, ReceiveKeeps DEF ReceiveStray
  <2>4. CASE ReceiveError
    <3>1. UNCHANGED <<config, sender, sentUpTo, locked, first, tracked>>
      BY <2>4 DEF ReceiveError
    <3>2. /\ stats' \in Stats /\ stats'.initialized = stats.initialized /\ stats'.last = stats.last
          /\ stats'.lost = stats.lost /\ stats'.outOfOrder = stats.outOfOrder
      <4> DEFINE x == stats.errors + 1
                 y == stats.recvErrors + 1
      <4>1. stats \in Stats
        BY DEF ReceiverInv
      <4>2. x \in Nat /\ y \in Nat
        BY <4>1 DEF Stats
      <4>3. stats' = [stats EXCEPT !.errors = x, !.recvErrors = y]
        BY <2>4 DEF ReceiveError
      <4> HIDE DEF x, y
      <4> QED BY ONLY <4>1, <4>2, <4>3 DEF Stats
    <3>3. Accounted(stats', tracked)
      BY <3>2, Zenon DEF ReceiverInv, Accounted, Bounded
    <3> QED BY <3>1, <3>2, <3>3, Zenon DEF ReceiverInv, CodecIsKept
  <2>5. CASE UNCHANGED vars
    BY <2>5, Zenon DEF vars, ReceiverInv, CodecIsKept
  <2> QED BY <2>1, <2>2, <2>3, <2>4, <2>5 DEF Next
<1>3. ReceiverInv => ReceiverIsHonest
  <2> SUFFICES ASSUME ReceiverInv PROVE ReceiverIsHonest
    OBVIOUS
  <2>1. Missing = Gap(tracked.first, stats.last, tracked.all)
    BY DEF Missing, Gap
  <2>2. LossBounds
    BY <2>1, Zenon DEF LossBounds, ReceiverInv, Accounted, Bounded
  <2> QED BY <2>2 DEF ReceiverIsHonest, ReceiverInv
<1> QED BY <1>1, <1>2, <1>3, PTL DEF Spec
==============================================================================
