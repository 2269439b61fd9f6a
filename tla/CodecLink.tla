----------------------------- MODULE CodecLink -----------------------------
(****************************************************************************)
(* One frame on its way through a codec: encoded, perhaps damaged on the    *)
(* wire or written by a newer encoder, decoded.  The F1 decoder, which has  *)
(* no encoder, is given the packets of the game.                            *)
(****************************************************************************)
EXTENDS TelemetryCodecs

CONSTANTS Frames,    \* frames to encode
          F1Packets  \* packets of the game

VARIABLES
  link,   \* the codec and its options
  stage,  \* "frame", "wire" or "decoded"
  sent,   \* the frame given to the encoder
  packet, \* the datagram or document on the wire
  damage, \* what happened to it: [kind, at]
  output  \* what decode answered

linkVars == <<link, stage, sent, packet, damage, output>>

Undamaged == [kind |-> "none", at |-> 0]
Links ==
  [codec : {"ecubridge"}, verify : BOOLEAN, standard : BOOLEAN, car : {Player}, telemetryOnly : {FALSE}]
    \cup [codec : {"json"}, verify : {TRUE}, standard : {TRUE}, car : {Player}, telemetryOnly : {FALSE}]
    \cup [codec : {"f1"}, verify : {TRUE}, standard : {TRUE}, car : {Player, 0, 2}, telemetryOnly : BOOLEAN]

LinkInit ==
  /\ link \in Links
  /\ stage = "frame"
  /\ sent \in IF link.codec = "f1" THEN {NoFrame} ELSE Frames
  /\ packet = << >>
  /\ damage = Undamaged
  /\ output = NoOutput

Encode ==
  /\ stage = "frame"
  /\ packet' \in CASE link.codec = "ecubridge" -> {<<EcuEncode(sent, link.standard)>>}
                   [] link.codec = "json" -> {<<JsonEncode(sent)>>}
                   [] OTHER -> {<<p>> : p \in F1Packets}
  /\ stage' = "wire"
  /\ UNCHANGED <<link, sent, damage, output>>

Intact == stage = "wire" /\ damage = Undamaged

\* The datagram ends early: a receive buffer that is too small.
Cut(n) ==
  /\ Intact /\ link.codec = "ecubridge"
  /\ n < packet[1].bytes
  /\ packet' = <<[packet[1] EXCEPT !.bytes = n, !.crc = FALSE]>>
  /\ damage' = [kind |-> "cut", at |-> n]
  /\ UNCHANGED <<link, stage, sent, output>>

\* Bytes of field k change on the way.
Flip(k) ==
  /\ Intact /\ link.codec = "ecubridge"
  /\ k \in DOMAIN packet[1].body
  /\ packet' = <<[packet[1] EXCEPT !.body[k].id = Anything, !.crc = FALSE]>>
  /\ damage' = [kind |-> "flip", at |-> k]
  /\ UNCHANGED <<link, stage, sent, output>>

\* An encoder of a later version has a data type for field k that this one lacks;
\* its packets are well formed and nobody looks at the version.
Newer(k) ==
  /\ Intact /\ link.codec = "ecubridge"
  /\ k \in 1..packet[1].samples
  /\ packet' = <<[packet[1] EXCEPT !.body[k].code = 14]>>
  /\ damage' = [kind |-> "newer", at |-> k]
  /\ UNCHANGED <<link, stage, sent, output>>

\* A document that ends early.
CutDocument ==
  /\ Intact /\ link.codec = "json"
  /\ damage' = [kind |-> "cut", at |-> 0]
  /\ UNCHANGED <<link, stage, sent, packet, output>>

Decode ==
  /\ stage = "wire"
  /\ output' \in CASE link.codec = "ecubridge" -> EcuDecode(packet[1], link.verify)
                   [] link.codec = "json" -> {JsonDecode(packet[1], damage.kind # "cut")}
                   [] OTHER -> {F1Decode(packet[1], link.car, link.telemetryOnly)}
  /\ stage' = "decoded"
  /\ UNCHANGED <<link, sent, packet, damage>>

\* The document is cut anywhere; a datagram at the places MCs choose.
LinkNext(cuts) ==
  \/ Encode
  \/ \E n \in cuts : Cut(n)
  \/ \E k \in 1..(2 * MaxCount) : Flip(k)
  \/ \E k \in 1..MaxCount : Newer(k)
  \/ CutDocument
  \/ Decode

------------------------------------------------------------------------------
(* Properties *)

\* The decoded sample is the one sent: a scalar exactly, bytes and text up to the
\* zeros that fill them to 4, 8 or 16 and without what is beyond the sixteenth.
SameSample(s, got) ==
  /\ got.id = s.id
  /\ got.quality = IF s.quality = "Unknown" THEN "Good" ELSE s.quality
  /\ IF s.type \in {"Bytes", "String"}
     THEN /\ got.type = "Bytes" /\ Len(got.value) \in {4, 8, 16}
          /\ \A i \in DOMAIN got.value :
               got.value[i] = IF i \in DOMAIN s.value THEN s.value[i] ELSE 0
          /\ Len(got.value) >= AtMost(Len(s.value), 16)
     ELSE got.type = s.type /\ got.value = s.value

\* ECUBridge carries a frame: the samples and events arrive, in order and with
\* their values, up to what the format cannot hold.  With the checksum verified
\* nothing damaged is accepted; without it a datagram that ends early gives the
\* samples that arrived whole and no other; a packet of a later version gives the
\* samples before the first one it cannot read.
EcuBridgeCarries ==
  (stage = "decoded" /\ link.codec = "ecubridge") =>
    LET frame == output.frame
        due == AtMost(Len(sent.samples), MaxCount)
        prefix == /\ Len(frame.samples) <= due
                  /\ \A k \in DOMAIN frame.samples : SameSample(sent.samples[k], frame.samples[k])
                  /\ frame.session = sent.session /\ frame.time = sent.time
        complete == /\ Len(frame.samples) = due
                    /\ Len(frame.events) = AtMost(Len(sent.events), MaxCount)
                    /\ \A k \in DOMAIN frame.events :
                         /\ frame.events[k].id = sent.events[k].id
                         /\ frame.events[k].severity = sent.events[k].severity
    IN CASE damage.kind = "none" -> output.out = "Frame" /\ prefix /\ complete
         [] damage.kind = "newer" -> /\ output.out = "Frame" /\ prefix
                                     /\ Len(frame.samples) = damage.at - 1
         [] link.verify -> IsError(output)
         [] damage.kind = "cut" -> /\ IsError(output) <=> damage.at < EcuHeaderSize
                                   /\ ~IsError(output) => prefix
         [] OTHER -> output.out = "Frame"

\* The codec that calls itself lossless: a document that decodes is the frame that
\* was encoded, sequence, names and context included, and one that does not decode
\* was cut or held a float that is not finite.
JsonIsLossless ==
  (stage = "decoded" /\ link.codec = "json") =>
    IF output.out = "Frame" THEN output.frame = sent
    ELSE \/ damage.kind = "cut"
         \/ \E k \in DOMAIN sent.samples : sent.samples[k].value = <<NaN>>

\* Whatever the length of a game packet and the car asked for, each sample is read
\* from the record of that car, inside the datagram, and no byte serves two
\* samples; a frame that is produced carries something.
F1ReadsItsCar ==
  (stage = "decoded" /\ link.codec = "f1" /\ output.out = "Frame") =>
    LET p == packet[1]
        car == IF link.car = Player THEN p.player ELSE link.car
        first == F1HeaderSize + car * F1Record(p.id).size
        samples == output.frame.samples
        Bytes(k) == samples[k].value[1] .. (samples[k].value[1] + samples[k].value[2] - 1)
    IN /\ samples # << >> \/ output.frame.events # << >>
       /\ \A k \in DOMAIN samples : \A byte \in Bytes(k) :
            byte < p.bytes /\ byte >= first /\ byte < first + F1Record(p.id).size
       /\ \A j, k \in DOMAIN samples : j # k => Bytes(j) \cap Bytes(k) = {} /\ samples[j].id # samples[k].id
==============================================================================
