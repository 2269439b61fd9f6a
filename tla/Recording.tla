----------------------------- MODULE Recording -----------------------------
(****************************************************************************)
(* A recording from end to end: pitgun-replay sends the rows of CSV files   *)
(* as PitgunV1 datagrams; the network loses, delays and damages some;       *)
(* `pitgun subscribe` collects them in batches, runs the processors, prints *)
(* and writes one CSV file per channel.  The subscription can also read a   *)
(* WebSocket.  It ends only when it is killed, and may be started again in  *)
(* the same directory.                                                      *)
(****************************************************************************)
EXTENDS EventProcessors

CONSTANTS Channels,
          Scenarios,      \* the replays and commands of a behaviour, with its bounds
          Messages,       \* what a WebSocket peer may send
          BatchMaxLen,    \* batch_max_len, 1024
          BufferRows,     \* rows a csv::Writer holds before it writes (8 KiB)
          MaxU64, MaxU128,
          MaxMessages     \* bound on the WebSocket messages of a run

Row(ts, value) == [ts |-> ts, value |-> value]
BadRow == [ts |-> -1, value |-> 0]   \* a line that does not parse
HeaderRow == [ts |-> -2, value |-> 0]
Stray == [channel |-> "", ts |-> -1, value |-> 0]  \* a datagram that does not decode

\* files: the --input list of pitgun-replay, a sequence of [channel, rows];
\* commands: what `pitgun subscribe` is given; runs, faults: the bounds on starts
\* of the subscription and on faults of the network.
VARIABLES
  scenario,
  emitter,  \* pitgun-replay
  wire,     \* datagrams under way, oldest first
  faults,   \* faults so far
  sub,      \* the subscription
  disk,     \* per channel, the CSV file
  history   \* per run, the batches as they came from the source and as they were written

files == scenario.files
recordingVars == <<scenario, emitter, wire, faults, sub, disk, history>>

NoFile == [run |-> 0, from |-> 0, rows |-> << >>]
NoSub == [state |-> "off", transport |-> "udp", print |-> FALSE, csv |-> FALSE, chain |-> << >>,
          pending |-> << >>, writers |-> [c \in Channels |-> << >>], messages |-> 0, asked |-> << >>]

RecordingInit ==
  /\ scenario \in Scenarios
  /\ emitter = [state |-> "new", cursors |-> << >>, sent |-> << >>]
  /\ wire = << >> /\ faults = 0
  /\ sub = NoSub
  /\ disk = [c \in Channels |-> NoFile]
  /\ history = << >>

------------------------------------------------------------------------------
(* pitgun-replay *)

\* A cursor holds the row it read ahead and the rest of its file.
Opened(file) == [channel |-> file.channel, rows |-> file.rows]
HasNext(cursor) == cursor.rows # << >>
HasBadHead(cursor) == HasNext(cursor) /\ Head(cursor.rows) = BadRow

\* open_cursor for every input, then the reference time: an unreadable first row, or
\* no row at all, ends the program before anything is sent.
OpenInputs ==
  /\ emitter.state = "new"
  /\ LET cursors == [i \in DOMAIN files |-> Opened(files[i])] IN
     emitter' = [emitter EXCEPT
       !.cursors = cursors,
       !.state = IF \/ \E i \in DOMAIN cursors : HasBadHead(cursors[i])
                    \/ \A i \in DOMAIN cursors : ~HasNext(cursors[i])
                 THEN "failed" ELSE "emitting"]
  /\ UNCHANGED <<scenario, wire, faults, sub, disk, history>>

Candidates == {i \in DOMAIN emitter.cursors :
                 HasNext(emitter.cursors[i]) /\ Head(emitter.cursors[i].rows).ts < MaxU128}

\* The smallest timestamp, the first cursor among equals.
PickMinIndex ==
  CHOOSE i \in Candidates :
    \A j \in Candidates \ {i} :
      LET a == Head(emitter.cursors[i].rows).ts
          b == Head(emitter.cursors[j].rows).ts
      IN a < b \/ (a = b /\ i < j)

\* One turn of the merge: the datagram goes out, then the cursor advances, and a
\* row that does not parse ends the program.  Pacing only delays the step.
Emit ==
  /\ emitter.state = "emitting" /\ Candidates # {}
  /\ LET i == PickMinIndex
         cursor == emitter.cursors[i]
         row == Head(cursor.rows)
         advanced == [cursor EXCEPT !.rows = Tail(@)]
     IN /\ wire' = Append(wire, Happened(cursor.channel, row.ts, row.value))
        /\ emitter' = [emitter EXCEPT
             !.cursors[i] = advanced,
             !.sent = Append(@, [input |-> i, row |-> row]),
             !.state = IF HasBadHead(advanced) THEN "failed" ELSE @]
  /\ UNCHANGED <<scenario, faults, sub, disk, history>>

\* send() reports an earlier refusal: the row is not sent and the program ends.
SendFails ==
  /\ emitter.state = "emitting" /\ Candidates # {} /\ faults < scenario.faults
  /\ emitter' = [emitter EXCEPT !.state = "failed"]
  /\ faults' = faults + 1
  /\ UNCHANGED <<scenario, wire, sub, disk, history>>

EmitterDone ==
  /\ emitter.state = "emitting" /\ Candidates = {}
  /\ emitter' = [emitter EXCEPT !.state = "done"]
  /\ UNCHANGED <<scenario, wire, faults, sub, disk, history>>

------------------------------------------------------------------------------
(* The network *)

Lose(i) == faults < scenario.faults /\ wire' = RemoveAt(wire, i) /\ faults' = faults + 1
Damage(i) == faults < scenario.faults /\ wire' = [wire EXCEPT ![i] = Stray] /\ faults' = faults + 1
Overtake(i) ==
  /\ faults < scenario.faults /\ i > 1
  /\ wire' = [wire EXCEPT ![i] = wire[i - 1], ![i - 1] = wire[i]]
  /\ faults' = faults + 1

Network ==
  /\ \E i \in DOMAIN wire : Lose(i) \/ Damage(i) \/ Overtake(i)
  /\ UNCHANGED <<scenario, emitter, sub, disk, history>>

\* Nobody listens: the datagram is gone.
Unheard ==
  /\ wire # << >> /\ ~(sub.state = "running" /\ sub.transport = "udp")
  /\ wire' = Tail(wire)
  /\ UNCHANGED <<scenario, emitter, faults, sub, disk, history>>

------------------------------------------------------------------------------
(* pitgun subscribe *)

\* The command line or the manifest, or exit(1).
Start(command) ==
  LET manifest == command.config
      valid == IF manifest # << >> THEN ManifestValid(manifest[1]) ELSE ArgsValid(command)
      built == IF manifest # << >> THEN BuildPipeline(manifest[1]) ELSE FromArgs(command)
  IN /\ sub.state # "running" /\ Len(history) < scenario.runs
     /\ sub' = IF valid
               THEN [NoSub EXCEPT !.state = "running", !.transport = built.transport, !.print = built.print,
                                  !.csv = built.csv, !.chain = built.chain, !.asked = built.chain]
               ELSE [NoSub EXCEPT !.state = "exited"]
     /\ history' = Append(history, [sent |-> Len(emitter.sent), wire |-> Len(wire), faults |-> faults,
                                    batches |-> << >>])
     /\ UNCHANGED <<scenario, emitter, wire, faults, disk>>

\* A writer is <<rows it buffers>>; x is [writers, disk, count], count the rows of
\* each channel written or refused so far in this run.
\* MUTANT of WriteRow: the file is created anew for every row.
WriteRowReopens(x, e, blocked) ==
  LET c == e.channel IN
  IF c \in blocked THEN x
  ELSE [x EXCEPT !.writers[c] = <<<<HeaderRow, Row(e.ts, e.value)>>>>,
                 !.disk[c] = [run |-> Len(history), from |-> x.count[c], rows |-> << >>],
                 !.count[c] = @ + 1]

\* CsvSink::write for one event: the first event of a channel creates its file,
\* truncating what an earlier run left; a file that cannot be created is tried
\* again with the channel's next event.
WriteRow(x, e, blocked) ==
  LET c == e.channel
      row == Row(e.ts, e.value)
      next == [x EXCEPT !.count[c] = @ + 1]
  IN IF x.writers[c] = << >>
     THEN IF c \in blocked THEN next
          ELSE [next EXCEPT !.writers[c] = <<<<HeaderRow, row>>>>,
                            !.disk[c] = [run |-> Len(history), from |-> x.count[c], rows |-> << >>]]
     ELSE IF Len(x.writers[c][1]) < BufferRows THEN [next EXCEPT !.writers[c][1] = Append(@, row)]
     ELSE [next EXCEPT !.writers[c] = <<<<row>>>>, !.disk[c].rows = @ \o x.writers[c][1]]

\* The rows of channel c in the batches of run r.
Written(r, c) ==
  LET events == FlattenSeq([i \in DOMAIN history[r].batches |-> history[r].batches[i].out.events])
      mine == SelectSeq(events, LAMBDA e : e.channel = c)
  IN [i \in DOMAIN mine |-> Row(mine[i].ts, mine[i].value)]

\* Pipeline::run_once with a batch: the chain, then the sinks.  The console prints
\* what the history records, its aggregates and, with --json, its events.
RunOnce(s, batch, blocked) ==
  LET ran == RunChain(s.chain, batch)
      write(x, e) == WriteRow(x, e, blocked)
      x == [writers |-> s.writers, disk |-> disk,
            count |-> [c \in Channels |-> Len(Written(Len(history), c))]]
      csv == IF s.csv THEN FoldLeft(write, x, ran.batch.events) ELSE x
  IN /\ sub' = [s EXCEPT !.chain = ran.chain, !.writers = csv.writers]
     /\ disk' = csv.disk
     /\ history' = [history EXCEPT ![Len(history)].batches =
                      Append(@, [in |-> batch, out |-> ran.batch])]

\* decode_pitgun_v1 cuts the timestamp to 64 bits.
Decode(d) == [d EXCEPT !.ts = IF @ > MaxU64 THEN MaxU64 ELSE @]

\* UdpSource::next_batch: events wait until a datagram finds that there are enough
\* of them or that the last flush is long ago (timeDue).
UdpReceive(timeDue, blocked) ==
  LET pending == Append(sub.pending, Decode(Head(wire))) IN
  /\ sub.state = "running" /\ sub.transport = "udp" /\ wire # << >>
  /\ wire' = Tail(wire)
  /\ IF Head(wire) = Stray THEN UNCHANGED <<sub, disk, history>>
     ELSE IF Len(pending) >= BatchMaxLen \/ timeDue
     THEN RunOnce([sub EXCEPT !.pending = << >>], EventBatch(pending, FALSE), blocked)
     ELSE sub' = [sub EXCEPT !.pending = pending] /\ UNCHANGED <<disk, history>>
  /\ UNCHANGED <<scenario, emitter, faults>>

\* deserialize_session_envelope; aggregates in the envelope are ignored.
EnvelopeValid(m) == m.json /\ m.schema_version = 1 /\ m.session

\* WsSource::next_batch.  After a close or an error the command goes on asking a
\* socket that answers nothing but errors.
WsReceive(m, blocked) ==
  /\ sub.state = "running" /\ sub.transport = "ws" /\ sub.messages < MaxMessages
  /\ IF m.kind = "text" /\ EnvelopeValid(m)
     THEN RunOnce([sub EXCEPT !.messages = @ + 1], EventBatch(m.events, m.eos), blocked)
     ELSE /\ sub' = [sub EXCEPT !.messages = IF m.kind \in {"close", "error"} THEN MaxMessages ELSE @ + 1]
          /\ UNCHANGED <<disk, history>>
  /\ UNCHANGED <<scenario, emitter, wire, faults>>

\* The process is killed, which is how a subscription ends: what waits in the source
\* and in the writers is gone; a file that was written to may end within a row.
Kill ==
  /\ sub.state = "running"
  /\ \E torn \in SUBSET {c \in Channels : sub.writers[c] # << >> /\ disk[c].rows # << >>} :
       disk' = [c \in Channels |-> IF c \in torn THEN [disk[c] EXCEPT !.rows = Append(@, BadRow)] ELSE disk[c]]
  /\ sub' = [sub EXCEPT !.state = "killed", !.pending = << >>, !.writers = NoSub.writers]
  /\ UNCHANGED <<scenario, emitter, wire, faults, history>>

RecordingNext ==
  \/ OpenInputs \/ Emit \/ SendFails \/ EmitterDone
  \/ Network \/ Unheard
  \/ \E command \in scenario.commands : Start(command)
  \/ \E timeDue \in BOOLEAN, blocked \in SUBSET {"speed"} : UdpReceive(timeDue, blocked)
  \/ \E m \in Messages, blocked \in SUBSET {"speed"} : WsReceive(m, blocked)
  \/ Kill

RecordingSpec == RecordingInit /\ [][RecordingNext]_recordingVars

------------------------------------------------------------------------------
(* Properties *)

TsOf(row) == row.ts
InTimeOrder(rows) == \A i, j \in DOMAIN rows : i < j => TsOf(rows[i]) <= TsOf(rows[j])
SentOf(i) ==
  LET mine == SelectSeq(emitter.sent, LAMBDA s : s.input = i) IN [k \in DOMAIN mine |-> mine[k].row]

\* Of every file the rows sent are its first rows, in order; files in time order
\* are merged in time order, the earlier --input first among equals; and a replay
\* that ends well has sent everything before the first row at the largest time
\* (pitgun-replay main.rs:107-134, 190-202).
ReplayMergesInTime ==
  /\ \A i \in DOMAIN files : IsPrefix(SentOf(i), files[i].rows)
  /\ (\A i \in DOMAIN files : InTimeOrder(files[i].rows)) =>
       \A k, l \in DOMAIN emitter.sent :
         LET a == emitter.sent[k]
             b == emitter.sent[l]
         IN k < l => a.row.ts < b.row.ts \/ (a.row.ts = b.row.ts /\ a.input <= b.input)
  /\ emitter.state = "done" =>
       \A i \in DOMAIN files :
         LET n == Len(SentOf(i)) IN n = Len(files[i].rows) \/ files[i].rows[n + 1].ts = MaxU128

Run == Len(history)
Rows(events, c) ==
  LET mine == SelectSeq(events, LAMBDA e : e.channel = c) IN
  [i \in DOMAIN mine |-> Row(mine[i].ts, mine[i].value)]
Emitted ==
  [k \in DOMAIN emitter.sent |->
     Decode(Happened(files[emitter.sent[k].input].channel, emitter.sent[k].row.ts, emitter.sent[k].row.value))]
Strictly(rows) == \A i \in DOMAIN rows : i > 1 => rows[i - 1].ts < rows[i].ts

\* As long as the network does nothing, a recording over UDP holds of each channel
\* it was asked for what was sent since it started, each row once and in order:
\* written out, waiting in the source, or under way; and it reports no gap where the
\* times it was sent increase (lib.rs:134-174 of pitgun-source-udp, io.rs:62-75).
RecordedAsSent ==
  (sub.state = "running" /\ sub.transport = "udp" /\ faults = 0 /\ sub.csv) =>
    LET start == history[Run]
        due == SubSeq(Emitted, start.sent - start.wire + 1, Len(Emitted))
        rest == sub.pending \o [i \in DOMAIN wire |-> Decode(wire[i])]
        wanted == sub.asked[1].channels
    IN /\ Len(sub.pending) < BatchMaxLen
       /\ \A c \in Channels :
            IF wanted = {} \/ c \in wanted
            THEN Written(Run, c) \o Rows(rest, c) = Rows(due, c)
            ELSE Written(Run, c) = << >>
       /\ (\A c \in Channels : Strictly(Rows(due, c))) => sub.chain[2].gaps = 0

Body(rows) == SelectSeq(rows, LAMBDA r : r \notin {HeaderRow, BadRow})

\* A file holds, under its header, an unbroken stretch of what one run wrote on its
\* channel, from the row whose arrival created it; with what its writer still holds
\* it reaches the last row.  Only its last line may be torn, and rows of an earlier
\* run never stand before rows of a later one (sinks.rs:19-65).
FilesAreStretches ==
  \A c \in Channels :
    LET file == disk[c]
        held == IF file.run = Run /\ sub.writers[c] # << >> THEN sub.writers[c][1] ELSE << >>
        body == Body(file.rows \o held)
    IN file.run > 0 =>
         /\ file.rows # << >> => Head(file.rows) = HeaderRow
         /\ \A i \in DOMAIN file.rows : file.rows[i] = BadRow => i = Len(file.rows) /\ held = << >>
         /\ body = SubSeq(Written(file.run, c), file.from + 1, file.from + Len(body))
         /\ held # << >> => file.from + Len(body) = Len(Written(Run, c))

\* The stretch of the chain after which events no longer change.
LeavesEvents(p) == p.type \in {"stats", "segment_aggregate"}
ChangesNothingAfter(i) == \A j \in DOMAIN sub.asked : j > i => LeavesEvents(sub.asked[j])
Batches == history[Run].batches

\* A formula adds one event to exactly the batches that hold all its inputs, however
\* the stream was cut, from the last value of each, stamped with the latest time of
\* the batch (formula/processor.rs:38-58).
DerivedFromItsBatch ==
  \A i \in DOMAIN sub.asked :
    (sub.state = "running" /\ sub.asked[i].type = "formula" /\ ChangesNothingAfter(i)) =>
      \A k \in DOMAIN Batches :
        LET out == Batches[k].out.events
            derived == SelectSeq(out, LAMBDA e : e.channel = sub.asked[i].output)
            raw == SelectSeq(out, LAMBDA e : e.channel # sub.asked[i].output)
            deps == CollectVars(sub.asked[i].expr)
            lastValue(c) == raw[CHOOSE n \in DOMAIN raw :
                                  raw[n].channel = c /\ \A m \in (n + 1)..Len(raw) : raw[m].channel # c].value
        IN IF raw # << >> /\ deps \subseteq ChannelsOf(raw)
           THEN /\ out = raw \o derived /\ Len(derived) = 1
                /\ derived[1].value = EvalExpr(sub.asked[i].expr, [c \in deps |-> lastValue(c)])
                /\ \A n \in DOMAIN raw : raw[n].ts <= derived[1].ts
                /\ \E n \in DOMAIN raw : raw[n].ts = derived[1].ts
           ELSE derived = << >>

\* The aggregates printed over a whole subscription are those of the segments of the
\* stream that reached the processor, whatever the filters and formulas before it did
\* and wherever size or time cut the batches (segment.rs:247-267, main.rs:402-452).
AggregatesAcrossBatches ==
  \A i \in DOMAIN sub.asked :
    (sub.state = "running" /\ sub.asked[i].type = "segment_aggregate" /\ ChangesNothingAfter(i)) =>
      LET out == FlattenSeq([k \in DOMAIN Batches |-> Batches[k].out.aggregates])
          stream == FlattenSeq([k \in DOMAIN Batches |-> Batches[k].out.events])
          current == sub.chain[i].current
          options == sub.asked[i].options
      IN /\ Aggregation(options, current, out, stream, FALSE)!RecordsMatchSegments
         /\ Aggregation(options, current, out, stream, FALSE)!OpenSegmentIsLast
==============================================================================
