-------------------------- MODULE SegmentAggregate --------------------------
(****************************************************************************)
(* SegmentAggregateProcessor: statistics of the target channels over the    *)
(* segments that the values of a key channel delimit.  Events come in       *)
(* batches cut anywhere; the last batch carries end_of_stream.  Values are  *)
(* integers or NonFinite; mean and stddev are left out (floating point).    *)
(****************************************************************************)
EXTENDS Integers, Sequences, FiniteSets, SequencesExt

CONSTANTS Keys,       \* values of the segment key
          Values,     \* values of the other channels
          Times,      \* timestamps
          MaxBatch,   \* bound on the events of a batch
          MaxEvents,  \* bound on the events of the stream
          NonFinite   \* NaN and the infinities

\* "key" is segment_key, "speed" a target, "other" a channel nobody asked for.
Event == [channel : {"key"}, value : Keys \cup {NonFinite}, ts : Times]
           \cup [channel : {"speed"}, value : Values \cup {NonFinite}, ts : Times]
           \cup [channel : {"other"}, value : {NonFinite}, ts : Times]

VARIABLES
  options,  \* emit_on_change, emit_last_segment_on_eof
  current,  \* << >> or the one open SegmentState
  out,      \* the records pushed to the batches so far
  seen,     \* history: the events processed
  ended     \* end_of_stream was processed

vars == <<options, current, out, seen, ended>>

Least(a, b) == IF a <= b THEN a ELSE b
Greatest(a, b) == IF a >= b THEN a ELSE b

NewStats == [count |-> 0, sum |-> 0, least |-> << >>, greatest |-> << >>]

\* RunningStats::update.
Update(s, value) ==
  [count |-> s.count + 1, sum |-> s.sum + value,
   least |-> IF s.least = << >> THEN <<value>> ELSE <<Least(s.least[1], value)>>,
   greatest |-> IF s.greatest = << >> THEN <<value>> ELSE <<Greatest(s.greatest[1], value)>>]

NewSegment(key, ts) == [key |-> key, start |-> ts, end |-> ts, stats |-> NewStats]

TouchTs(segment, ts) ==
  [segment EXCEPT !.start = Least(@, ts), !.end = Greatest(@, ts)]

Init ==
  /\ options \in [onChange : BOOLEAN, lastOnEof : BOOLEAN]
  /\ current = << >>
  /\ out = << >>
  /\ seen = << >>
  /\ ended = FALSE

------------------------------------------------------------------------------
\* A processor is [current, out] below.

FlushCurrent(p) == [current |-> << >>, out |-> p.out \o p.current]

\* MUTANT of StartNewSegment: the next segment opens before the flush.
StartNewSegmentFirst(p, key, ts) ==
  IF options.onChange THEN FlushCurrent([p EXCEPT !.current = <<NewSegment(key, ts)>>])
  ELSE [p EXCEPT !.current = <<NewSegment(key, ts)>>]

\* The open segment is emitted or, without emit_on_change, dropped.
StartNewSegment(p, key, ts) ==
  LET closed == IF options.onChange THEN FlushCurrent(p) ELSE p IN
  [closed EXCEPT !.current = <<NewSegment(key, ts)>>]

HandleSegmentKey(p, e) ==
  IF e.value = NonFinite THEN p
  ELSE IF p.current = << >> THEN [p EXCEPT !.current = <<NewSegment(e.value, e.ts)>>]
  ELSE IF p.current[1].key # e.value THEN StartNewSegment(p, e.value, e.ts)
  ELSE [p EXCEPT !.current = <<TouchTs(p.current[1], e.ts)>>]

\* Dropped before the first key; touches the segment before the value is looked at.
HandleValue(p, e) ==
  IF p.current = << >> THEN p
  ELSE LET touched == TouchTs(p.current[1], e.ts) IN
       [p EXCEPT !.current =
          <<IF e.channel = "speed" /\ e.value # NonFinite
            THEN [touched EXCEPT !.stats = Update(@, e.value)] ELSE touched>>]

Handle(p, e) == IF e.channel = "key" THEN HandleSegmentKey(p, e) ELSE HandleValue(p, e)

\* Processor::process.  A batch without events that does not end the stream
\* returns at once, which is the step with events = << >>.
Process(events, eos) ==
  LET folded == FoldLeft(Handle, [current |-> current, out |-> out], events)
      final == IF eos /\ options.lastOnEof THEN FlushCurrent(folded) ELSE folded
  IN /\ ~ended
     /\ current' = final.current
     /\ out' = final.out
     /\ seen' = seen \o events
     /\ ended' = eos
     /\ UNCHANGED options

Next ==
  \E n \in 0..MaxBatch, eos \in BOOLEAN :
    /\ Len(seen) + n <= MaxEvents
    /\ \E events \in [1..n -> Event] : Process(events, eos)

Spec == Init /\ [][Next]_vars

------------------------------------------------------------------------------
(* The reference definition, from the whole stream *)

FiniteKey(i) == seen[i].channel = "key" /\ seen[i].value # NonFinite

\* The finite keys that differ from the finite key before them, or are the first.
Starts ==
  {i \in DOMAIN seen :
     /\ FiniteKey(i)
     /\ \A j \in 1..(i - 1) :
          (FiniteKey(j) /\ \A k \in (j + 1)..(i - 1) : ~FiniteKey(k))
            => seen[j].value # seen[i].value}

\* The positions of the segment that starts at i.
Extent(i) == {k \in i..Len(seen) : \A j \in Starts : j <= i \/ k < j}

Measured(i) == {k \in Extent(i) : seen[k].channel = "speed" /\ seen[k].value # NonFinite}

IsLeast(x, S) == x \in S /\ \A y \in S : x <= y
IsGreatest(x, S) == x \in S /\ \A y \in S : x >= y

\* The record r describes the segment that starts at i.  A target without samples
\* has the sum 0, as flush_current emits it; docs/journal.md:1666 says null.
Describes(r, i) ==
  LET times == {seen[k].ts : k \in {k \in Extent(i) : seen[k].channel # "key" \/ FiniteKey(k)}}
      values == {seen[k].value : k \in Measured(i)}
  IN /\ r.key = seen[i].value
     /\ IsLeast(r.start, times) /\ IsGreatest(r.end, times)
     /\ r.stats.count = Cardinality(Measured(i))
     /\ r.stats.sum = SumFunctionOnSet([k \in DOMAIN seen |-> seen[k].value], Measured(i))
     /\ IF values = {} THEN r.stats.least = << >> /\ r.stats.greatest = << >>
        ELSE IsLeast(r.stats.least[1], values) /\ IsGreatest(r.stats.greatest[1], values)

InOrder(S) == SetToSortSeq(S, <)

------------------------------------------------------------------------------
(* Properties *)

\* However the stream is cut into batches, the records are those of its segments,
\* in order: the closed ones when emit_on_change, the last one at the end of the
\* stream when emit_last_segment_on_eof, each once.
RecordsMatchSegments ==
  LET order == InOrder(Starts)
      closed == IF options.onChange /\ Starts # {} THEN Front(order) ELSE << >>
      last == IF ended /\ options.lastOnEof /\ Starts # {} THEN <<Last(order)>> ELSE << >>
      due == closed \o last
  IN /\ Len(out) = Len(due)
     /\ \A n \in DOMAIN due : Describes(out[n], due[n])

\* Between batches the processor holds exactly the last segment of the stream so
\* far, unless the end of the stream flushed it.
OpenSegmentIsLast ==
  IF Starts = {} \/ (ended /\ options.lastOnEof) THEN current = << >>
  ELSE Len(current) = 1 /\ Describes(current[1], Last(InOrder(Starts)))
==============================================================================
