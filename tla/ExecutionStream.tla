--------------------------- MODULE ExecutionStream ---------------------------
(****************************************************************************)
(* The incremental execution stream contract: records, batches and the      *)
(* cursor that validates batches that were transported independently.       *)
(****************************************************************************)
EXTENDS Integers, Sequences

CONSTANTS MaxInteger,   \* MAX_SAFE_JSON_INTEGER
          MaxRecords    \* MAX_INCREMENTAL_STREAM_BATCH_RECORDS

ASSUME MaxIntegerAssumption == MaxInteger \in Nat
ASSUME MaxRecordsAssumption == MaxRecords \in Nat \ {0}

Record == [sequence : Nat, tick : Nat, complete : BOOLEAN]

Cursor == [next : Nat, lastTick : Nat, started : BOOLEAN, completed : BOOLEAN]

\* started = FALSE is last_logical_tick = None.
NewCursor == [next |-> 0, lastTick |-> 0, started |-> FALSE, completed |-> FALSE]

------------------------------------------------------------------------------

\* validate_portable_integer.
Portable(n) == n <= MaxInteger

\* MUTANT of ValidBatch: ticks are not compared within a batch.
ValidBatchAnyTick(batch) ==
  /\ batch # << >> /\ Len(batch) <= MaxRecords
  /\ \A i \in DOMAIN batch : Portable(batch[i].sequence) /\ Portable(batch[i].tick)
  /\ \A i \in 1..(Len(batch) - 1) :
       /\ batch[i + 1].sequence = batch[i].sequence + 1
       /\ ~batch[i].complete

\* validate_batch_structure.
ValidBatch(batch) ==
  /\ batch # << >> /\ Len(batch) <= MaxRecords
  /\ \A i \in DOMAIN batch : Portable(batch[i].sequence) /\ Portable(batch[i].tick)
  /\ \A i \in 1..(Len(batch) - 1) :
       /\ batch[i + 1].sequence = batch[i].sequence + 1
       /\ batch[i].tick <= batch[i + 1].tick
       /\ ~batch[i].complete

LastRecord(batch) == batch[Len(batch)]

\* validate_next answers Ok.  A batch whose last progress record uses the
\* greatest portable sequence is refused as well.
Accepts(cursor, batch) ==
  /\ ~cursor.completed
  /\ ValidBatch(batch)
  /\ batch[1].sequence = cursor.next
  /\ cursor.started => batch[1].tick >= cursor.lastTick
  /\ LastRecord(batch).complete \/ Portable(LastRecord(batch).sequence + 1)

\* The cursor after an accepted batch.
Advanced(batch) ==
  LET last == LastRecord(batch) IN
  [next |-> IF last.complete THEN last.sequence ELSE last.sequence + 1,
   lastTick |-> last.tick, started |-> TRUE, completed |-> last.complete]

------------------------------------------------------------------------------
(* What the contract promises of a cursor and the records it let through *)

\* One total order from zero without gap or repetition; logical time never runs
\* backwards across batches, and only the last record may be the completion.
Ordered(records) ==
  \A i \in DOMAIN records :
    /\ records[i].sequence = i - 1
    /\ i < Len(records) => /\ records[i].tick <= records[i + 1].tick
                           /\ ~records[i].complete

\* The sequence the cursor expects is portable and the next in line, and
\* is_completed() answers for the last record.
Agrees(cursor, records) ==
  /\ cursor.started <=> records # << >>
  /\ records = << >> => cursor = NewCursor
  /\ records # << >> =>
       /\ cursor.lastTick = LastRecord(records).tick
       /\ cursor.completed = LastRecord(records).complete
       /\ cursor.next = Len(records) - (IF cursor.completed THEN 1 ELSE 0)
       /\ Portable(cursor.next)
==============================================================================
