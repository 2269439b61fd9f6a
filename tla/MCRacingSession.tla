--------------------------- MODULE MCRacingSession ---------------------------
(* One run, three parts.  "batches": a consumer is offered all batches of at    *)
(* most two records, valid or not, and some that are one record too long.       *)
(* "authorized": three starts over the two handles of that API, so that handles *)
(* run out and are used again; two of the three get as far as a batch.  "both": *)
(* two starts, of either API, with a consumer each.                             *)
EXTENDS RacingSession, StreamConsumer, TLC

CONSTANTS TopSequence, TopTick

VARIABLE part

MCRecords == [sequence : 0..TopSequence, tick : 0..TopTick, complete : BOOLEAN]

MCTooLong == {[n \in 1..3 |-> [first EXCEPT !.sequence = @ + n - 1]] : first \in MCRecords}

TheBatches == UNION {[1..n -> MCRecords] : n \in 0..2} \cup MCTooLong

MCBatches == TheBatches

MCInit == part \in {"batches", "authorized", "both"} /\ StreamInit /\ Init

Offered == part = "batches" /\ StreamNext /\ UNCHANGED <<part, vars>>

Raced ==
  /\ part # "batches"
  /\ Next
  /\ LET started == {a \in Attempts : attempts'[a].handle # 0} IN
       /\ part = "authorized" =>
            /\ \A a \in started : attempts'[a].api = part
            /\ Cardinality({a \in started : attempts'[a].records # << >>}) <= 2
            /\ consumer' = consumer
       /\ part = "both" => Cardinality(started) <= 2
  /\ UNCHANGED <<part, streamVars>>

MCNext == Offered \/ Raced

MCSpec == MCInit /\ [][MCNext]_<<part, streamVars, vars>>

AttemptSymmetry == Permutations(Attempts)
==============================================================================
