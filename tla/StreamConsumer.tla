--------------------------- MODULE StreamConsumer ----------------------------
(****************************************************************************)
(* A consumer of an execution stream that keeps the records of the batches  *)
(* its cursor accepts.  It is given any batch at any time; what it keeps is *)
(* the promise of the contract.                                             *)
(****************************************************************************)
EXTENDS ExecutionStream

CONSTANT Batches   \* the batches the transport may hand over

ASSUME BatchesAssumption == Batches \subseteq Seq(Record)

VARIABLES cursor, accepted

streamVars == <<cursor, accepted>>

StreamInit == cursor = NewCursor /\ accepted = << >>

\* validate_next advances the cursor only when every record passes.
Accept(batch) ==
  /\ Accepts(cursor, batch)
  /\ cursor' = Advanced(batch)
  /\ accepted' = accepted \o batch

Refuse(batch) == ~Accepts(cursor, batch) /\ UNCHANGED streamVars

StreamNext == \E batch \in Batches : Accept(batch) \/ Refuse(batch)

StreamSpec == StreamInit /\ [][StreamNext]_streamVars

------------------------------------------------------------------------------
(* Properties *)

\* Types.
StreamTypeOK == cursor \in Cursor /\ accepted \in Seq(Record)

\* Whatever batches arrive, in whatever order and how often, a consumer keeps one
\* ordered stream, and its cursor says where it stands (validate_next,
\* is_completed).
KeepsOneStream == Ordered(accepted) /\ Agrees(cursor, accepted)
==============================================================================
