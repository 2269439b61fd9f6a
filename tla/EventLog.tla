------------------------------ MODULE EventLog -------------------------------
(***************************************************************************)
(* What the gateway promises of the events table, whatever clients,        *)
(* retries and restarts do: rows are appended one at a time, none is ever  *)
(* changed or removed, and an event_id is stored at most once.             *)
(***************************************************************************)
EXTENDS Naturals, Sequences

CONSTANTS EventIds, Bodies

VARIABLE rows

Event == [id : EventIds, body : Bodies]

StoredIds == {rows[i].id : i \in DOMAIN rows}

Init == rows = << >>

Store(e) ==
  /\ e.id \notin StoredIds
  /\ rows' = Append(rows, e)

Next == \E e \in Event : Store(e)

Spec == Init /\ [][Next]_rows
==============================================================================
