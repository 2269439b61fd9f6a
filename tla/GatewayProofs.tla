---------------------------- MODULE GatewayProofs ----------------------------
(***************************************************************************)
(* The gateway's safety properties for any number of connections, events   *)
(* and API keys, any queue size, any rate and any number of restarts.      *)
(***************************************************************************)
EXTENDS Gateway, FiniteSetTheorems, TLAPS

------------------------------------------------------------------------------
(* Type correctness *)

\* Counting a message in the limiter keeps its fields in range.
LEMMA CountedType ==
  ASSUME NEW l \in Limiter, NEW t \in Nat
  PROVE  Counted(l, t) \in Limiter /\ NewLimiter(t) \in Limiter
<1>1. NewLimiter(t) \in Limiter
  BY LimiterAssumption DEF NewLimiter, Limiter
<1>2. CurrentWindow(l, t) \in Limiter
  BY <1>1 DEF CurrentWindow
<1>3. \A w \in Limiter : [w EXCEPT !.count = IF @ < CountMax THEN @ + 1 ELSE @] \in Limiter
  BY LimiterAssumption DEF Limiter
<1> QED
  BY <1>1, <1>2, <1>3 DEF Counted

\* Counting a refusal keeps the counters natural numbers.
LEMMA RejectType ==
  ASSUME rejected \in [Reasons -> Nat], NEW r \in Reasons, Reject(r)
  PROVE  rejected' \in [Reasons -> Nat]
BY DEF Reject

\* The reasons for which a text message is refused, and the others.
LEMMA ReasonNames ==
  /\ "rate_limited" \in Reasons /\ "invalid_payload" \in Reasons
  /\ "queue_full" \in Reasons /\ "queue_closed" \in Reasons
  /\ "message_too_large" \in Reasons /\ "binary_payload" \in Reasons
  /\ "unauthorized" \in Reasons
BY DEF Reasons

\* Each step of the gateway keeps the types.
LEMMA TypeStep == TypeOK /\ [Next]_vars => TypeOK'
<1> SUFFICES ASSUME TypeOK, [Next]_vars PROVE TypeOK'
  OBVIOUS
<1> USE GatewayAssumption DEF TypeOK
<1>1. ASSUME NEW c \in Conns, NEW k \in Keys, Connect(c, k) PROVE TypeOK'
  <2>1. now' \in Nat
    BY <1>1 DEF Connect, ReadClock
  <2>2. NewLimiter(now') \in Limiter
    BY <2>1, LimiterAssumption DEF NewLimiter, Limiter
  <2> QED
    BY <1>1, <2>1, <2>2 DEF Connect, queueTask, metrics
<1>2. ASSUME NEW c \in Conns, ReceiveOversize(c) PROVE TypeOK'
  <2>1. rejected' \in [Reasons -> Nat]
    BY <1>2, RejectType, ReasonNames DEF ReceiveOversize
  <2>2. pc' \in [Conns -> {"none", "open", "ready", "enqueued"}] /\ msg' = msg
        /\ \A d \in Conns : pc'[d] = "ready" => pc[d] = "ready"
    BY <1>2 DEF ReceiveOversize, End
  <2> QED
    BY <1>2, <2>1, <2>2 DEF ReceiveOversize, CountMessage, queueTask
<1>3. ASSUME NEW c \in Conns, NEW e \in Event \cup {NoEvent}, ReceiveText(c, e) PROVE TypeOK'
  <2>1. now' \in Nat /\ limiter' \in [Conns -> Limiter]
    <3>1. now' \in Nat
      BY <1>3 DEF ReceiveText, ReadClock
    <3> QED BY <1>3, <3>1, CountedType DEF ReceiveText
  <2>2. /\ rejected' \in [Reasons -> Nat]
        /\ pc' \in [Conns -> {"none", "open", "ready", "enqueued"}]
        /\ msg' \in [Conns -> Event \cup {NoEvent}]
        /\ \A d \in Conns : pc'[d] = "ready" => msg'[d] \in Event
    <3>1. CASE End(c) /\ UNCHANGED msg /\ Reject("rate_limited")
      BY <3>1, RejectType, ReasonNames DEF End
    <3>2. CASE End(c) /\ UNCHANGED msg /\ Reject("invalid_payload")
      BY <3>2, RejectType, ReasonNames DEF End
    <3>3. CASE /\ e # NoEvent /\ UNCHANGED rejected
               /\ pc' = [pc EXCEPT ![c] = "ready"]
               /\ msg' = [msg EXCEPT ![c] = e]
      BY <3>3
    <3> QED
      BY <1>3, <3>1, <3>2, <3>3 DEF ReceiveText, Parse
  <2> QED
    BY <1>3, <2>1, <2>2 DEF ReceiveText, CountMessage, queueTask
<1>4. ASSUME NEW c \in Conns, TrySend(c) PROVE TypeOK'
  <2>1. msg[c] \in Event
    BY <1>4 DEF TrySend
  <2>2. CASE /\ HasRoom /\ Enqueue(msg[c]) /\ UNCHANGED rejected
             /\ pc' = [pc EXCEPT ![c] = "enqueued"]
    BY <1>4, <2>1, <2>2 DEF TrySend, HasRoom, Enqueue, bounds
  <2>3. CASE UNCHANGED <<queue, accepted>> /\ End(c) /\ Reject("queue_full")
    BY <1>4, <2>3, RejectType, ReasonNames DEF TrySend, End, bounds
  <2>4. CASE UNCHANGED <<queue, accepted>> /\ End(c) /\ Reject("queue_closed")
    BY <1>4, <2>4, RejectType, ReasonNames DEF TrySend, End, bounds
  <2> QED
    BY <1>4, <2>2, <2>3, <2>4 DEF TrySend
<1>5. ASSUME NEW c \in Conns, RecordIngested(c) PROVE TypeOK'
  BY <1>5 DEF RecordIngested, queueTask, bounds
<1>6. ASSUME NEW c \in Conns, ReceiveBinary(c) PROVE TypeOK'
  BY <1>6 DEF ReceiveBinary, CountMessage, Reject, End, queueTask, Reasons
<1>7. ASSUME NEW c \in Conns, Disconnect(c) PROVE TypeOK'
  BY <1>7 DEF Disconnect, End, queueTask, metrics, bounds
<1>8. ASSUME NEW k \in Keys, RefuseUpgrade(k) PROVE TypeOK'
  BY <1>8 DEF RefuseUpgrade, CountMessage, Reject, handlers, queueTask, Reasons
<1>9. CASE RecvFromQueue
  BY <1>9 DEF RecvFromQueue, handlers, metrics, bounds
<1>10. ASSUME NEW o \in Outcomes, FinishInsert(o) PROVE TypeOK'
  <2>1. rows' = rows \/ rows' = Append(rows, inserting)
    BY <1>10 DEF FinishInsert, Insert
  <2>2. inserting \in Event
    BY <1>10 DEF FinishInsert
  <2>3. rows' \in Seq(Event)
    <3> HIDE DEF TypeOK
    <3>1. rows \in Seq(Event)
      BY DEF TypeOK
    <3>2. Append(rows, inserting) \in Seq(Event)
      BY <2>2, <3>1
    <3> QED
      BY <2>1, <3>1, <3>2
  <2>4. writes' \in [Outcomes -> Nat]
    BY <1>10 DEF FinishInsert, CountWrite
  <2> QED
    BY <1>10, <2>3, <2>4 DEF FinishInsert, handlers, bounds
<1>11. CASE QueueClosed
  BY <1>11 DEF QueueClosed, handlers, metrics, bounds
<1>12. CASE WriterPanics
  BY <1>12 DEF WriterPanics, handlers, metrics, bounds
<1>13. CASE ShutdownSignal
  BY <1>13 DEF ShutdownSignal, handlers, queueTask, metrics, bounds
<1>14. CASE Exit
  BY <1>14 DEF Exit, queueTask, metrics, bounds
<1>15. CASE Restart
  BY <1>15 DEF Restart, NoRejections, NoWrites, Reasons, Outcomes
<1>17. CASE Stopped \/ UNCHANGED vars
  BY <1>17 DEF Stopped, vars, handlers, queueTask, metrics, bounds
<1> QED
  BY <1>1, <1>2, <1>3, <1>4, <1>5, <1>6, <1>7, <1>8, <1>9, <1>10, <1>11, <1>12, <1>13,
     <1>14, <1>15, <1>17 DEF Next, Handler

\* The initial state has the types.
LEMMA TypeInit == Init => TypeOK
BY GatewayAssumption, LimiterAssumption
   DEF Init, TypeOK, NewLimiter, Limiter, NoRejections, NoWrites

\* Every variable keeps its type and the queue its capacity (try_send refuses
\* when the channel is full), in every behaviour of the gateway.
THEOREM GatewayTypes == Spec => []TypeOK
BY TypeInit, TypeStep, PTL DEF Spec

------------------------------------------------------------------------------
(* The events table *)

\* A row is appended only for an event_id that is not stored yet.
LEMMA RowsStep ==
  ASSUME TypeOK, [Next]_vars
  PROVE  \/ rows' = rows
         \/ \E e \in Event : e.id \notin StoredIds /\ rows' = Append(rows, e)
<1> USE DEF TypeOK
<1>1. ASSUME NEW o \in Outcomes, FinishInsert(o)
      PROVE  \/ rows' = rows
             \/ inserting.id \notin StoredIds /\ rows' = Append(rows, inserting)
  BY <1>1 DEF FinishInsert, Insert
<1>2. ASSUME NEW o \in Outcomes, FinishInsert(o) PROVE inserting \in Event
  BY <1>2 DEF FinishInsert
<1>3. ASSUME NEW c \in Conns, Handler(c) PROVE rows' = rows
  BY <1>3 DEF Handler, Connect, ReceiveOversize, ReceiveText, TrySend, RecordIngested,
              ReceiveBinary, Disconnect
<1>4. CASE \E k \in Keys : RefuseUpgrade(k)
  BY <1>4 DEF RefuseUpgrade
<1>5. CASE \/ RecvFromQueue \/ QueueClosed \/ WriterPanics \/ ShutdownSignal
           \/ Exit \/ Restart \/ Stopped \/ UNCHANGED vars
  BY <1>5 DEF RecvFromQueue, QueueClosed, WriterPanics, ShutdownSignal, Exit, Restart, 
              Stopped, vars
<1> QED
  BY <1>1, <1>2, <1>3, <1>4, <1>5 DEF Next

\* The gateway's handlers, queue and writer, through restarts and reported
\* errors, only ever use the table as the append-only log of EventLog.
THEOREM GatewayImplementsLog == Spec => LogSpec
<1>1. Init => Log!Init
  BY DEF Init, Log!Init
<1>2. TypeOK /\ [Next]_vars => [Log!Next]_rows
  BY RowsStep DEF Log!Next, Log!Store, Log!Event, Log!StoredIds, Event, StoredIds
<1> QED
  BY <1>1, <1>2, GatewayTypes, PTL DEF Spec, LogSpec, Log!Spec

\* No two rows share an event_id.
THEOREM GatewayUniqueIds == Spec => []UniqueIds
<1>1. Init => UniqueIds
  BY DEF Init, UniqueIds
<1>2. UniqueIds /\ TypeOK /\ [Next]_vars => UniqueIds'
  <2> SUFFICES ASSUME UniqueIds, TypeOK, [Next]_vars PROVE UniqueIds'
    OBVIOUS
  <2>1. CASE rows' = rows
    BY <2>1 DEF UniqueIds
  <2>2. ASSUME NEW e \in Event, e.id \notin StoredIds, rows' = Append(rows, e)
        PROVE  UniqueIds'
    <3>1. rows \in Seq(Event)
      BY DEF TypeOK
    <3>2. /\ DOMAIN rows' = 1..(Len(rows) + 1) /\ DOMAIN rows = 1..Len(rows)
          /\ rows'[Len(rows) + 1] = e
          /\ \A i \in 1..Len(rows) : rows'[i] = rows[i] /\ rows[i].id # e.id
      BY <2>2, <3>1 DEF StoredIds
    <3> QED
      BY <3>1, <3>2 DEF UniqueIds
  <2> QED
    BY <2>1, <2>2, RowsStep
<1> QED
  BY <1>1, <1>2, GatewayTypes, PTL DEF Spec

------------------------------------------------------------------------------
(* Conservation of events *)

\* While the writer lives, what the queue took is queued, being inserted or
\* counted, also after the process has exited.
Balance ==
  writer # "dead" =>
    ingested + Cardinality(At("enqueued")) = Len(queue) + InFlight + Written

\* A writer that ended normally left no event and no handler behind, and it
\* ends only in a shutdown; main exits only after the writer.
Quiet ==
  /\ writer = "done" => queue = << >> /\ At("none") = Conns /\ main # "serving"
  /\ main = "exited" => writer \in {"done", "dead"} /\ At("none") = Conns

Conservation == TypeOK /\ Balance /\ Quiet

\* The set of handlers at one place changes by at most the handler that moves.
LEMMA StepCount ==
  ASSUME TypeOK, NEW c \in Conns, NEW step \in {"none", "open", "ready", "enqueued"},
         NEW place \in {"ready", "enqueued"}, pc' = [pc EXCEPT ![c] = step]
  PROVE  LET n == Cardinality(At(place))
         IN  /\ n \in Nat
             /\ (pc[c] # place /\ step # place) => n' = n
             /\ (pc[c] # place /\ step = place) => n' = n + 1
             /\ (pc[c] = place /\ step # place) => n' = n - 1
<1> DEFINE S == At(place)
<1>1. IsFiniteSet(S) /\ Cardinality(S) \in Nat
  BY GatewayAssumption, FS_Subset, FS_CardinalityType DEF At
<1>2. CASE step = place
  <2>1. At(place)' = S \cup {c}
    BY <1>2 DEF At, TypeOK
  <2>2. Cardinality(S \cup {c}) = IF c \in S THEN Cardinality(S) ELSE Cardinality(S) + 1
    BY <1>1, FS_AddElement
  <2> QED
    BY <1>1, <1>2, <2>1, <2>2 DEF At
<1>3. CASE step # place
  <2>1. At(place)' = S \ {c}
    BY <1>3 DEF At, TypeOK
  <2>2. Cardinality(S \ {c}) = IF c \in S THEN Cardinality(S) - 1 ELSE Cardinality(S)
    BY <1>1, FS_RemoveElement
  <2> QED
    BY <1>1, <1>3, <2>1, <2>2 DEF At
<1> QED
  BY <1>2, <1>3

\* The writer's and main's state does not depend on the handlers once the
\* writer is done, because no handler is left to move.
LEMMA HandlerQuiet ==
  ASSUME TypeOK, Quiet, NEW c \in Conns, Handler(c)
  PROVE  Quiet'
<1>1. main' = main /\ writer' = writer
  BY DEF Handler, Connect, ReceiveOversize, ReceiveText, TrySend, RecordIngested,
         ReceiveBinary, Disconnect, queueTask
<1>2. pc[c] # "none" \/ main = "serving"
  BY DEF Handler, Connect, ReceiveOversize, ReceiveText, TrySend, RecordIngested,
         ReceiveBinary, Disconnect
<1>3. writer # "done" /\ main # "exited"
  BY <1>2 DEF Quiet, At
<1> QED
  BY <1>1, <1>3 DEF Quiet

\* Each step of a handler keeps the balance.
LEMMA HandlerBalance ==
  ASSUME TypeOK, Balance, NEW c \in Conns, Handler(c)
  PROVE  Balance'
<1> DEFINE n == Cardinality(At("enqueued"))
<1>0. \A step \in {"none", "open", "ready", "enqueued"} :
        pc' = [pc EXCEPT ![c] = step] =>
          /\ n \in Nat
          /\ (pc[c] # "enqueued" /\ step # "enqueued") => n' = n
          /\ (pc[c] # "enqueued" /\ step = "enqueued") => n' = n + 1
          /\ (pc[c] = "enqueued" /\ step # "enqueued") => n' = n - 1
  BY StepCount
<1> HIDE DEF n
<1> USE DEF TypeOK
<1>1. writer' = writer /\ writes' = writes
  BY DEF Handler, Connect, ReceiveOversize, ReceiveText, TrySend, RecordIngested,
         ReceiveBinary, Disconnect, queueTask, metrics
<1>2. InFlight' = InFlight /\ Written' = Written
  BY <1>1 DEF InFlight, Written
<1>3. InFlight \in Nat /\ Written \in Nat /\ Len(queue) \in Nat
  BY DEF InFlight, Written, Outcomes
<1>4. ASSUME NEW step \in {"none", "open", "ready"}, pc[c] # "enqueued",
             pc' = [pc EXCEPT ![c] = step], ingested' = ingested, queue' = queue
      PROVE  Balance'
  <2>1. n' = n
    BY <1>4, <1>0
  <2> QED
    BY <1>1, <1>2, <1>4, <2>1 DEF Balance, n
<1>5. ASSUME pc[c] = "open" \/ pc[c] = "none" \/ pc[c] = "ready",
             pc' = [pc EXCEPT ![c] = "enqueued"], ingested' = ingested,
             queue' = Append(queue, msg[c]), msg[c] \in Event
      PROVE  Balance'
  <2>1. n \in Nat /\ n' = n + 1
    BY <1>5, <1>0
  <2>2. Len(queue') = Len(queue) + 1
    BY <1>5
  <2> QED
    BY <1>1, <1>2, <1>3, <1>5, <2>1, <2>2 DEF Balance, n
<1>6. ASSUME pc[c] = "enqueued", pc' = [pc EXCEPT ![c] = "open"],
             ingested' = ingested + 1, queue' = queue
      PROVE  Balance'
  <2>1. n \in Nat /\ n' = n - 1
    BY <1>6, <1>0
  <2> QED
    BY <1>1, <1>2, <1>3, <1>6, <2>1 DEF Balance, n
<1>7. CASE \E k \in Keys : Connect(c, k)
  BY <1>4, <1>7 DEF Connect, queueTask, metrics
<1>8. CASE ReceiveOversize(c) \/ ReceiveBinary(c) \/ Disconnect(c)
  BY <1>4, <1>8 DEF ReceiveOversize, ReceiveBinary, Disconnect, End, queueTask, metrics
<1>9. CASE \E e \in Event \cup {NoEvent} : ReceiveText(c, e)
  BY <1>4, <1>9 DEF ReceiveText, Parse, End, queueTask
<1>10. CASE TrySend(c)
  BY <1>4, <1>5, <1>10 DEF TrySend, Enqueue, End
<1>11. CASE RecordIngested(c)
  BY <1>6, <1>11 DEF RecordIngested, queueTask
<1> QED
  BY <1>7, <1>8, <1>9, <1>10, <1>11 DEF Handler

\* The other tasks keep balance and quiet.
LEMMA TaskConservation ==
  ASSUME TypeOK, Balance, Quiet,
         \/ \E k \in Keys : RefuseUpgrade(k)
         \/ RecvFromQueue \/ \E o \in Outcomes : FinishInsert(o)
         \/ QueueClosed \/ WriterPanics \/ ShutdownSignal \/ Exit \/ Restart
         \/ Stopped \/ UNCHANGED vars
  PROVE  Balance' /\ Quiet'
<1> USE DEF TypeOK
<1>1. /\ Len(queue) \in Nat /\ Written \in Nat
      /\ Cardinality(At("enqueued")) \in Nat
  BY GatewayAssumption, FS_Subset, FS_CardinalityType DEF Written, Outcomes, At
<1>2. CASE \/ \E k \in Keys : RefuseUpgrade(k)
           \/ Stopped \/ UNCHANGED vars
  BY <1>2 DEF RefuseUpgrade, Stopped, vars, handlers, queueTask, metrics, Balance, Quiet,
              At, InFlight, Written
<1>3. CASE RecvFromQueue
  <2>1. Len(queue') = Len(queue) - 1
    BY <1>3 DEF RecvFromQueue
  <2>2. At("enqueued")' = At("enqueued") /\ Written' = Written
    BY <1>3 DEF RecvFromQueue, handlers, metrics, At, Written
  <2>3. InFlight = 0 /\ InFlight' = 1
    BY <1>3 DEF RecvFromQueue, InFlight
  <2>4. Balance'
    BY <1>1, <1>3, <2>1, <2>2, <2>3 DEF RecvFromQueue, Balance, metrics
  <2>5. Quiet'
    BY <1>3 DEF RecvFromQueue, Quiet
  <2> QED
    BY <2>4, <2>5
<1>4. ASSUME NEW o \in Outcomes, FinishInsert(o) PROVE Balance' /\ Quiet'
  <2>1. At("enqueued")' = At("enqueued") /\ queue' = queue
    BY <1>4 DEF FinishInsert, handlers, At
  <2>2. InFlight = 1 /\ InFlight' = 0
    BY <1>4 DEF FinishInsert, InFlight
  <2>3. Written' = Written + 1
    BY <1>4 DEF FinishInsert, CountWrite, Written, Outcomes
  <2>4. Balance'
    BY <1>1, <1>4, <2>1, <2>2, <2>3 DEF FinishInsert, Balance
  <2>5. Quiet'
    BY <1>4 DEF FinishInsert, Quiet
  <2> QED
    BY <2>4, <2>5
<1>5. CASE QueueClosed
  BY <1>5 DEF QueueClosed, Balance, Quiet, InFlight, Written, At, handlers, metrics
<1>6. CASE WriterPanics
  BY <1>6 DEF WriterPanics, Balance, Quiet
<1>7. CASE ShutdownSignal
  BY <1>7 DEF ShutdownSignal, Balance, Quiet, InFlight, Written, At, handlers, queueTask, metrics
<1>8. CASE Exit
  <2>1. writer' = writer /\ main' = "exited" /\ At("none")' = Conns
    BY <1>8 DEF Exit, queueTask, At
  <2>2. Quiet'
    BY <1>8, <2>1 DEF Exit, Quiet, queueTask
  <2>3. writer # "dead" => At("enqueued") = {} /\ At("enqueued")' = {}
    BY <1>8 DEF Exit, Quiet, At
  <2>4. /\ writer' = writer /\ queue' = queue /\ ingested' = ingested
        /\ InFlight' = InFlight /\ Written' = Written
    BY <1>8 DEF Exit, InFlight, Written, queueTask, metrics
  <2>5. Balance'
    <3> HIDE DEF TypeOK
    <3> QED
      BY <2>3, <2>4 DEF Balance
  <2> QED
    BY <2>2, <2>5
<1>9. CASE Restart
  <2>1. At("enqueued")' = {} /\ queue' = << >> /\ ingested' = 0 /\ writer' = "recv"
    BY <1>9 DEF Restart, At
  <2>2. Written' = 0 /\ InFlight' = 0
    BY <1>9 DEF Restart, Written, NoWrites, Outcomes, InFlight
  <2>3. Cardinality(At("enqueued"))' = 0 /\ Len(queue') = 0
    BY <2>1, FS_EmptySet
  <2>4. Balance'
    BY <2>1, <2>2, <2>3 DEF Balance
  <2> QED
    BY <1>9, <2>4 DEF Restart, Quiet
<1> QED
  BY <1>2, <1>3, <1>4, <1>5, <1>6, <1>7, <1>8, <1>9

\* Conservation is an invariant of the gateway.
LEMMA ConservationInvariant == Spec => []Conservation
<1>1. Init => Conservation
  <2> SUFFICES ASSUME Init PROVE Balance /\ Quiet
    BY TypeInit DEF Conservation
  <2>1. At("enqueued") = {} /\ Written = 0 /\ InFlight = 0
    BY DEF Init, At, Written, NoWrites, Outcomes, InFlight
  <2>2. Balance
    BY <2>1, FS_EmptySet DEF Init, Balance
  <2> QED
    BY <2>2 DEF Init, Quiet
<1>2. Conservation /\ [Next]_vars => Conservation'
  BY TypeStep, HandlerBalance, HandlerQuiet, TaskConservation DEF Conservation, Next
<1> QED
  BY <1>1, <1>2, PTL DEF Spec

\* No accepted event is lost or handled twice inside a running gateway, for
\* every interleaving of try_send, the metric update and the writer.
THEOREM GatewayConservesEvents == Spec => []EventsConserved
<1>1. Conservation => EventsConserved
  BY DEF Conservation, Balance, EventsConserved
<1> QED
  BY <1>1, ConservationInvariant, PTL

\* A graceful shutdown leaves no accepted event unwritten or uncounted.
THEOREM GatewayDrains == Spec => []DrainedAtExit
<1>1. Conservation => DrainedAtExit
  <2> SUFFICES ASSUME Conservation, main = "exited", writer = "done" PROVE DrainedAtExit
    BY DEF DrainedAtExit
  <2>1. queue = << >> /\ At("enqueued") = {} /\ InFlight = 0
    BY DEF Conservation, Quiet, At, InFlight
  <2>2. ingested \in Nat /\ Written \in Nat
    BY DEF Conservation, TypeOK, Written, Outcomes
  <2> QED
    BY <2>1, <2>2, FS_EmptySet DEF Conservation, Balance, DrainedAtExit
<1> QED
  BY <1>1, ConservationInvariant, PTL

------------------------------------------------------------------------------
(* Conservation of messages *)

\* The refusals of a text message.
Refused ==
  rejected["message_too_large"] + rejected["rate_limited"] + rejected["invalid_payload"]
    + rejected["queue_full"] + rejected["queue_closed"]

\* MessagesConserved, in these words.
MessageBalance ==
  main # "exited" =>
    wsMessages = ingested + Cardinality(At("ready")) + Cardinality(At("enqueued")) + Refused

\* A refusal counts once if it is one of a text message.
LEMMA RefusedStep ==
  ASSUME rejected \in [Reasons -> Nat], NEW r \in Reasons, Reject(r)
  PROVE  /\ Refused \in Nat
         /\ r \in {"message_too_large", "rate_limited", "invalid_payload", "queue_full",
                    "queue_closed"} => Refused' = Refused + 1
         /\ r \in {"unauthorized", "binary_payload"} => Refused' = Refused
  BY DEF Reject, Refused, Reasons

\* Each step of a handler accounts for the message it works on.
LEMMA HandlerMessages ==
  ASSUME TypeOK, MessageBalance, NEW c \in Conns, Handler(c)
  PROVE  MessageBalance'
<1> DEFINE r == Cardinality(At("ready"))
           n == Cardinality(At("enqueued"))
<1>0. \A step \in {"none", "open", "ready", "enqueued"} :
        pc' = [pc EXCEPT ![c] = step] =>
          /\ r \in Nat /\ n \in Nat
          /\ (pc[c] # "ready" /\ step # "ready") => r' = r
          /\ (pc[c] # "ready" /\ step = "ready") => r' = r + 1
          /\ (pc[c] = "ready" /\ step # "ready") => r' = r - 1
          /\ (pc[c] # "enqueued" /\ step # "enqueued") => n' = n
          /\ (pc[c] # "enqueued" /\ step = "enqueued") => n' = n + 1
          /\ (pc[c] = "enqueued" /\ step # "enqueued") => n' = n - 1
  BY StepCount
<1> HIDE DEF r, n
<1>1. main' = main
  BY DEF Handler, Connect, ReceiveOversize, ReceiveText, TrySend, RecordIngested,
         ReceiveBinary, Disconnect
<1>2. wsMessages \in Nat /\ ingested \in Nat /\ Refused \in Nat
  BY DEF TypeOK, Refused, Reasons
<1>3. MessageBalance <=> (main # "exited" => wsMessages = ingested + r + n + Refused)
  BY DEF MessageBalance, r, n
<1>4. MessageBalance' <=> (main' # "exited" => wsMessages' = ingested' + r' + n' + Refused')
  BY DEF MessageBalance, r, n
\* A message is counted and refused at once.
<1>5. ASSUME pc[c] = "open", pc' = [pc EXCEPT ![c] = "none"], ingested' = ingested,
             wsMessages' = wsMessages + 1, Refused' = Refused + 1
      PROVE  MessageBalance'
  BY <1>0, <1>1, <1>2, <1>3, <1>4, <1>5
\* A message is counted and its event is ready to be sent.
<1>6. ASSUME pc[c] = "open", pc' = [pc EXCEPT ![c] = "ready"], ingested' = ingested,
             wsMessages' = wsMessages + 1, Refused' = Refused
      PROVE  MessageBalance'
  BY <1>0, <1>1, <1>2, <1>3, <1>4, <1>6
\* The event is taken by the queue, or refused by it.
<1>7. ASSUME pc[c] = "ready", ingested' = ingested, wsMessages' = wsMessages,
             \/ pc' = [pc EXCEPT ![c] = "enqueued"] /\ Refused' = Refused
             \/ pc' = [pc EXCEPT ![c] = "none"] /\ Refused' = Refused + 1
      PROVE  MessageBalance'
  BY <1>0, <1>1, <1>2, <1>3, <1>4, <1>7
\* The event is counted.
<1>8. ASSUME pc[c] = "enqueued", pc' = [pc EXCEPT ![c] = "open"], ingested' = ingested + 1,
             wsMessages' = wsMessages, Refused' = Refused
      PROVE  MessageBalance'
  BY <1>0, <1>1, <1>2, <1>3, <1>4, <1>8
\* No message is worked on.
<1>9. ASSUME NEW step \in {"none", "open"}, pc[c] \in {"none", "open"},
             pc' = [pc EXCEPT ![c] = step],
             ingested' = ingested, wsMessages' = wsMessages, Refused' = Refused
      PROVE  MessageBalance'
  BY <1>0, <1>1, <1>2, <1>3, <1>4, <1>9
<1>10. rejected \in [Reasons -> Nat]
  BY DEF TypeOK
<1>11. ASSUME rejected' = rejected PROVE Refused' = Refused
  BY <1>11 DEF Refused
<1>12. ASSUME NEW x \in {"message_too_large", "rate_limited", "invalid_payload", "queue_full",
                         "queue_closed"}, Reject(x)
       PROVE  Refused' = Refused + 1
  BY <1>10, <1>12, RefusedStep DEF Reasons
<1>13. CASE \E k \in Keys : Connect(c, k)
  BY <1>9, <1>11, <1>13 DEF Connect, metrics
<1>14. CASE ReceiveOversize(c)
  BY <1>5, <1>12, <1>14 DEF ReceiveOversize, End
<1>15. CASE ReceiveBinary(c)
  <2>1. Refused' = Refused
    BY <1>10, <1>15, RefusedStep DEF ReceiveBinary, Reasons
  <2> QED BY <1>9, <1>15, <2>1 DEF ReceiveBinary, End
<1>16. CASE Disconnect(c)
  BY <1>9, <1>11, <1>16 DEF Disconnect, End, metrics
<1>17. CASE \E e \in Event \cup {NoEvent} : ReceiveText(c, e)
  BY <1>5, <1>6, <1>11, <1>12, <1>17 DEF ReceiveText, Parse, End
<1>18. CASE TrySend(c)
  BY <1>7, <1>11, <1>12, <1>18 DEF TrySend, End
<1>19. CASE RecordIngested(c)
  BY <1>8, <1>11, <1>19 DEF RecordIngested
<1> QED
  BY <1>13, <1>14, <1>15, <1>16, <1>17, <1>18, <1>19 DEF Handler

\* The other tasks touch no message of a client.
LEMMA TaskMessages ==
  ASSUME TypeOK, MessageBalance,
         \/ \E k \in Keys : RefuseUpgrade(k)
         \/ RecvFromQueue \/ \E o \in Outcomes : FinishInsert(o)
         \/ QueueClosed \/ WriterPanics \/ ShutdownSignal \/ Exit \/ Restart
         \/ Stopped \/ UNCHANGED vars
  PROVE  MessageBalance'
<1>1. ASSUME pc' = pc, main' = main \/ main = "serving", wsMessages' = wsMessages,
             ingested' = ingested, Refused' = Refused
      PROVE  MessageBalance'
  BY <1>1 DEF MessageBalance, At
<1>2. CASE \E k \in Keys : RefuseUpgrade(k)
  <2>1. Refused' = Refused
    BY <1>2, RefusedStep DEF RefuseUpgrade, TypeOK, Reasons
  <2> QED BY <1>1, <1>2, <2>1 DEF RefuseUpgrade, handlers
<1>3. CASE \/ RecvFromQueue \/ \E o \in Outcomes : FinishInsert(o)
           \/ QueueClosed \/ WriterPanics \/ ShutdownSignal \/ Stopped \/ UNCHANGED vars
  <2>1. /\ pc' = pc /\ (main' = main \/ main = "serving") /\ wsMessages' = wsMessages
        /\ ingested' = ingested /\ rejected' = rejected
    BY <1>3 DEF RecvFromQueue, FinishInsert, QueueClosed, WriterPanics, ShutdownSignal, Stopped,
                vars, handlers, metrics
  <2>2. Refused' = Refused
    BY <2>1 DEF Refused
  <2> QED BY <1>1, <2>1, <2>2
<1>4. CASE Exit
  BY <1>4 DEF Exit, MessageBalance
<1>5. CASE Restart
  <2>1. At("ready")' = {} /\ At("enqueued")' = {} /\ wsMessages' = 0 /\ ingested' = 0
    BY <1>5 DEF Restart, At
  <2>2. Refused' = 0
    BY <1>5 DEF Restart, Refused, NoRejections, Reasons
  <2>3. Cardinality(At("ready"))' = 0 /\ Cardinality(At("enqueued"))' = 0
    BY <2>1, FS_EmptySet
  <2> QED BY <2>1, <2>2, <2>3 DEF MessageBalance
<1> QED
  BY <1>2, <1>3, <1>4, <1>5

\* Nothing a client sent is lost unaccounted for, however handlers, writer, shutdown
\* and restarts interleave: every counted message was ingested, refused or is being
\* worked on; every accepted event is queued, being inserted or counted; and after a
\* normal exit nothing is left.
THEOREM GatewayLosesNothing == Spec => []NothingLost
<1>1. Init => MessageBalance
  <2> SUFFICES ASSUME Init PROVE MessageBalance
    OBVIOUS
  <2>1. At("ready") = {} /\ At("enqueued") = {} /\ Refused = 0
    BY DEF Init, At, Refused, NoRejections, Reasons
  <2> QED BY <2>1, FS_EmptySet DEF Init, MessageBalance
<1>2. TypeOK /\ MessageBalance /\ [Next]_vars => MessageBalance'
  BY HandlerMessages, TaskMessages DEF Next
<1>3. TypeOK /\ MessageBalance => MessagesConserved
  <2> SUFFICES ASSUME TypeOK, MessageBalance PROVE MessagesConserved
    OBVIOUS
  <2>1. Cardinality(At("ready")) \in Nat /\ Cardinality(At("enqueued")) \in Nat
    BY GatewayAssumption, FS_Subset, FS_CardinalityType DEF At
  <2>2. /\ ingested \in Nat
        /\ rejected["message_too_large"] \in Nat /\ rejected["rate_limited"] \in Nat
        /\ rejected["invalid_payload"] \in Nat /\ rejected["queue_full"] \in Nat
        /\ rejected["queue_closed"] \in Nat
    BY DEF TypeOK, Reasons
  <2> QED BY <2>1, <2>2 DEF MessageBalance, MessagesConserved, Refused
<1> QED
  BY <1>1, <1>2, <1>3, GatewayTypes, GatewayConservesEvents, GatewayDrains, PTL
     DEF Spec, NothingLost

------------------------------------------------------------------------------
(* The order of the table *)

\* What the queue holds is the end of what it accepted: the events numbered
\* after the first n.
EndsAfter(n, q, all) ==
  /\ n \in Nat /\ Len(all) = n + Len(q)
  /\ \A k \in 1..Len(q) : q[k] = all[n + k]

\* The rows stand at increasing places among the first n accepted events.
PlacedWithin(table, all, n) ==
  \E at \in [1..Len(table) -> 1..n] :
    /\ \A i \in 1..Len(table) : table[i] = all[at[i]]
    /\ \A i, j \in 1..Len(table) : i < j => at[i] < at[j]

\* The events accepted before those that are still queued.
Taken == Len(accepted) - Len(queue)

\* The inductive invariant: the queue is the end of what was accepted, the event
\* being inserted the one before it, and the rows were accepted before that one.
Ordered ==
  /\ EndsAfter(Taken, queue, accepted)
  /\ writer = "insert" => Taken > 0 /\ inserting = accepted[Taken]
  /\ PlacedWithin(rows, accepted, IF writer = "insert" THEN Taken - 1 ELSE Taken)

\* Places stay places when more is accepted and when more may be used.
LEMMA PlacesKept ==
  ASSUME NEW table \in Seq(Event), NEW all \in Seq(Event), NEW more \in Seq(Event),
         NEW n \in Nat, NEW m \in Nat, n <= m, n <= Len(all),
         \A k \in 1..Len(all) : more[k] = all[k],
         PlacedWithin(table, all, n)
  PROVE  PlacedWithin(table, more, m)
<1>1. PICK at \in [1..Len(table) -> 1..n] :
        /\ \A i \in 1..Len(table) : table[i] = all[at[i]]
        /\ \A i, j \in 1..Len(table) : i < j => at[i] < at[j]
  BY DEF PlacedWithin
<1>r. /\ \A k \in 1..n : k \in 1..m /\ k \in 1..Len(all)
      /\ \A i \in 1..Len(table) : at[i] \in 1..n
  <2>1. Len(all) \in Nat
    OBVIOUS
  <2>2. \A k \in 1..n : k \in 1..m /\ k \in 1..Len(all)
    BY <2>1
  <2>3. \A i \in 1..Len(table) : at[i] \in 1..n
    BY Zenon
  <2> QED BY <2>2, <2>3
<1>2. at \in [1..Len(table) -> 1..m]
  BY <1>r, Zenon
<1>3. \A i \in 1..Len(table) : table[i] = more[at[i]]
  BY <1>1, <1>r, Zenon
<1> QED BY <1>1, <1>2, <1>3 DEF PlacedWithin

\* A row appended for the next accepted event gets the next place.
LEMMA PlaceAdded ==
  ASSUME NEW table \in Seq(Event), NEW all \in Seq(Event), NEW n \in Nat, n > 0,
         n <= Len(all), PlacedWithin(table, all, n - 1)
  PROVE  PlacedWithin(Append(table, all[n]), all, n)
<1>1. PICK at \in [1..Len(table) -> 1..(n - 1)] :
        /\ \A i \in 1..Len(table) : table[i] = all[at[i]]
        /\ \A i, j \in 1..Len(table) : i < j => at[i] < at[j]
  BY DEF PlacedWithin
<1> DEFINE t == Append(table, all[n])
           new == [i \in 1..Len(t) |-> IF i = Len(t) THEN n ELSE at[i]]
<1>2. all[n] \in Event
  OBVIOUS
<1>3. /\ Len(t) = Len(table) + 1 /\ Len(table) \in Nat /\ t[Len(t)] = all[n]
      /\ \A i \in 1..Len(table) : t[i] = table[i]
  BY <1>2
<1> HIDE DEF t
<1>4. new \in [1..Len(t) -> 1..n]
  BY <1>1, <1>3
<1>5. \A i \in 1..Len(t) : t[i] = all[new[i]]
  BY <1>1, <1>3
<1>6. ASSUME NEW i \in 1..Len(t), NEW j \in 1..Len(t), i < j PROVE new[i] < new[j]
  <2>1. i \in 1..Len(table) /\ new[i] = at[i] /\ at[i] \in 1..(n - 1)
    BY <1>1, <1>3, <1>6
  <2>2. CASE j = Len(t)
    BY <2>1, <2>2, <1>3
  <2>3. CASE j # Len(t)
    <3>1. j \in 1..Len(table) /\ new[j] = at[j]
      BY <1>3, <2>3
    <3> QED BY <1>1, <1>6, <2>1, <3>1
  <2> QED BY <2>2, <2>3
<1> HIDE DEF new
<1>7. PlacedWithin(t, all, n)
  BY <1>4, <1>5, <1>6 DEF PlacedWithin
<1> QED BY <1>7 DEF t

\* A step that neither touches the queue nor the table keeps the order.
LEMMA OrderUntouched ==
  ASSUME Ordered, UNCHANGED <<queue, accepted, rows>>,
         \/ UNCHANGED <<writer, inserting>>
         \/ writer = "recv" /\ writer' # "insert"
  PROVE  Ordered'
BY DEF Ordered, Taken

\* try_send puts the event at the end of both.
LEMMA OrderSent ==
  ASSUME TypeOK, Ordered, NEW e \in Event, Enqueue(e), UNCHANGED <<writer, inserting, rows>>
  PROVE  Ordered'
<1> DEFINE n == Taken
<1>1. /\ queue \in Seq(Event) /\ accepted \in Seq(Event) /\ rows \in Seq(Event)
      /\ queue' = Append(queue, e) /\ accepted' = Append(accepted, e)
  BY DEF TypeOK, Enqueue
<1>2. n \in Nat /\ Len(accepted) = n + Len(queue) /\ n <= Len(accepted)
  BY <1>1 DEF Ordered, EndsAfter
<1>3. /\ Len(queue') = Len(queue) + 1 /\ Len(accepted') = Len(accepted) + 1
      /\ queue' \in Seq(Event) /\ accepted' \in Seq(Event)
      /\ \A k \in 1..Len(queue) : queue'[k] = queue[k]
      /\ \A k \in 1..Len(accepted) : accepted'[k] = accepted[k]
      /\ queue'[Len(queue) + 1] = e /\ accepted'[Len(accepted) + 1] = e
  BY <1>1
<1>4. Taken' = n
  BY <1>1, <1>3 DEF Taken
<1> HIDE DEF n
<1>5. \A k \in 1..Len(queue) : queue[k] = accepted[n + k]
  BY DEF Ordered, EndsAfter, n
<1>6. \A k \in 1..Len(queue') : queue'[k] = accepted'[n + k]
  <2> SUFFICES ASSUME NEW k \in 1..Len(queue') PROVE queue'[k] = accepted'[n + k]
    OBVIOUS
  <2>1. CASE k \in 1..Len(queue)
    <3>1. n + k \in 1..Len(accepted)
      BY <1>1, <1>2, <2>1
    <3> QED BY <1>3, <1>5, <2>1, <3>1
  <2>2. CASE k = Len(queue) + 1
    <3>1. n + k = Len(accepted) + 1
      BY <1>1, <1>2, <2>2
    <3> QED BY <1>3, <2>2, <3>1
  <2>3. Len(queue) \in Nat /\ Len(queue') = Len(queue) + 1
    BY <1>1, <1>3
  <2> QED BY <2>1, <2>2, <2>3
<1>7. EndsAfter(n, queue', accepted')
  <2>1. Len(queue) \in Nat /\ Len(queue') = Len(queue) + 1 /\ Len(accepted') = Len(accepted) + 1
    BY <1>1, <1>3
  <2>2. Len(accepted') = n + Len(queue')
    BY <1>2, <2>1
  <2> QED BY <1>2, <1>6, <2>2, Zenon DEF EndsAfter
<1>8. writer' = "insert" => n > 0 /\ inserting' = accepted'[n]
  BY <1>2, <1>3 DEF Ordered, n
<1>a. ASSUME NEW m \in Nat, m <= Len(accepted), PlacedWithin(rows, accepted, m)
      PROVE  PlacedWithin(rows, accepted', m)
  <2>1. \A k \in 1..Len(accepted) : accepted'[k] = accepted[k]
    BY <1>3
  <2>2. m <= m /\ accepted' \in Seq(Event) /\ rows \in Seq(Event) /\ accepted \in Seq(Event)
    BY <1>1, <1>3
  <2> QED BY ONLY <1>a, <2>1, <2>2, PlacesKept, Zenon
<1>9. PlacedWithin(rows', accepted', IF writer' = "insert" THEN n - 1 ELSE n)
  <2>1. CASE writer = "insert"
    <3>1. PlacedWithin(rows, accepted, n - 1) /\ n - 1 \in Nat /\ n - 1 <= Len(accepted)
      BY <1>2, <2>1 DEF Ordered, n
    <3>2. PlacedWithin(rows, accepted', n - 1)
      BY <3>1, <1>a
    <3> QED BY <2>1, <3>2
  <2>2. CASE writer # "insert"
    <3>1. PlacedWithin(rows, accepted, n)
      BY <2>2 DEF Ordered, n
    <3>2. PlacedWithin(rows, accepted', n)
      BY <1>2, <3>1, <1>a
    <3> QED BY <2>2, <3>2
  <2> QED BY <2>1, <2>2
<1> QED BY <1>4, <1>7, <1>8, <1>9 DEF Ordered

\* recv() takes the oldest queued event: the next one accepted.
LEMMA OrderReceived ==
  ASSUME TypeOK, Ordered, RecvFromQueue
  PROVE  Ordered'
<1> DEFINE n == Taken
<1>1. /\ queue \in Seq(Event) /\ accepted \in Seq(Event) /\ queue # << >>
      /\ queue' = Tail(queue) /\ accepted' = accepted /\ rows' = rows
      /\ inserting' = Head(queue) /\ writer = "recv" /\ writer' = "insert"
  BY DEF TypeOK, RecvFromQueue
<1>2. /\ n \in Nat /\ Len(accepted) = n + Len(queue)
      /\ \A k \in 1..Len(queue) : queue[k] = accepted[n + k]
      /\ PlacedWithin(rows, accepted, n)
  BY <1>1 DEF Ordered, EndsAfter
<1>3. /\ Len(queue) \in Nat /\ Len(queue) > 0 /\ Len(queue') = Len(queue) - 1
      /\ \A k \in 1..Len(queue') : queue'[k] = queue[k + 1]
      /\ inserting' = queue[1]
  BY <1>1
<1>4. Taken' = n + 1
  BY <1>1, <1>3 DEF Taken
<1> HIDE DEF n
<1>5. \A k \in 1..Len(queue') : queue'[k] = accepted'[(n + 1) + k]
  <2> SUFFICES ASSUME NEW k \in 1..Len(queue') PROVE queue'[k] = accepted[(n + 1) + k]
    BY <1>1
  <2>1. k + 1 \in 1..Len(queue) /\ n + (k + 1) = (n + 1) + k
    BY <1>2, <1>3
  <2> QED BY <1>2, <1>3, <2>1
<1>6. EndsAfter(n + 1, queue', accepted')
  BY <1>1, <1>2, <1>3, <1>5 DEF EndsAfter
<1>7. n + 1 > 0 /\ inserting' = accepted'[n + 1] /\ (n + 1) - 1 = n
  BY <1>1, <1>2, <1>3
<1> QED BY <1>1, <1>2, <1>4, <1>6, <1>7 DEF Ordered

\* A row is stored for the event taken last, or none is.
LEMMA OrderStored ==
  ASSUME TypeOK, Ordered, NEW o \in Outcomes, FinishInsert(o)
  PROVE  Ordered'
<1> DEFINE n == Taken
<1>1. /\ accepted \in Seq(Event) /\ rows \in Seq(Event) /\ queue \in Seq(Event)
      /\ queue' = queue /\ accepted' = accepted /\ writer = "insert" /\ writer' = "recv"
      /\ rows' = rows \/ rows' = Append(rows, inserting)
  <2>1. accepted \in Seq(Event) /\ rows \in Seq(Event) /\ queue \in Seq(Event)
    BY DEF TypeOK
  <2>2. queue' = queue /\ accepted' = accepted /\ writer = "insert" /\ writer' = "recv"
    BY DEF FinishInsert
  <2>3. rows' = rows \/ rows' = Append(rows, inserting)
    BY Zenon DEF FinishInsert, Insert
  <2> QED BY <2>1, <2>2, <2>3
<1>2. /\ n \in Nat /\ n > 0 /\ n <= Len(accepted) /\ inserting = accepted[n]
      /\ EndsAfter(n, queue, accepted) /\ PlacedWithin(rows, accepted, n - 1)
  BY <1>1 DEF Ordered, EndsAfter
<1>3. Taken' = n
  BY <1>1 DEF Taken
<1> HIDE DEF n
<1>4. PlacedWithin(rows', accepted, n)
  <2>1. CASE rows' = rows
    <3>1. n - 1 \in Nat /\ n - 1 <= n /\ n - 1 <= Len(accepted)
      BY <1>1, <1>2
    <3>2. PlacedWithin(rows, accepted, n)
      BY <1>1, <1>2, <3>1, PlacesKept
    <3> QED BY <2>1, <3>2
  <2>2. CASE rows' = Append(rows, inserting)
    BY <1>1, <1>2, <2>2, PlaceAdded
  <2> QED BY <1>1, <2>1, <2>2
<1> QED BY <1>1, <1>2, <1>3, <1>4 DEF Ordered

\* A panic or a restart drops what is queued and what is being inserted.
LEMMA OrderDropped ==
  ASSUME TypeOK, Ordered, queue' = << >>, writer' # "insert", UNCHANGED <<rows, accepted>>
  PROVE  Ordered'
<1> DEFINE n == Taken
<1>1. accepted \in Seq(Event) /\ rows \in Seq(Event) /\ queue \in Seq(Event)
  BY DEF TypeOK
<1>2. Len(queue') = 0 /\ Taken' = Len(accepted)
  BY <1>1 DEF Taken
<1>3. EndsAfter(Len(accepted), queue', accepted)
  BY <1>1, <1>2 DEF EndsAfter
<1>4. \E m \in Nat : m <= Len(accepted) /\ PlacedWithin(rows, accepted, m)
  <2>1. n \in Nat /\ n <= Len(accepted)
    BY <1>1 DEF Ordered, EndsAfter
  <2>2. CASE writer = "insert"
    <3>1. n - 1 \in Nat /\ n - 1 <= Len(accepted) /\ PlacedWithin(rows, accepted, n - 1)
      BY <1>1, <2>1, <2>2 DEF Ordered
    <3> QED BY <3>1
  <2>3. CASE writer # "insert"
    BY <2>1, <2>3 DEF Ordered
  <2> QED BY <2>2, <2>3
<1>5. PlacedWithin(rows, accepted, Len(accepted))
  BY <1>1, <1>4, PlacesKept
<1> QED BY <1>2, <1>3, <1>5 DEF Ordered

\* Every step keeps the order.
LEMMA OrderStep == TypeOK /\ Ordered /\ [Next]_vars => Ordered'
<1> SUFFICES ASSUME TypeOK, Ordered, [Next]_vars PROVE Ordered'
  OBVIOUS
<1>1. ASSUME NEW c \in Conns, TrySend(c) PROVE Ordered'
  <2>1. msg[c] \in Event /\ UNCHANGED <<writer, inserting, rows>>
    BY <1>1 DEF TrySend, TypeOK
  <2>2. Enqueue(msg[c]) \/ UNCHANGED <<queue, accepted>>
    BY <1>1 DEF TrySend
  <2> QED BY <2>1, <2>2, OrderSent, OrderUntouched
<1>2. ASSUME NEW c \in Conns, Handler(c), ~TrySend(c) PROVE Ordered'
  <2>1. UNCHANGED <<queue, accepted, rows, writer, inserting>>
    BY <1>2 DEF Handler, Connect, ReceiveOversize, ReceiveText, RecordIngested,
                ReceiveBinary, Disconnect, queueTask
  <2> QED BY <2>1, OrderUntouched
<1>3. CASE \/ \E k \in Keys : RefuseUpgrade(k)
           \/ QueueClosed \/ ShutdownSignal \/ Exit \/ Stopped \/ UNCHANGED vars
  <2>1. /\ UNCHANGED <<queue, accepted, rows>>
        /\ UNCHANGED <<writer, inserting>> \/ (writer = "recv" /\ writer' # "insert")
    BY <1>3 DEF RefuseUpgrade, QueueClosed, ShutdownSignal, Exit, Stopped, vars, queueTask
  <2> QED BY <2>1, OrderUntouched
<1>4. CASE WriterPanics \/ Restart
  BY <1>4, OrderDropped DEF WriterPanics, Restart
<1> QED
  BY <1>1, <1>2, <1>3, <1>4, OrderReceived, OrderStored DEF Next

\* The table is faithful to what the gateway accepted: no event_id twice, and the
\* rows in the order in which the queue took their events, so in the order in which
\* each connection sent them, through reported errors, panics and restarts.
THEOREM GatewayTableFaithful == Spec => []TableIsFaithful
<1>1. Init => Ordered
  <2> SUFFICES ASSUME Init PROVE Ordered
    OBVIOUS
  <2>1. queue = << >> /\ accepted = << >> /\ rows = << >> /\ writer = "recv" /\ Taken = 0
    BY DEF Init, Taken
  <2>2. EndsAfter(0, << >>, << >>)
    BY DEF EndsAfter
  <2>3. PlacedWithin(<< >>, << >>, 0)
    <3>1. [i \in 1..0 |-> 0] \in [1..0 -> 1..0] /\ Len(<< >>) = 0 /\ \A i \in 1..0 : FALSE
      OBVIOUS
    <3> QED BY <3>1 DEF PlacedWithin
  <2> QED BY <2>1, <2>2, <2>3 DEF Ordered
<1>2. TypeOK /\ Ordered => RowsInAcceptanceOrder
  <2> SUFFICES ASSUME TypeOK, Ordered PROVE RowsInAcceptanceOrder
    OBVIOUS
  <2>1. /\ accepted \in Seq(Event) /\ rows \in Seq(Event) /\ queue \in Seq(Event)
        /\ DOMAIN rows = 1..Len(rows) /\ DOMAIN accepted = 1..Len(accepted)
    BY DEF TypeOK
  <2>2. \E m \in Nat : m <= Len(accepted) /\ PlacedWithin(rows, accepted, m)
    <3>1. Taken \in Nat /\ Taken <= Len(accepted)
      BY <2>1 DEF Ordered, EndsAfter
    <3>2. CASE writer = "insert"
      <4>1. /\ Taken - 1 \in Nat /\ Taken - 1 <= Len(accepted)
            /\ PlacedWithin(rows, accepted, Taken - 1)
        BY <2>1, <3>1, <3>2 DEF Ordered
      <4> QED BY <4>1
    <3>3. CASE writer # "insert"
      BY <3>1, <3>3 DEF Ordered
    <3> QED BY <3>2, <3>3
  <2>3. PlacedWithin(rows, accepted, Len(accepted))
    BY <2>1, <2>2, PlacesKept
  <2> QED BY <2>1, <2>3 DEF PlacedWithin, RowsInAcceptanceOrder
<1> QED
  BY <1>1, <1>2, OrderStep, GatewayTypes, GatewayUniqueIds, PTL DEF Spec, TableIsFaithful
==============================================================================
