------------------------------- MODULE Gateway -------------------------------
(***************************************************************************)
(* The ingestion service services/pitgun-gateway: one handler task per     *)
(* WebSocket connection, a bounded queue, one writer task, the PostgreSQL  *)
(* events table and the in-memory metrics, under a graceful shutdown or a  *)
(* restart at any moment.  Only the table survives a restart.              *)
(*                                                                         *)
(* A handler takes a text message in three steps, because other tasks run  *)
(* between them: it receives and validates, it offers the event to the     *)
(* queue, and only then it counts the event as ingested.                   *)
(***************************************************************************)
EXTENDS RateLimiter, Sequences, FiniteSets

CONSTANTS Conns,         \* connection slots; a slot is reused by a later connection
          EventIds,      \* values of event_id
          Bodies,        \* everything else an envelope carries
          NoEvent,       \* no event: an empty slot, or a text that does not parse
          Tokens,        \* API key strings a client may present
          NoToken,       \* an absent or blank credential
          ApiKeys,       \* the configured keys; empty disables authentication
          QueueSize,     \* PITGUN_GATEWAY_INGEST_QUEUE_SIZE
          MaxMessages,   \* bound: messages and refused upgrades in one behaviour
          MaxTime,       \* bound: ticks of the clock
          MaxRestarts    \* bound: restarts of the process

Event == [id : EventIds, body : Bodies]

\* mpsc::channel panics on capacity 0, so a running gateway has a positive one.
ASSUME GatewayAssumption ==
  /\ IsFiniteSet(Conns)
  /\ QueueSize \in Nat \ {0}
  /\ MaxMessages \in Nat /\ MaxTime \in Nat /\ MaxRestarts \in Nat
  /\ ApiKeys \subseteq Tokens
  /\ NoToken \notin Tokens
  /\ NoEvent \notin Event


Reasons  == {"unauthorized", "message_too_large", "rate_limited", "invalid_payload",
             "queue_full", "queue_closed", "binary_payload"}
Outcomes == {"inserted", "duplicate", "error"}

VARIABLES
  pc,          \* handler: "none", "open", "ready" (validated) or "enqueued" (not yet counted)
  msg,         \* the event a handler has validated and not yet offered
  limiter,     \* per connection
  queue,       \* the mpsc channel
  writer,      \* process_queue: "recv", "insert", "done", or "dead" after a panic
  inserting,   \* the event process_queue is inserting
  main,        \* "serving", "stopping" once the signal came, "exited"
  rows,        \* the events table, in seq_id order
  wsMessages, ingested, rejected, writes,   \* GatewayMetrics
  now,
  accepted,    \* history: events in the order the queue took them, over all restarts
  sent,        \* bounds MaxMessages
  restarts     \* bounds MaxRestarts

handlers == <<pc, limiter, msg>>
queueTask == <<queue, writer, inserting>>
metrics  == <<wsMessages, ingested, rejected, writes>>
bounds   == <<now, sent, restarts>>
vars     == <<handlers, queueTask, main, rows, metrics, accepted, bounds>>

NoRejections == [r \in Reasons |-> 0]
NoWrites     == [o \in Outcomes |-> 0]
StoredIds    == {rows[i].id : i \in DOMAIN rows}

Init ==
  /\ pc = [c \in Conns |-> "none"]
  /\ msg = [c \in Conns |-> NoEvent]
  /\ limiter = [c \in Conns |-> NewLimiter(0)]
  /\ queue = << >>
  /\ writer = "recv" /\ inserting = NoEvent
  /\ main = "serving"
  /\ rows = << >>
  /\ wsMessages = 0 /\ ingested = 0 /\ rejected = NoRejections /\ writes = NoWrites
  /\ now = 0 /\ sent = 0 /\ restarts = 0
  /\ accepted = << >>

------------------------------------------------------------------------------
(* Opening a connection *)

\* A non-empty x-api-key wins, then a bearer token, then the query string;
\* blank values arrive as NoToken.
ExtractApiKey(header, bearer, query) ==
  IF header # NoToken THEN header ELSE IF bearer # NoToken THEN bearer ELSE query

IsAuthorized(key) == ApiKeys = {} \/ key \in ApiKeys

CountMessage == sent < MaxMessages /\ sent' = sent + 1

\* Instant::now(): any time may have passed since the clock was read last.
ReadClock == now' \in now..MaxTime

Reject(reason) == rejected' = [rejected EXCEPT ![reason] = @ + 1]

\* ws_handler, then the start of handle_socket.
Connect(c, key) ==
  /\ main = "serving"
  /\ pc[c] = "none"
  /\ IsAuthorized(key)
  /\ pc' = [pc EXCEPT ![c] = "open"]
  /\ ReadClock
  /\ limiter' = [limiter EXCEPT ![c] = NewLimiter(now')]
  /\ UNCHANGED <<msg, queueTask, main, rows, metrics, accepted, sent, restarts>>

RefuseUpgrade(key) ==
  /\ main = "serving"
  /\ ~IsAuthorized(key)
  /\ CountMessage
  /\ Reject("unauthorized")
  /\ UNCHANGED <<handlers, queueTask, main, rows, wsMessages, ingested, writes,
                 accepted, now, restarts>>

------------------------------------------------------------------------------
(* handle_socket *)

\* `break`, the Close frame and socket.close(): the task ends and drops its clone of
\* the queue's sender.  Both sends are awaited before that, so that "none" stands
\* for a handler that has returned, and a peer that reads nothing may delay it.
End(c) == pc' = [pc EXCEPT ![c] = "none"]

\* A text message longer than max_message_bytes.  The limiter is not consulted.
ReceiveOversize(c) ==
  /\ pc[c] = "open"
  /\ CountMessage
  /\ wsMessages' = wsMessages + 1
  /\ Reject("message_too_large")
  /\ End(c)
  /\ UNCHANGED <<limiter, msg, queueTask, main, rows, ingested, writes, accepted, now, restarts>>

\* parse_event_envelope and the match on its result; e = NoEvent stands for a
\* text it refuses.
Parse(c, e) ==
  \/ e = NoEvent /\ Reject("invalid_payload") /\ End(c) /\ UNCHANGED msg
  \/ /\ e # NoEvent
     /\ pc' = [pc EXCEPT ![c] = "ready"]
     /\ msg' = [msg EXCEPT ![c] = e]
     /\ UNCHANGED rejected

\* A text message of admissible size.
ReceiveText(c, e) ==
  /\ pc[c] = "open"
  /\ CountMessage
  /\ wsMessages' = wsMessages + 1
  /\ ReadClock
  /\ limiter' = [limiter EXCEPT ![c] = Counted(@, now')]
  /\ IF Allowed(limiter'[c])
     THEN Parse(c, e)
     ELSE Reject("rate_limited") /\ End(c) /\ UNCHANGED msg
  /\ UNCHANGED <<queueTask, main, rows, ingested, writes, accepted, restarts>>

HasRoom == Len(queue) < QueueSize

\* Mutant: the newest event is put in front.
EnqueueFront(e) == queue' = <<e>> \o queue /\ accepted' = Append(accepted, e)

Enqueue(e) == queue' = Append(queue, e) /\ accepted' = Append(accepted, e)

\* tx.try_send: never waits.
TrySend(c) ==
  /\ pc[c] = "ready"
  /\ msg' = [msg EXCEPT ![c] = NoEvent]
  /\ \/ /\ writer # "dead" /\ HasRoom
        /\ Enqueue(msg[c])
        /\ pc' = [pc EXCEPT ![c] = "enqueued"]
        /\ UNCHANGED rejected
     \/ /\ writer # "dead" /\ ~HasRoom
        /\ Reject("queue_full")
        /\ End(c)
        /\ UNCHANGED <<queue, accepted>>
     \/ /\ writer = "dead"
        /\ Reject("queue_closed")
        /\ End(c)
        /\ UNCHANGED <<queue, accepted>>
  /\ UNCHANGED <<limiter, writer, inserting, main, rows, wsMessages, ingested, writes, bounds>>

\* record_ingested_event, after the writer may already have taken the event.
RecordIngested(c) ==
  /\ pc[c] = "enqueued"
  /\ ingested' = ingested + 1
  /\ pc' = [pc EXCEPT ![c] = "open"]
  /\ UNCHANGED <<limiter, msg, queueTask, main, rows, wsMessages, rejected, writes,
                 accepted, bounds>>

ReceiveBinary(c) ==
  /\ pc[c] = "open"
  /\ CountMessage
  /\ Reject("binary_payload")
  /\ End(c)
  /\ UNCHANGED <<limiter, msg, queueTask, main, rows, wsMessages, ingested, writes,
                 accepted, now, restarts>>

\* A close frame, a transport error, the end of the stream or a Pong that
\* cannot be sent.  A Ping answered by a Pong, and a Pong, change nothing.
Disconnect(c) ==
  /\ pc[c] = "open"
  /\ End(c)
  /\ UNCHANGED <<limiter, msg, queueTask, main, rows, metrics, accepted, bounds>>

------------------------------------------------------------------------------
(* process_queue and PgEventStore::insert_event *)

\* Mutant: the writer takes nothing more once the shutdown began.
RecvWhileServing ==
  /\ writer = "recv"
  /\ queue # << >>
  /\ main = "serving"
  /\ inserting' = Head(queue)
  /\ queue' = Tail(queue)
  /\ writer' = "insert"
  /\ UNCHANGED <<handlers, main, rows, metrics, accepted, bounds>>

RecvFromQueue ==
  /\ writer = "recv"
  /\ queue # << >>
  /\ inserting' = Head(queue)
  /\ queue' = Tail(queue)
  /\ writer' = "insert"
  /\ UNCHANGED <<handlers, main, rows, metrics, accepted, bounds>>

\* Mutant: the conflict is resolved by deleting the stored row and inserting anew.
InsertReplaces(e, outcome) ==
  \/ /\ outcome = "inserted" /\ e.id \notin StoredIds
     /\ rows' = Append(rows, e)
  \/ /\ outcome = "duplicate" /\ e.id \in StoredIds
     /\ rows' = Append(SelectSeq(rows, LAMBDA row : row.id # e.id), e)

\* INSERT ... ON CONFLICT(event_id) DO NOTHING.  An error may be reported
\* although the row was committed (the connection broke after the commit).
Insert(e, outcome) ==
  \/ /\ outcome = "inserted" /\ e.id \notin StoredIds
     /\ rows' = Append(rows, e)
  \/ /\ outcome = "duplicate" /\ e.id \in StoredIds
     /\ UNCHANGED rows
  \/ /\ outcome = "error"
     /\ \/ UNCHANGED rows
        \/ e.id \notin StoredIds /\ rows' = Append(rows, e)

\* Mutant: only successful statements are counted.
CountWriteIfOk(outcome) ==
  writes' = IF outcome = "error" THEN writes ELSE [writes EXCEPT ![outcome] = @ + 1]

CountWrite(outcome) == writes' = [writes EXCEPT ![outcome] = @ + 1]

\* The await on the store returns and the outcome is counted.  A failed
\* event is logged and dropped.
FinishInsert(outcome) ==
  /\ writer = "insert"
  /\ Insert(inserting, outcome)
  /\ CountWrite(outcome)
  /\ inserting' = NoEvent
  /\ writer' = "recv"
  /\ UNCHANGED <<handlers, queue, main, wsMessages, ingested, rejected, accepted, bounds>>

\* Mutant: the writer never learns that the senders are gone.
QueueNeverClosed ==
  /\ FALSE
  /\ UNCHANGED vars

\* recv() yields None: the queue is empty and no sender is left, neither
\* main's AppState nor a handler's clone of it.
QueueClosed ==
  /\ writer = "recv"
  /\ queue = << >>
  /\ main = "stopping"
  /\ \A c \in Conns : pc[c] = "none"
  /\ writer' = "done"
  /\ UNCHANGED <<handlers, queue, inserting, main, rows, metrics, accepted, bounds>>

\* The writer task panics; dropping the receiver drops the queued events.
\* Every later try_send reports Closed.
WriterPanics ==
  /\ writer \in {"recv", "insert"}
  /\ writer' = "dead"
  /\ queue' = << >>
  /\ inserting' = NoEvent
  /\ UNCHANGED <<handlers, main, rows, metrics, accepted, bounds>>

------------------------------------------------------------------------------
(* main *)

\* SIGINT or SIGTERM: no upgrade is accepted any more, axum::serve returns
\* (upgraded connections are not part of what it waits for), app_state is dropped.
ShutdownSignal ==
  /\ main = "serving"
  /\ main' = "stopping"
  /\ UNCHANGED <<handlers, queueTask, rows, metrics, accepted, bounds>>

\* queue_task.await returns, whether the task finished or panicked.  Handlers
\* still open die with the runtime.
Exit ==
  /\ main = "stopping"
  /\ writer \in {"done", "dead"}
  /\ main' = "exited"
  /\ pc' = [c \in Conns |-> "none"]
  /\ msg' = [c \in Conns |-> NoEvent]
  /\ UNCHANGED <<limiter, queueTask, rows, metrics, accepted, bounds>>

\* The process is killed, or has exited, and is started again.
Restart ==
  /\ restarts < MaxRestarts
  /\ restarts' = restarts + 1
  /\ pc' = [c \in Conns |-> "none"]
  /\ msg' = [c \in Conns |-> NoEvent]
  /\ queue' = << >>
  /\ writer' = "recv" /\ inserting' = NoEvent
  /\ main' = "serving"
  /\ wsMessages' = 0 /\ ingested' = 0 /\ rejected' = NoRejections /\ writes' = NoWrites
  /\ UNCHANGED <<limiter, rows, accepted, now, sent>>

\* A process that has exited stays so unless it is started again.
Stopped == main = "exited" /\ UNCHANGED vars

Keys == {ExtractApiKey(h, b, q) : h, b, q \in Tokens \cup {NoToken}}

Handler(c) ==
  \/ \E k \in Keys : Connect(c, k)
  \/ ReceiveOversize(c)
  \/ \E e \in Event \cup {NoEvent} : ReceiveText(c, e)
  \/ TrySend(c)
  \/ RecordIngested(c)
  \/ ReceiveBinary(c)
  \/ Disconnect(c)

Next ==
  \/ \E c \in Conns : Handler(c)
  \/ \E k \in Keys : RefuseUpgrade(k)
  \/ RecvFromQueue
  \/ \E o \in Outcomes : FinishInsert(o)
  \/ QueueClosed
  \/ WriterPanics
  \/ ShutdownSignal
  \/ Exit
  \/ Restart
  \/ Stopped

Spec == Init /\ [][Next]_vars

\* The runtime keeps polling ready tasks, and an insert returns in the end
\* (sqlx reports a broken connection as an error).  Nothing is assumed of clients.
Fairness ==
  /\ \A c \in Conns : WF_vars(TrySend(c) \/ RecordIngested(c))
  /\ WF_vars(RecvFromQueue \/ (\E o \in Outcomes : FinishInsert(o)) \/ QueueClosed)
  /\ WF_vars(Exit)

FairSpec == Spec /\ Fairness

------------------------------------------------------------------------------
(* Properties *)

\* The state of handlers, queue, writer, table and counters keeps its type, and
\* the queue its capacity.
TypeOK ==
  /\ pc \in [Conns -> {"none", "open", "ready", "enqueued"}]
  /\ msg \in [Conns -> Event \cup {NoEvent}]
  /\ inserting \in Event \cup {NoEvent}
  /\ \A c \in Conns : pc[c] = "ready" => msg[c] \in Event
  /\ writer = "insert" => inserting \in Event
  /\ limiter \in [Conns -> Limiter]
  /\ queue \in Seq(Event) /\ Len(queue) <= QueueSize
  /\ writer \in {"recv", "insert", "done", "dead"}
  /\ main \in {"serving", "stopping", "exited"}
  /\ rows \in Seq(Event)
  /\ wsMessages \in Nat /\ ingested \in Nat
  /\ rejected \in [Reasons -> Nat]
  /\ writes \in [Outcomes -> Nat]
  /\ now \in Nat /\ sent \in Nat /\ restarts \in Nat
  /\ accepted \in Seq(Event)

At(step) == {c \in Conns : pc[c] = step}
Written  == writes["inserted"] + writes["duplicate"] + writes["error"]
InFlight == IF writer = "insert" THEN 1 ELSE 0

\* Every event the queue took is in exactly one place: queued, being inserted,
\* or counted under one write outcome.  Ingested lags by the handlers that
\* have sent but not yet counted (main.rs:398-400, 303-317).
EventsConserved ==
  (writer # "dead" /\ main # "exited") =>
    ingested + Cardinality(At("enqueued")) = Len(queue) + InFlight + Written

\* Every text message counted by record_ws_message ends in exactly one of
\* ingested and the five refusals of a text message, or its handler is still
\* working on it.
MessagesConserved ==
  main # "exited" =>
    wsMessages = ingested + Cardinality(At("ready")) + Cardinality(At("enqueued"))
                 + rejected["message_too_large"] + rejected["rate_limited"]
                 + rejected["invalid_payload"] + rejected["queue_full"]
                 + rejected["queue_closed"]

\* An event_id is stored at most once, across retries by clients, duplicate
\* deliveries, reported errors of committed inserts, and restarts.
UniqueIds ==
  \A i, j \in DOMAIN rows : rows[i].id = rows[j].id => i = j

\* Rows appear in the order in which the queue accepted their events, so the
\* events of one connection are never stored out of order.
RowsInAcceptanceOrder ==
  \E at \in [DOMAIN rows -> DOMAIN accepted] :
    /\ \A i \in DOMAIN rows : rows[i] = accepted[at[i]]
    /\ \A i, j \in DOMAIN rows : i < j => at[i] < at[j]

\* When queue_task.await has returned normally, nothing accepted is left
\* behind: each event reached a write outcome and each message was counted.
DrainedAtExit ==
  (main = "exited" /\ writer = "done") =>
    /\ queue = << >>
    /\ ingested = Written

\* Nothing a client sent is lost unaccounted for: not a message, not an accepted
\* event, not what is left when the process ends.
NothingLost == EventsConserved /\ MessagesConserved /\ DrainedAtExit

\* The table holds each event once and in the order of acceptance.
TableIsFaithful == UniqueIds /\ RowsInAcceptanceOrder

Log == INSTANCE EventLog

\* The gateway implements the append-only, idempotent log: insert_event is the
\* only statement that touches the table, restarts included.
LogSpec == Log!Spec

\* The events the queue took, counted yet or not.
Accepted == ingested + Cardinality(At("enqueued"))

\* Every accepted event reaches a write outcome, unless the writer died or the
\* process was restarted (which forgets the count).
EventuallyWritten ==
  \A k \in 1..MaxMessages :
    (Accepted >= k) ~> (Written >= k \/ writer = "dead" \/ Accepted < k)

\* Once the signal came and the last connection is gone, the process exits.
ShutdownCompletes ==
  (main = "stopping" /\ At("none") = Conns) ~> (main # "stopping")
==============================================================================
