--------------------------- MODULE TelemetrySource ---------------------------
(***************************************************************************)
(* The life cycle the UDP, WebSocket, Kafka and MQTT sources share:        *)
(* start() and stop() as their caller sees them, and the loop task that    *)
(* start() spawns.  Caller and task meet in a shared SourceState and in a  *)
(* shutdown channel of capacity one; both calls poll the state and give up *)
(* after a while.  start() and stop() take &mut self, so a source serves   *)
(* one call at a time.                                                     *)
(*                                                                         *)
(* Frames are numbered by the order in which the loop sends them.  A       *)
(* message that yields no frame, and the statistics, are left out.         *)
(***************************************************************************)
EXTENDS Naturals, Sequences, FiniteSets

CONSTANTS Sources,
          SourceKinds,       \* the kinds a source may be of
          Subscriptions,     \* the numbers of topics an MQTT source may ask for
          RequestCapacity,   \* MqttSourceConfig::incoming_buffer_capacity
          MaxFrames          \* bound: frames a source sends

\* "ws_once" is a WebSocket source whose config.reconnect is false.
Kinds == {"udp", "ws", "ws_once", "kafka", "mqtt"}

ASSUME SourceAssumption ==
  /\ IsFiniteSet(Sources)
  /\ SourceKinds \subseteq Kinds
  /\ Subscriptions \subseteq Nat /\ RequestCapacity \in Nat \ {0} /\ MaxFrames \in Nat

SourceState == {"Idle", "Connecting", "Running", "Reconnecting", "Stopped", "Error"}

\* Where the loop task is: "none" until start() spawns it (shutdown_rx is
\* taken then, and only then), "ended" once it has returned.  "pong" and
\* "disconnect" are awaits inside a branch of select!: the answer to a ping, and
\* the Close frame or the MQTT disconnect that ends a connection.
LoopSteps == {"none", "init", "head", "connect", "backoff", "recv", "pong",
              "disconnect", "ended"}

Results == {"none", "Ok", "AlreadyRunning", "ConnectionFailed", "Timeout"}

\* What the caller last learnt: the call, the state when it was made, its result.
Call == [op : {"none", "start", "stop"}, from : SourceState, result : Results]

VARIABLES
  src,       \* per source, the fields of Source below
  chan       \* per source, frames sent and not yet received

sourceVars == <<src, chan>>

Sent    == 0..MaxFrames
Pending == 0..RequestCapacity

\* token: a message waits in the shutdown channel.  requests: entries in
\* rumqttc's request channel, topics: the subscriptions configured.  receiver: the
\* frame channel's receiver lives.
Source == [kind : Kinds, topics : Subscriptions, state : SourceState,
           loop : LoopSteps, token : BOOLEAN, call : {"none", "start", "send", "stop"},
           last : Call, sent : Sent, receiver : BOOLEAN, requests : Pending]

NewSource(k, n) ==
  [kind |-> k, topics |-> n, state |-> "Idle", loop |-> "none", token |-> FALSE, call |-> "none",
   last |-> [op |-> "none", from |-> "Idle", result |-> "none"],
   sent |-> 0, receiver |-> FALSE, requests |-> 0]

SourceInit ==
  /\ \E kind \in [Sources -> SourceKinds], topics \in [Sources -> Subscriptions] :
       src = [s \in Sources |-> NewSource(kind[s], topics[s])]
  /\ chan = [s \in Sources |-> << >>]

WebSocket == {"ws", "ws_once"}

Reconnect(s) == src[s].kind = "ws"
OfKind(s, kinds) == src[s].kind \in kinds

Alive(s) == src[s].loop \notin {"none", "ended"}

\* state(): try_read falls back to Idle while the loop holds the lock.
Observed(s) == {src[s].state} \cup (IF Alive(s) THEN {"Idle"} ELSE {})

Calling(s, op, result) == [op |-> op, from |-> src[s].state, result |-> result]

\* One step of source s; the others stand still.
Become(s, r) == src' = [src EXCEPT ![s] = r]

Return(s, result) ==
  Become(s, [src[s] EXCEPT !.call = "none", !.last.result = result])

------------------------------------------------------------------------------
(* start() *)

\* Up to the first poll: refused, or shutdown_rx is taken and the loop spawned.
Start(s) ==
  /\ src[s].call = "none"
  /\ \/ /\ "Running" \in Observed(s) \/ src[s].loop # "none"
        /\ Become(s, [src[s] EXCEPT !.last = Calling(s, "start", "AlreadyRunning")])
        /\ UNCHANGED chan
     \/ /\ src[s].loop = "none"
        /\ Become(s, [src[s] EXCEPT !.state = "Connecting", !.loop = "init", !.call = "start",
                                    !.last = Calling(s, "start", "none"), !.receiver = TRUE])
        /\ chan' = [chan EXCEPT ![s] = << >>]

SeesError(s) == OfKind(s, {"udp", "ws", "ws_once"})

\* One poll that decides.  The Kafka and MQTT sources do not look for Error.
StartPoll(s) ==
  /\ src[s].call = "start"
  /\ \E seen \in Observed(s) :
       \/ seen = "Running" /\ Return(s, "Ok")
       \/ seen = "Error" /\ SeesError(s) /\ Return(s, "ConnectionFailed")
  /\ UNCHANGED chan

\* The last poll saw no deciding state; the loop, if any, goes on.
StartTimeout(s) ==
  /\ src[s].call = "start"
  /\ \E seen \in Observed(s) : seen # "Running" /\ (seen = "Error" => ~SeesError(s))
  /\ Return(s, "Timeout")
  /\ UNCHANGED chan

------------------------------------------------------------------------------
(* stop() *)

StopCall(s) ==
  /\ src[s].call = "none"
  /\ Become(s, [src[s] EXCEPT !.call = "send",
                              !.last = Calling(s, "stop", "none")])
  /\ UNCHANGED chan

\* shutdown_tx.send(()).await: waits while the channel is full; an error
\* (the receiver went away with the loop) is ignored.
StopSend(s) ==
  /\ src[s].call = "send"
  /\ \/ src[s].loop = "ended" /\ Become(s, [src[s] EXCEPT !.call = "stop"])
     \/ /\ src[s].loop # "ended" /\ ~src[s].token
        /\ Become(s, [src[s] EXCEPT !.call = "stop", !.token = TRUE])
  /\ UNCHANGED chan

\* Mutant: sending the message counts as having stopped.
StopPollUnchecked(s) ==
  /\ src[s].call = "stop"
  /\ Return(s, "Ok")
  /\ UNCHANGED chan

StopPoll(s) ==
  /\ src[s].call = "stop"
  /\ src[s].state = "Stopped"
  /\ Return(s, "Ok")
  /\ UNCHANGED chan

StopTimeout(s) ==
  /\ src[s].call = "stop"
  /\ \E seen \in Observed(s) : seen # "Stopped"
  /\ Return(s, "Timeout")
  /\ UNCHANGED chan

------------------------------------------------------------------------------
(* The loop task *)

\* The task returns: its shutdown receiver is dropped, with what it held.
LoopEnds(s, state) ==
  Become(s, [src[s] EXCEPT !.state = state, !.loop = "ended", !.token = FALSE])

GoTo(s, state, step) == Become(s, [src[s] EXCEPT !.state = state, !.loop = step])

\* bind, multicast join, consumer creation or URL parsing; MQTT cannot fail
\* here, but each subscribe waits for room among the requests, which are
\* only read once the event loop is polled.
InitSucceeds(s) ==
  /\ src[s].loop = "init"
  /\ \/ OfKind(s, {"udp", "kafka"}) /\ GoTo(s, "Running", "recv")
     \/ OfKind(s, WebSocket) /\ GoTo(s, src[s].state, "head")
     \/ /\ OfKind(s, {"mqtt"}) /\ src[s].topics <= RequestCapacity
        /\ Become(s, [src[s] EXCEPT !.state = "Running", !.loop = "recv",
                                    !.requests = src[s].topics])
  /\ UNCHANGED chan

InitFails(s) ==
  /\ src[s].loop = "init" /\ ~OfKind(s, {"mqtt"})
  /\ LoopEnds(s, "Error")
  /\ UNCHANGED chan

\* The head of the WebSocket loop.
BeginConnect(s) ==
  /\ src[s].loop = "head"
  /\ GoTo(s, "Connecting", "connect")
  /\ UNCHANGED chan

\* connect_async.  It has no timeout, and the shutdown channel is not watched
\* meanwhile.
ConnectSucceeds(s) ==
  /\ src[s].loop = "connect"
  /\ GoTo(s, "Running", "recv")
  /\ UNCHANGED chan

ConnectFails(s) ==
  /\ src[s].loop = "connect"
  /\ IF Reconnect(s) THEN GoTo(s, src[s].state, "backoff") ELSE LoopEnds(s, "Error")
  /\ UNCHANGED chan

BackoffElapses(s) ==
  /\ src[s].loop = "backoff"
  /\ GoTo(s, src[s].state, "head")
  /\ UNCHANGED chan

\* A message decodes to a frame.  Nobody may be receiving any more.
Emit(s) ==
  /\ src[s].loop = "recv" /\ src[s].sent < MaxFrames
  /\ Become(s, [src[s] EXCEPT !.sent = @ + 1])
  /\ chan' = IF src[s].receiver THEN [chan EXCEPT ![s] = Append(@, src[s].sent + 1)] ELSE chan

\* A ping: the pong is sent before select! is reached again.
Ping(s) ==
  /\ src[s].loop = "recv" /\ OfKind(s, WebSocket)
  /\ GoTo(s, src[s].state, "pong")
  /\ UNCHANGED chan

\* write.send() has taken the pong or failed; the result is ignored.
PongSent(s) ==
  /\ src[s].loop = "pong"
  /\ GoTo(s, src[s].state, "recv")
  /\ UNCHANGED chan

\* A WebSocket closes or fails.
ConnectionLost(s) ==
  /\ src[s].loop = "recv"
  /\ OfKind(s, WebSocket)
  /\ \/ ~Reconnect(s) /\ LoopEnds(s, "Stopped")
     \/ Reconnect(s) /\ GoTo(s, "Reconnecting", "head")
  /\ UNCHANGED chan

\* Mutant: the end of the stream is not published.
StreamEndsSilently(s) ==
  /\ src[s].loop = "recv"
  /\ OfKind(s, {"kafka"})
  /\ LoopEnds(s, src[s].state)
  /\ UNCHANGED chan

\* The Kafka message stream ends.
StreamEnds(s) ==
  /\ src[s].loop = "recv"
  /\ OfKind(s, {"kafka"})
  /\ LoopEnds(s, "Stopped")
  /\ UNCHANGED chan

\* rumqttc reaches the broker and works off the requests.
BrokerReads(s) ==
  /\ src[s].loop = "recv" /\ src[s].requests > 0
  /\ Become(s, [src[s] EXCEPT !.requests = 0])
  /\ UNCHANGED chan

\* Mutant: the shutdown channel is not watched while backing off.
SeeShutdownInRecv(s) ==
  /\ src[s].loop = "recv" /\ src[s].token
  /\ IF OfKind(s, {"udp", "kafka"})
     THEN LoopEnds(s, "Stopped")
     ELSE Become(s, [src[s] EXCEPT !.loop = "disconnect", !.token = FALSE])
  /\ UNCHANGED chan

\* select! takes the shutdown branch.  A WebSocket first sends a Close frame, MQTT
\* asks to disconnect.
SeeShutdown(s) ==
  /\ src[s].loop \in {"recv", "backoff"} /\ src[s].token
  /\ IF src[s].loop = "backoff" \/ OfKind(s, {"udp", "kafka"})
     THEN LoopEnds(s, "Stopped")
     ELSE Become(s, [src[s] EXCEPT !.loop = "disconnect", !.token = FALSE])
  /\ UNCHANGED chan

\* write.send(Close) returns, whatever it says.
CloseSent(s) ==
  /\ src[s].loop = "disconnect" /\ OfKind(s, WebSocket)
  /\ LoopEnds(s, "Stopped")
  /\ UNCHANGED chan

\* client.disconnect().await waits for room among the requests.
Disconnected(s) ==
  /\ src[s].loop = "disconnect" /\ OfKind(s, {"mqtt"}) /\ src[s].requests < RequestCapacity
  /\ Become(s, [src[s] EXCEPT !.state = "Stopped", !.loop = "ended", !.token = FALSE,
                              !.requests = @ + 1])
  /\ UNCHANGED chan

------------------------------------------------------------------------------
(* A source by itself: its owner makes any calls in any order, and may drop *)
(* the frame receiver.                                                      *)

DropReceiver(s) ==
  /\ src[s].receiver
  /\ Become(s, [src[s] EXCEPT !.receiver = FALSE])
  /\ chan' = [chan EXCEPT ![s] = << >>]

InStart(s) == StartPoll(s) \/ StartTimeout(s)
InStop(s)  == StopSend(s) \/ StopPoll(s) \/ StopTimeout(s)

LoopTask(s) ==
  \/ InitSucceeds(s) \/ InitFails(s)
  \/ BeginConnect(s) \/ ConnectSucceeds(s) \/ ConnectFails(s) \/ BackoffElapses(s)
  \/ Emit(s) \/ Ping(s) \/ PongSent(s) \/ ConnectionLost(s) \/ StreamEnds(s) \/ BrokerReads(s)
  \/ SeeShutdown(s) \/ CloseSent(s) \/ Disconnected(s)

SourceNext ==
  \E s \in Sources :
    \/ Start(s) \/ StopCall(s) \/ InStart(s) \/ InStop(s)
    \/ LoopTask(s)
    \/ DropReceiver(s)

SourceSpec == SourceInit /\ [][SourceNext]_sourceVars

\* The runtime polls ready tasks and timers fire.  select! picks among ready
\* branches at random, so a shutdown that is ready again and again is taken.
\* Nothing is assumed of the peer: no message need arrive, no attempt to connect
\* and no WebSocket send need ever finish, and no broker need read requests.
LoopFairness(s) ==
  /\ WF_sourceVars(InitSucceeds(s) \/ InitFails(s))
  /\ WF_sourceVars(BeginConnect(s))
  /\ WF_sourceVars(BackoffElapses(s) \/ SeeShutdown(s))
  /\ SF_sourceVars(SeeShutdown(s))
  /\ WF_sourceVars(Disconnected(s))

CallFairness(s) == WF_sourceVars(InStart(s)) /\ WF_sourceVars(InStop(s))

FairSourceSpec ==
  /\ SourceSpec
  /\ \A s \in Sources : LoopFairness(s) /\ CallFairness(s)

------------------------------------------------------------------------------
(* Properties *)

\* Every source record and every channel keeps its type.
SourceTypeOK ==
  /\ src \in [Sources -> Source]
  /\ chan \in [Sources -> Seq(1..MaxFrames)]

\* The published state never claims more than the loop does: a source that says
\* Running has a loop inside its connection, and one that says Stopped or Error has
\* no loop left (async_source.rs:408, 482; lib.rs:399, 420).
StateTracksLoop ==
  \A s \in Sources :
    /\ src[s].state = "Running" => src[s].loop \in {"recv", "pong", "disconnect"}
    /\ src[s].state \in {"Stopped", "Error"} => src[s].loop = "ended"

\* Answered(s, op, result): the caller's last call of s was op, and this its result.
Answered(s, op, result) == src[s].last.op = op /\ src[s].last.result = result

\* What the caller is told is final when it says so: a start() that answered
\* ConnectionFailed and a stop() that answered Ok leave no loop at work, though a
\* Timeout may (async_source.rs:463, 482).
AnswersHold ==
  \A s \in Sources :
    Answered(s, "start", "ConnectionFailed") \/ Answered(s, "stop", "Ok") => src[s].loop = "ended"

\* A source's state word and its answers speak truly of its loop.
LoopObservedTruly == StateTracksLoop /\ AnswersHold

\* However start() and stop() are called and time out: after a stop() that
\* returned Ok and until the next start(), no frame is sent.
QuietAfterStop ==
  [][\A s \in Sources : Answered(s, "stop", "Ok") => src'[s].sent = src[s].sent]_sourceVars

\* The loop awaits something that only its peer can bring about, and does not watch
\* the shutdown channel meanwhile: a connection, room for a Pong or a Close frame,
\* or room among MQTT requests that nobody works off.
AwaitsPeer(s) ==
  \/ src[s].loop \in {"connect", "pong"}
  \/ src[s].loop = "disconnect" /\ (OfKind(s, {"mqtt"}) => src[s].requests = RequestCapacity)
  \/ src[s].loop = "init" /\ OfKind(s, {"mqtt"}) /\ src[s].topics > RequestCapacity

\* A shutdown message is not forgotten: a spawned loop that has one to read ends,
\* though it may be connecting, answering a ping or backing off when the message
\* arrives.  The one exception is a loop that from some moment on awaits its peer
\* for ever.
LoopStops ==
  \A s \in Sources :
    (Alive(s) /\ src[s].token) ~> (src[s].loop = "ended" \/ []AwaitsPeer(s))

\* stop() of a source that was started returns, though earlier calls timed out and
\* left their message in the channel, unless the loop awaits its peer for ever.
StopReturnsIfStarted ==
  \A s \in Sources :
    (src[s].call \in {"send", "stop"} /\ src[s].loop # "none")
      ~> (src[s].call = "none" \/ []AwaitsPeer(s))

\* A stop() of a started source is acted on and answered.
StopTakesEffect == LoopStops /\ StopReturnsIfStarted

\* Documented at source.rs:464: stop() "Returns an error if the source is not
\* running."  A call of stop() at least returns.
StopReturns ==
  \A s \in Sources : (src[s].call = "send") ~> (src[s].call # "send")
==============================================================================
