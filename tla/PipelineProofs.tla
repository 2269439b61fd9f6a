---------------------------- MODULE PipelineProofs ----------------------------
(***************************************************************************)
(* Proofs about TelemetrySource, for any set of sources of any kinds, and  *)
(* about the pipeline over them: frames keep their order for any sources,  *)
(* any subscribers and any capacities.  The merge needs to know that a     *)
(* channel is made anew only before its loop has sent anything; a          *)
(* subscriber's stretch needs where its forwarder reads.                   *)
(***************************************************************************)
EXTENDS TelemetryPipeline, FiniteSetTheorems, SequenceTheorems, TLAPS

------------------------------------------------------------------------------
(* The sources *)

\* The operations of one source, whoever makes the calls.
Step(s) == Start(s) \/ StopCall(s) \/ InStart(s) \/ InStop(s) \/ LoopTask(s) \/ DropReceiver(s)

\* The frames a receiver has not yet taken are consecutive and end with the last
\* one the loop sent, and none waits for a receiver that is gone.
FramesConsecutive ==
  \A s \in Sources :
    LET n == Len(chan[s]) IN
      /\ n <= src[s].sent
      /\ \A i \in 1..n : chan[s][i] = src[s].sent - n + i
      /\ ~src[s].receiver => n = 0

\* What a call leaves in `last` while it runs.
CallRecorded ==
  \A s \in Sources :
    /\ src[s].call = "start" => src[s].last.op = "start"
    /\ src[s].call \in {"send", "stop"} =>
         src[s].last.op = "stop" /\ src[s].last.result = "none"

SourceInv ==
  SourceTypeOK /\ StateTracksLoop /\ AnswersHold /\ FramesConsecutive /\ CallRecorded

\* New sources satisfy the inductive invariant.
LEMMA SourceInvInit == SourceInit => SourceInv
  BY SourceAssumption
  DEF SourceInit, SourceInv, SourceTypeOK, StateTracksLoop, AnswersHold, Answered,
      FramesConsecutive, CallRecorded,
      NewSource, Source, Call, SourceState, LoopSteps, Results, Sent, Pending

\* An operation of s touches no other source.
LEMMA StepFrame ==
  ASSUME SourceTypeOK, NEW s \in Sources, Step(s)
  PROVE  \A u \in Sources \ {s} : src'[u] = src[u] /\ chan'[u] = chan[u]
  BY DEF SourceTypeOK, Step, Become, InStart, InStop, LoopTask, Start, StopCall, StartPoll,
         StartTimeout, StopSend, StopPoll, StopTimeout, Return, InitSucceeds, InitFails,
         BeginConnect, ConnectSucceeds, ConnectFails, BackoffElapses, Emit, Ping, PongSent,
         ConnectionLost, StreamEnds, BrokerReads, SeeShutdown, CloseSent, Disconnected, DropReceiver, LoopEnds, GoTo

\* Types survive every operation.
LEMMA TypeStep ==
  ASSUME SourceTypeOK, NEW s \in Sources, Step(s)
  PROVE  SourceTypeOK'
  <1> SUFFICES /\ \E r \in Source : src' = [src EXCEPT ![s] = r]
               /\ \E q \in Seq(1..MaxFrames) : chan' = [chan EXCEPT ![s] = q]
    BY DEF SourceTypeOK
  <1>e. << >> \in Seq(1..MaxFrames)
    OBVIOUS
  <1>r. src[s] \in Source /\ chan[s] \in Seq(1..MaxFrames) /\ chan = [chan EXCEPT ![s] = chan[s]]
    BY DEF SourceTypeOK
  <1> USE SourceAssumption DEF Source, Call, SourceState, LoopSteps, Results, Become
  <1>1. CASE Start(s)
    <2>1. [src[s] EXCEPT !.last = Calling(s, "start", "AlreadyRunning")] \in Source
      BY <1>r DEF Calling
    <2>2. [src[s] EXCEPT !.state = "Connecting", !.loop = "init", !.call = "start",
                         !.last = Calling(s, "start", "none"), !.receiver = TRUE] \in Source
      BY <1>r DEF Calling
    <2> HIDE DEF Source
    <2> QED
      BY <1>1, <1>r, <1>e, <2>1, <2>2, Zenon DEF Start
  <1>2. CASE StopCall(s)
    BY <1>2, <1>r DEF StopCall, Calling
  <1>3. CASE StartPoll(s)
    <2>1. ASSUME NEW result \in Results
          PROVE  [src[s] EXCEPT !.call = "none", !.last.result = result] \in Source
      BY <1>r
    <2>2. "Ok" \in Results /\ "ConnectionFailed" \in Results
      OBVIOUS
    <2>3. chan' = chan
      BY <1>3 DEF StartPoll
    <2> HIDE DEF Source, Results
    <2>4. \E result \in Results : Return(s, result)
      BY <1>3, <2>2, Zenon DEF StartPoll
    <2> QED BY <1>r, <2>1, <2>3, <2>4, Zenon DEF Return
  <1>4. CASE StartTimeout(s)
    BY <1>4, <1>r DEF StartTimeout, Return
  <1>5. CASE StopSend(s)
    BY <1>5, <1>r DEF StopSend
  <1>6. CASE StopPoll(s)
    BY <1>6, <1>r DEF StopPoll, Return
  <1>7. CASE StopTimeout(s)
    BY <1>7, <1>r DEF StopTimeout, Return
  <1>8. CASE InitSucceeds(s)
    <2>1. ASSUME NEW st \in SourceState, NEW l \in LoopSteps
          PROVE  [src[s] EXCEPT !.state = st, !.loop = l] \in Source
      <3> HIDE DEF SourceState, LoopSteps, Call, Results
      <3> QED BY <1>r
    <2>a. src[s].topics <= RequestCapacity => src[s].topics \in Pending
      BY <1>r DEF Pending
    <2>2. src[s].topics <= RequestCapacity =>
            [src[s] EXCEPT !.state = "Running", !.loop = "recv", !.requests = src[s].topics] \in Source
      BY <1>r, <2>a
    <2>3. src[s].state \in SourceState /\ "Running" \in SourceState
          /\ "recv" \in LoopSteps /\ "head" \in LoopSteps
      BY <1>r
    <2> HIDE DEF Source, SourceState, LoopSteps
    <2> QED
      BY <1>8, <1>r, <2>1, <2>2, <2>3, Zenon DEF InitSucceeds, GoTo
  <1>9. CASE InitFails(s)
    BY <1>9, <1>r DEF InitFails, LoopEnds
  <1>10. CASE BeginConnect(s)
    BY <1>10, <1>r DEF BeginConnect, GoTo
  <1>11. CASE ConnectSucceeds(s)
    BY <1>11, <1>r DEF ConnectSucceeds, GoTo
  <1>12. CASE ConnectFails(s)
    <2>1. [src[s] EXCEPT !.state = src[s].state, !.loop = "backoff"] \in Source
      BY <1>r
    <2>2. [src[s] EXCEPT !.state = "Error", !.loop = "ended", !.token = FALSE] \in Source
      BY <1>r
    <2>3. chan' = chan
      BY <1>12 DEF ConnectFails
    <2> HIDE DEF Source
    <2> QED BY <1>12, <1>r, <2>1, <2>2, <2>3, Zenon DEF ConnectFails, GoTo, LoopEnds
  <1>13. CASE BackoffElapses(s)
    BY <1>13, <1>r DEF BackoffElapses, GoTo
  <1>14. CASE Emit(s)
    <2>a. src[s].sent + 1 \in Sent /\ src[s].sent + 1 \in 1..MaxFrames
      BY <1>14, <1>r DEF Emit, Sent
    <2>1. [src[s] EXCEPT !.sent = @ + 1] \in Source
      BY <1>r, <2>a
    <2>2. Append(chan[s], src[s].sent + 1) \in Seq(1..MaxFrames)
      BY <1>r, <2>a
    <2> HIDE DEF Source
    <2> QED
      BY <1>14, <1>r, <2>1, <2>2, Zenon DEF Emit
  <1>15. CASE ConnectionLost(s)
    BY <1>15, <1>r DEF ConnectionLost, GoTo, LoopEnds
  <1>16. CASE StreamEnds(s)
    BY <1>16, <1>r DEF StreamEnds, LoopEnds
  <1>17. CASE BrokerReads(s)
    <2>1. [src[s] EXCEPT !.requests = 0] \in Source
      <3>1. 0 \in Pending
        BY DEF Pending
      <3> QED
        BY <1>r, <3>1
    <2> HIDE DEF Source
    <2> QED
      BY <1>17, <1>r, <2>1, Zenon DEF BrokerReads
  <1>18. CASE SeeShutdown(s)
    <2>1. [src[s] EXCEPT !.loop = "disconnect", !.token = FALSE] \in Source
      BY <1>r
    <2>2. [src[s] EXCEPT !.state = "Stopped", !.loop = "ended", !.token = FALSE] \in Source
      BY <1>r
    <2> HIDE DEF Source
    <2> QED
      BY <1>18, <1>r, <2>1, <2>2, Zenon DEF SeeShutdown, LoopEnds
  <1>19. CASE Disconnected(s)
    <2>a. src[s].requests + 1 \in Pending
      BY <1>19, <1>r DEF Disconnected, Pending
    <2>1. [src[s] EXCEPT !.state = "Stopped", !.loop = "ended", !.token = FALSE,
                         !.requests = @ + 1] \in Source
      BY <1>r, <2>a
    <2> HIDE DEF Source
    <2> QED
      BY <1>19, <1>r, <2>1, Zenon DEF Disconnected
  <1>20. CASE DropReceiver(s)
    <2>1. [src[s] EXCEPT !.receiver = FALSE] \in Source
      BY <1>r
    <2> HIDE DEF Source
    <2> QED
      BY <1>20, <1>r, <1>e, <2>1, Zenon DEF DropReceiver
  <1>21. CASE Ping(s)
    BY <1>21, <1>r DEF Ping, GoTo
  <1>22. CASE PongSent(s)
    BY <1>22, <1>r DEF PongSent, GoTo
  <1>23. CASE CloseSent(s)
    BY <1>23, <1>r DEF CloseSent, LoopEnds
  <1> QED
    BY <1>1, <1>2, <1>3, <1>4, <1>5, <1>6, <1>7, <1>8, <1>9, <1>10, <1>11, <1>12,
       <1>13, <1>14, <1>15, <1>16, <1>17, <1>18, <1>19, <1>20,
       <1>21, <1>22, <1>23
       DEF Step, InStart, InStop, LoopTask
\* The published state follows the loop, and the call record the calls.
LEMMA TrackStep ==
  ASSUME SourceTypeOK, StateTracksLoop, AnswersHold, CallRecorded, NEW s \in Sources, Step(s)
  PROVE  StateTracksLoop' /\ AnswersHold' /\ CallRecorded'
  <1> SUFFICES
        /\ src'[s].state = "Running" => src'[s].loop \in {"recv", "pong", "disconnect"}
        /\ src'[s].state \in {"Stopped", "Error"} => src'[s].loop = "ended"
        /\ src'[s].call = "start" => src'[s].last.op = "start"
        /\ src'[s].call \in {"send", "stop"} =>
             src'[s].last.op = "stop" /\ src'[s].last.result = "none"
        /\ src'[s].last.op = "stop" /\ src'[s].last.result = "Ok" => src'[s].loop = "ended"
        /\ src'[s].last.op = "start" /\ src'[s].last.result = "ConnectionFailed" =>
             src'[s].loop = "ended"
    <2>1. \A u \in Sources \ {s} : src'[u] = src[u]
      BY StepFrame
    <2> QED
      BY <2>1 DEF StateTracksLoop, AnswersHold, Answered, CallRecorded
  <1>r. /\ src \in [Sources -> Source] /\ src[s] \in Source
        /\ src[s].state = "Running" => src[s].loop \in {"recv", "pong", "disconnect"}
        /\ src[s].state \in {"Stopped", "Error"} => src[s].loop = "ended"
        /\ src[s].call = "start" => src[s].last.op = "start"
        /\ src[s].call \in {"send", "stop"} =>
             src[s].last.op = "stop" /\ src[s].last.result = "none"
        /\ src[s].last.op = "stop" /\ src[s].last.result = "Ok" => src[s].loop = "ended"
        /\ src[s].last.op = "start" /\ src[s].last.result = "ConnectionFailed" =>
             src[s].loop = "ended"
    BY DEF SourceTypeOK, StateTracksLoop, AnswersHold, Answered, CallRecorded
  <1> USE DEF Become, Source, Call
  <1>1. CASE Start(s)
    <2>1. CASE Become(s, [src[s] EXCEPT !.last = Calling(s, "start", "AlreadyRunning")])
      BY <2>1, <1>r, <1>1 DEF Start, Calling
    <2>2. CASE /\ src[s].loop = "none"
               /\ Become(s, [src[s] EXCEPT !.state = "Connecting", !.loop = "init", !.call = "start",
                                           !.last = Calling(s, "start", "none"), !.receiver = TRUE])
      BY <2>2, <1>r, <1>1 DEF Calling
    <2> QED
      BY <1>1, <2>1, <2>2 DEF Start
  <1>2. CASE StopCall(s)
    BY <1>2, <1>r DEF StopCall, Calling
  <1>3. CASE StartPoll(s)
    <2>1. CASE Return(s, "Ok")
      BY <2>1, <1>r, <1>3 DEF StartPoll, Return
    <2>2. CASE Return(s, "ConnectionFailed") /\ src[s].state = "Error"
      BY <2>2, <1>r, <1>3 DEF StartPoll, Return
    <2>3. src[s].call = "start" /\ ((Return(s, "Ok")) \/ (Return(s, "ConnectionFailed") /\ src[s].state = "Error"))
      BY <1>3, Zenon DEF StartPoll, Observed
    <2> QED
      BY <2>1, <2>2, <2>3
  <1>4. CASE StartTimeout(s)
    BY <1>4, <1>r DEF StartTimeout, Return
  <1>5. CASE StopSend(s)
    <2>1. CASE src[s].loop = "ended" /\ Become(s, [src[s] EXCEPT !.call = "stop"])
      BY <2>1, <1>r, <1>5 DEF StopSend
    <2>2. CASE Become(s, [src[s] EXCEPT !.call = "stop", !.token = TRUE])
      BY <2>2, <1>r, <1>5 DEF StopSend
    <2> QED
      BY <1>5, <2>1, <2>2 DEF StopSend
  <1>6. CASE StopPoll(s)
    BY <1>6, <1>r DEF StopPoll, Return
  <1>7. CASE StopTimeout(s)
    BY <1>7, <1>r DEF StopTimeout, Return
  <1>8. CASE InitSucceeds(s)
    <2>1. CASE GoTo(s, "Running", "recv")
      BY <2>1, <1>r, <1>8 DEF InitSucceeds, GoTo
    <2>2. CASE GoTo(s, src[s].state, "head")
      BY <2>2, <1>r, <1>8 DEF InitSucceeds, GoTo
    <2>3. CASE Become(s, [src[s] EXCEPT !.state = "Running", !.loop = "recv",
                                        !.requests = src[s].topics])
      BY <2>3, <1>r, <1>8 DEF InitSucceeds
    <2> QED
      BY <1>8, <2>1, <2>2, <2>3 DEF InitSucceeds
  <1>9. CASE InitFails(s)
    BY <1>9, <1>r DEF InitFails, LoopEnds
  <1>10. CASE BeginConnect(s)
    BY <1>10, <1>r DEF BeginConnect, GoTo
  <1>11. CASE ConnectSucceeds(s)
    BY <1>11, <1>r DEF ConnectSucceeds, GoTo
  <1>12. CASE ConnectFails(s)
    <2>1. CASE GoTo(s, src[s].state, "backoff")
      BY <2>1, <1>r, <1>12 DEF ConnectFails, GoTo
    <2>2. CASE LoopEnds(s, "Error")
      BY <2>2, <1>r, <1>12 DEF ConnectFails, LoopEnds
    <2> QED
      BY <1>12, <2>1, <2>2 DEF ConnectFails
  <1>13. CASE BackoffElapses(s)
    BY <1>13, <1>r DEF BackoffElapses, GoTo
  <1>14. CASE Emit(s)
    BY <1>14, <1>r DEF Emit
  <1>15. CASE ConnectionLost(s)
    <2>1. CASE LoopEnds(s, "Stopped")
      BY <2>1, <1>r, <1>15 DEF ConnectionLost, LoopEnds
    <2>2. CASE GoTo(s, "Reconnecting", "head")
      BY <2>2, <1>r, <1>15 DEF ConnectionLost, GoTo
    <2> QED
      BY <1>15, <2>1, <2>2 DEF ConnectionLost
  <1>16. CASE StreamEnds(s)
    BY <1>16, <1>r DEF StreamEnds, LoopEnds
  <1>17. CASE BrokerReads(s)
    BY <1>17, <1>r DEF BrokerReads
  <1>18. CASE SeeShutdown(s)
    <2>1. CASE Become(s, [src[s] EXCEPT !.loop = "disconnect", !.token = FALSE])
      BY <2>1, <1>r, <1>18 DEF SeeShutdown
    <2>2. CASE LoopEnds(s, "Stopped")
      BY <2>2, <1>r, <1>18 DEF SeeShutdown, LoopEnds
    <2> QED
      BY <1>18, <2>1, <2>2 DEF SeeShutdown
  <1>19. CASE Disconnected(s)
    BY <1>19, <1>r DEF Disconnected
  <1>20. CASE DropReceiver(s)
    BY <1>20, <1>r DEF DropReceiver
  <1>21. CASE Ping(s)
    BY <1>21, <1>r DEF Ping, GoTo
  <1>22. CASE PongSent(s)
    BY <1>22, <1>r DEF PongSent, GoTo
  <1>23. CASE CloseSent(s)
    BY <1>23, <1>r DEF CloseSent, LoopEnds
  <1> QED
    BY <1>1, <1>2, <1>3, <1>4, <1>5, <1>6, <1>7, <1>8, <1>9, <1>10, <1>11, <1>12,
       <1>13, <1>14, <1>15, <1>16, <1>17, <1>18, <1>19, <1>20,
       <1>21, <1>22, <1>23
       DEF Step, InStart, InStop, LoopTask

\* Only Emit sends; nothing else changes the number or the order of frames, except
\* that a channel is emptied as a whole when its receiver is dropped, or made anew
\* for a loop that had not been spawned.
LEMMA OnlyEmitSends ==
  ASSUME SourceTypeOK, NEW s \in Sources, Step(s)
  PROVE  \/ Emit(s)
         \/ /\ src'[s].sent = src[s].sent
            /\ src'[s].loop = "none" => src[s].loop = "none"
            /\ \/ chan'[s] = << >> /\ (~src'[s].receiver \/ src[s].loop = "none")
               \/ chan'[s] = chan[s] /\ src'[s].receiver = src[s].receiver
  <1>r. src \in [Sources -> Source] /\ src[s] \in Source /\ chan \in [Sources -> Seq(1..MaxFrames)]
    BY DEF SourceTypeOK
  <1> USE DEF Source, Become
  <1>1. CASE Start(s)
    <2>1. CASE Become(s, [src[s] EXCEPT !.last = Calling(s, "start", "AlreadyRunning")])
      BY <2>1, <1>r, <1>1 DEF Start, Calling
    <2>2. CASE /\ src[s].loop = "none"
               /\ Become(s, [src[s] EXCEPT !.state = "Connecting", !.loop = "init", !.call = "start",
                                           !.last = Calling(s, "start", "none"), !.receiver = TRUE])
               /\ chan' = [chan EXCEPT ![s] = << >>]
      BY <2>2, <1>r, <1>1 DEF Calling
    <2> QED
      BY <1>1, <2>1, <2>2 DEF Start
  <1>2. CASE StopCall(s)
    BY <1>2, <1>r DEF StopCall, Calling
  <1>3. CASE StartPoll(s)
    <2>1. CASE Return(s, "Ok")
      BY <2>1, <1>r, <1>3 DEF StartPoll, Return
    <2>2. CASE Return(s, "ConnectionFailed")
      BY <2>2, <1>r, <1>3 DEF StartPoll, Return
    <2> QED
      BY <1>3, <2>1, <2>2 DEF StartPoll
  <1>4. CASE StartTimeout(s)
    BY <1>4, <1>r DEF StartTimeout, Return
  <1>5. CASE StopSend(s)
    <2>1. CASE src[s].loop = "ended" /\ Become(s, [src[s] EXCEPT !.call = "stop"])
      BY <2>1, <1>r, <1>5 DEF StopSend
    <2>2. CASE Become(s, [src[s] EXCEPT !.call = "stop", !.token = TRUE])
      BY <2>2, <1>r, <1>5 DEF StopSend
    <2> QED
      BY <1>5, <2>1, <2>2 DEF StopSend
  <1>6. CASE StopPoll(s)
    BY <1>6, <1>r DEF StopPoll, Return
  <1>7. CASE StopTimeout(s)
    BY <1>7, <1>r DEF StopTimeout, Return
  <1>8. CASE InitSucceeds(s)
    <2>1. CASE GoTo(s, "Running", "recv")
      BY <2>1, <1>r, <1>8 DEF InitSucceeds, GoTo
    <2>2. CASE GoTo(s, src[s].state, "head")
      BY <2>2, <1>r, <1>8 DEF InitSucceeds, GoTo
    <2>3. CASE Become(s, [src[s] EXCEPT !.state = "Running", !.loop = "recv",
                                        !.requests = src[s].topics])
      BY <2>3, <1>r, <1>8 DEF InitSucceeds
    <2> QED
      BY <1>8, <2>1, <2>2, <2>3 DEF InitSucceeds
  <1>9. CASE InitFails(s)
    BY <1>9, <1>r DEF InitFails, LoopEnds
  <1>10. CASE BeginConnect(s)
    BY <1>10, <1>r DEF BeginConnect, GoTo
  <1>11. CASE ConnectSucceeds(s)
    BY <1>11, <1>r DEF ConnectSucceeds, GoTo
  <1>12. CASE ConnectFails(s)
    <2>1. CASE GoTo(s, src[s].state, "backoff")
      BY <2>1, <1>r, <1>12 DEF ConnectFails, GoTo
    <2>2. CASE LoopEnds(s, "Error")
      BY <2>2, <1>r, <1>12 DEF ConnectFails, LoopEnds
    <2> QED
      BY <1>12, <2>1, <2>2 DEF ConnectFails
  <1>13. CASE BackoffElapses(s)
    BY <1>13, <1>r DEF BackoffElapses, GoTo
  <1>15. CASE ConnectionLost(s)
    <2>1. CASE LoopEnds(s, "Stopped")
      BY <2>1, <1>r, <1>15 DEF ConnectionLost, LoopEnds
    <2>2. CASE GoTo(s, "Reconnecting", "head")
      BY <2>2, <1>r, <1>15 DEF ConnectionLost, GoTo
    <2> QED
      BY <1>15, <2>1, <2>2 DEF ConnectionLost
  <1>16. CASE StreamEnds(s)
    BY <1>16, <1>r DEF StreamEnds, LoopEnds
  <1>17. CASE BrokerReads(s)
    BY <1>17, <1>r DEF BrokerReads
  <1>18. CASE SeeShutdown(s)
    <2>1. CASE Become(s, [src[s] EXCEPT !.loop = "disconnect", !.token = FALSE])
      BY <2>1, <1>r, <1>18 DEF SeeShutdown
    <2>2. CASE LoopEnds(s, "Stopped")
      BY <2>2, <1>r, <1>18 DEF SeeShutdown, LoopEnds
    <2> QED
      BY <1>18, <2>1, <2>2 DEF SeeShutdown
  <1>19. CASE Disconnected(s)
    BY <1>19, <1>r DEF Disconnected
  <1>20. CASE DropReceiver(s)
    BY <1>20, <1>r DEF DropReceiver
  <1>21. CASE Ping(s)
    BY <1>21, <1>r DEF Ping, GoTo
  <1>22. CASE PongSent(s)
    BY <1>22, <1>r DEF PongSent, GoTo
  <1>23. CASE CloseSent(s)
    BY <1>23, <1>r DEF CloseSent, LoopEnds
  <1> QED
    BY <1>1, <1>2, <1>3, <1>4, <1>5, <1>6, <1>7, <1>8, <1>9, <1>10, <1>11, <1>12,
       <1>13, <1>15, <1>16, <1>17, <1>18, <1>19, <1>20,
       <1>21, <1>22, <1>23
       DEF Step, InStart, InStop, LoopTask

\* Every operation keeps the waiting frames consecutive: Emit appends the next one,
\* the others leave the channel alone or empty it.
LEMMA FramesStep ==
  ASSUME SourceTypeOK, FramesConsecutive, NEW s \in Sources, Step(s)
  PROVE  FramesConsecutive'
  <1>1. \A u \in Sources \ {s} : src'[u] = src[u] /\ chan'[u] = chan[u]
    BY StepFrame
  <1>2. SUFFICES /\ Len(chan'[s]) <= src'[s].sent
                 /\ \A i \in 1..Len(chan'[s]) : chan'[s][i] = src'[s].sent - Len(chan'[s]) + i
                 /\ ~src'[s].receiver => Len(chan'[s]) = 0
    BY <1>1 DEF FramesConsecutive
  <1>3. /\ chan[s] \in Seq(1..MaxFrames) /\ src[s].sent \in Nat
        /\ Len(chan[s]) <= src[s].sent
        /\ \A i \in 1..Len(chan[s]) : chan[s][i] = src[s].sent - Len(chan[s]) + i
        /\ ~src[s].receiver => Len(chan[s]) = 0
    BY SourceAssumption DEF SourceTypeOK, Source, Sent, FramesConsecutive
  <1>4. CASE Emit(s)
    <2>1. /\ src'[s].sent = src[s].sent + 1
          /\ src'[s].receiver = src[s].receiver
          /\ chan'[s] = IF src[s].receiver THEN Append(chan[s], src[s].sent + 1) ELSE chan[s]
      BY <1>4 DEF Emit, Become, SourceTypeOK, Source
    <2>2. CASE src[s].receiver
      BY <1>3, <2>1, <2>2
    <2>3. CASE ~src[s].receiver
      BY <1>3, <2>1, <2>3
    <2> QED
      BY <2>2, <2>3
  <1>5. CASE src'[s].sent = src[s].sent /\ chan'[s] = << >>
    BY <1>3, <1>5
  <1>6. CASE /\ src'[s].sent = src[s].sent /\ chan'[s] = chan[s]
             /\ src'[s].receiver = src[s].receiver
    BY <1>3, <1>6
  <1> QED
    BY <1>4, <1>5, <1>6, OnlyEmitSends

\* The inductive invariant holds for ever.
LEMMA SourceInvariant == SourceSpec => []SourceInv
  <1>1. SourceInv /\ [SourceNext]_sourceVars => SourceInv'
    <2> SUFFICES ASSUME SourceInv, [SourceNext]_sourceVars PROVE SourceInv'
      OBVIOUS
    <2>1. CASE SourceNext
      <3>1. PICK s \in Sources : Step(s)
        BY <2>1 DEF SourceNext, Step
      <3> QED
        BY <3>1, TypeStep, TrackStep, FramesStep DEF SourceInv
    <2>2. CASE UNCHANGED sourceVars
      BY <2>2 DEF sourceVars, SourceInv, SourceTypeOK, StateTracksLoop, AnswersHold, Answered,
                  FramesConsecutive, CallRecorded
    <2> QED
      BY <2>1, <2>2
  <1> QED
    BY <1>1, SourceInvInit, PTL DEF SourceSpec

\* What state() answers, and what start() and stop() answered, agree with where the
\* loop task is, for any number of sources of any kinds and any calls.
THEOREM SourceObservedTruly == SourceSpec => []LoopObservedTruly
  BY SourceInvariant, PTL DEF SourceInv, LoopObservedTruly

\* After a stop() that answered Ok and until the next start() no frame is sent,
\* whatever calls were made and timed out before.
THEOREM SourceQuietAfterStop == SourceSpec => QuietAfterStop
  <1>1. SourceInv /\ [SourceNext]_sourceVars =>
          [\A s \in Sources : Answered(s, "stop", "Ok") => src'[s].sent = src[s].sent]_sourceVars
    <2> SUFFICES ASSUME SourceInv, SourceNext, NEW u \in Sources, Answered(u, "stop", "Ok")
                 PROVE  src'[u].sent = src[u].sent
      OBVIOUS
    <2>1. PICK s \in Sources : Step(s)
      BY DEF SourceNext, Step
    <2>2. CASE u = s
      <3>1. ~Emit(u)
        BY DEF Emit, SourceInv, AnswersHold
      <3> QED
        BY <2>1, <2>2, <3>1, OnlyEmitSends DEF SourceInv
    <2>3. CASE u # s
      BY <2>1, <2>3, StepFrame DEF SourceInv
    <2> QED
      BY <2>2, <2>3
  <1> QED
    BY <1>1, SourceInvariant, PTL DEF SourceSpec, QuietAfterStop

------------------------------------------------------------------------------
(* The pipeline *)

\* The frames of s among the first i of a sequence of frames.
Upto(frames, s, i) == {j \in 1..i : frames[j][1] = s}

\* A loop that was not spawned has sent nothing, and nothing of it was broadcast.
NothingBefore ==
  \A s \in Sources : src[s].loop = "none" => src[s].sent = 0 /\ OutputOf(s) = 0

MergeInv ==
  /\ SourceTypeOK /\ FramesConsecutive
  /\ output \in Seq(Frame)
  /\ OutputIsMerge /\ NothingBefore

\* Which source a call waits for.
PipeInv ==
  /\ pipe \in Pipe /\ pipe.at >= 1
  /\ pipe.call \in {"startWait", "stopWait"} => pipe.at <= Len(pipe.sources)

\* What a subscriber received, will receive and its forwarder holds, in one.
Whole(got, inbox, hand) == got \o inbox \o hand

\* Where a forwarder reads.
SubsInv ==
  /\ subs \in [Subscribers -> Subscriber]
  /\ \A u \in Subscribers :
       /\ subs[u].from \in 1..subs[u].next /\ subs[u].next <= Len(output) + 1
       /\ subs[u].task = "none" =>
            /\ subs[u].got = << >> /\ subs[u].inbox = << >> /\ subs[u].hand = << >>
            /\ ~subs[u].open
  /\ SubscribersSeeStretch

------------------------------------------------------------------------------
(* Counting *)

\* OutputOf counts the whole output; both counts are numbers.
LEMMA Counts ==
  ASSUME NEW out \in Seq(Frame), NEW s
  PROVE  /\ DOMAIN out = 1..Len(out)
         /\ \A i \in Nat : IsFiniteSet(Upto(out, s, i)) /\ Cardinality(Upto(out, s, i)) \in Nat
<1>1. ASSUME NEW i \in Nat PROVE IsFiniteSet(Upto(out, s, i))
  <2>1. IsFiniteSet(1..i)
    BY FS_Interval
  <2>2. Upto(out, s, i) \subseteq 1..i
    BY DEF Upto
  <2> QED BY <2>1, <2>2, FS_Subset
<1>2. \A i \in Nat : Cardinality(Upto(out, s, i)) \in Nat
  BY <1>1, FS_CardinalityType
<1> QED BY <1>1, <1>2

\* One more frame counts for its own source, at the end.
LEMMA CountAppend ==
  ASSUME NEW out \in Seq(Frame), NEW f \in Frame, NEW s
  PROVE  LET more == Append(out, f)
             n == Len(out)
         IN  /\ \A i \in 0..n : Upto(more, s, i) = Upto(out, s, i)
             /\ Cardinality(Upto(more, s, n + 1)) =
                  Cardinality(Upto(out, s, n)) + (IF f[1] = s THEN 1 ELSE 0)
<1> DEFINE more == Append(out, f)
           n == Len(out)
<1>1. /\ n \in Nat /\ Len(more) = n + 1 /\ more[n + 1] = f
      /\ \A i \in 1..n : more[i] = out[i]
  BY AppendProperties, LenProperties
<1> HIDE DEF more, n
<1>2. \A i \in 0..n : Upto(more, s, i) = Upto(out, s, i)
  BY <1>1 DEF Upto
<1>3. CASE f[1] = s
  <2>1. Upto(more, s, n + 1) = Upto(out, s, n) \cup {n + 1}
    BY <1>1, <1>3 DEF Upto
  <2>2. n + 1 \notin Upto(out, s, n)
    BY <1>1 DEF Upto
  <2>3. IsFiniteSet(Upto(out, s, n))
    BY <1>1, Counts
  <2>4. Cardinality(Upto(out, s, n) \cup {n + 1}) = Cardinality(Upto(out, s, n)) + 1
    BY <2>2, <2>3, FS_AddElement, Zenon
  <2> QED BY <1>2, <1>3, <2>1, <2>4, Zenon DEF more, n
<1>4. CASE f[1] # s
  <2>1. Upto(more, s, n + 1) = Upto(out, s, n)
    BY <1>1, <1>4 DEF Upto
  <2>2. Cardinality(Upto(out, s, n)) \in Nat
    BY <1>1, Counts
  <2> QED BY <1>2, <1>4, <2>1, <2>2 DEF more, n
<1> QED BY <1>3, <1>4

\* OutputIsMerge in terms of these counts.
LEMMA MergeCounted ==
  ASSUME output \in Seq(Frame)
  PROVE  /\ \A s : OutputOf(s) = Cardinality(Upto(output, s, Len(output))) /\ OutputOf(s) \in Nat
         /\ OutputIsMerge <=>
              \A s \in Sources :
                /\ \A i \in 1..Len(output) :
                     output[i][1] = s => output[i][2] = Cardinality(Upto(output, s, i))
                /\ src[s].receiver => OutputOf(s) + Len(chan[s]) = src[s].sent
<1>1. DOMAIN output = 1..Len(output) /\ Len(output) \in Nat
  BY LenProperties
<1>2. ASSUME NEW s PROVE OutputOf(s) = Cardinality(Upto(output, s, Len(output)))
  BY <1>1 DEF OutputOf, Upto
<1>3. ASSUME NEW s PROVE OutputOf(s) \in Nat
  BY <1>1, <1>2, Counts
<1>4. \A s, i : Upto(output, s, i) = {j \in 1..i : output[j][1] = s}
  BY DEF Upto
<1>5. ASSUME NEW s
      PROVE  (\A i \in DOMAIN output :
                output[i][1] = s =>
                  output[i][2] = Cardinality({j \in 1..i : output[j][1] = s}))
             <=> (\A i \in 1..Len(output) :
                    output[i][1] = s => output[i][2] = Cardinality(Upto(output, s, i)))
  <2>1. \A i : Upto(output, s, i) = {j \in 1..i : output[j][1] = s}
    BY <1>4
  <2> QED BY <1>1, <2>1, Zenon
<1>6. OutputIsMerge <=>
        \A s \in Sources :
          /\ \A i \in 1..Len(output) :
               output[i][1] = s => output[i][2] = Cardinality(Upto(output, s, i))
          /\ src[s].receiver => OutputOf(s) + Len(chan[s]) = src[s].sent
  BY <1>5, Zenon DEF OutputIsMerge
<1> QED BY <1>2, <1>3, <1>6, Zenon

------------------------------------------------------------------------------
(* The merge *)

\* What one source does to its own frames, with the output as it is.
LEMMA OneSource ==
  ASSUME MergeInv, output' = output, NEW s \in Sources, SourceTypeOK', FramesConsecutive',
         \A u \in Sources \ {s} : src'[u] = src[u] /\ chan'[u] = chan[u],
         src'[s].receiver => OutputOf(s) + Len(chan'[s]) = src'[s].sent,
         src'[s].loop = "none" => src[s].loop = "none" /\ src'[s].sent = src[s].sent
  PROVE  MergeInv'
<1>1. \A u : OutputOf(u)' = OutputOf(u)
  BY DEF OutputOf
<1>2. OutputIsMerge'
  <2>1. SUFFICES ASSUME NEW u \in Sources
                 PROVE  /\ \A i \in DOMAIN output : output[i][1] = u =>
                             output[i][2] = Cardinality({j \in 1..i : output[j][1] = u})
                        /\ src'[u].receiver => OutputOf(u) + Len(chan'[u]) = src'[u].sent
    BY <1>1 DEF OutputIsMerge
  <2> QED BY Zenon DEF MergeInv, OutputIsMerge
<1>3. NothingBefore'
  BY <1>1, Zenon DEF MergeInv, NothingBefore
<1> QED BY <1>2, <1>3 DEF MergeInv

\* A step of a source, whoever takes it.
LEMMA SourceSteps ==
  ASSUME MergeInv, output' = output, NEW s \in Sources, Step(s)
  PROVE  MergeInv'
<1>1. SourceTypeOK' /\ FramesConsecutive'
  BY TypeStep, FramesStep DEF MergeInv
<1>2. \A u \in Sources \ {s} : src'[u] = src[u] /\ chan'[u] = chan[u]
  BY StepFrame DEF MergeInv
<1>3. /\ chan[s] \in Seq(1..MaxFrames) /\ src[s].sent \in Nat /\ OutputOf(s) \in Nat
      /\ src[s].receiver => OutputOf(s) + Len(chan[s]) = src[s].sent
      /\ src[s].loop = "none" => src[s].sent = 0 /\ OutputOf(s) = 0
  BY SourceAssumption, MergeCounted
  DEF MergeInv, OutputIsMerge, NothingBefore, SourceTypeOK, Source, Sent
<1>4. CASE Emit(s)
  <2>1. /\ src'[s].sent = src[s].sent + 1 /\ src'[s].receiver = src[s].receiver
        /\ src'[s].loop # "none"
        /\ chan'[s] = IF src[s].receiver THEN Append(chan[s], src[s].sent + 1) ELSE chan[s]
    BY <1>4 DEF Emit, Become, MergeInv, SourceTypeOK, Source
  <2>2. src[s].receiver => Len(chan'[s]) = Len(chan[s]) + 1
    BY <1>3, <2>1
  <2>3. ASSUME src'[s].receiver PROVE OutputOf(s) + Len(chan'[s]) = src'[s].sent
    <3>1. src[s].receiver
      BY <2>1, <2>3, Zenon
    <3>2. OutputOf(s) + Len(chan[s]) = src[s].sent /\ Len(chan'[s]) = Len(chan[s]) + 1
      BY <1>3, <2>2, <3>1, Zenon
    <3>3. Len(chan[s]) \in Nat
      BY <1>3
    <3>4. src'[s].sent = src[s].sent + 1 /\ src[s].sent \in Nat /\ OutputOf(s) \in Nat
      BY <1>3, <2>1, Zenon
    <3> QED BY <3>2, <3>3, <3>4
  <2> QED BY <1>1, <1>2, <2>1, <2>3, OneSource, Zenon
<1>5. CASE /\ src'[s].sent = src[s].sent
           /\ src'[s].loop = "none" => src[s].loop = "none"
           /\ \/ chan'[s] = << >> /\ (~src'[s].receiver \/ src[s].loop = "none")
              \/ chan'[s] = chan[s] /\ src'[s].receiver = src[s].receiver
  <2>1. ASSUME src'[s].receiver PROVE OutputOf(s) + Len(chan'[s]) = src'[s].sent
    <3>1. CASE chan'[s] = << >> /\ src[s].loop = "none"
      BY <1>3, <1>5, <3>1
    <3>2. CASE chan'[s] = chan[s] /\ src[s].receiver
      BY <1>3, <1>5, <3>2
    <3> QED BY <1>5, <2>1, <3>1, <3>2, Zenon
  <2> QED BY <1>1, <1>2, <1>5, <2>1, OneSource
<1>6. SourceTypeOK
  BY DEF MergeInv
<1> QED BY <1>4, <1>5, <1>6, OnlyEmitSends

\* Receivers are dropped, with what their channels hold.
LEMMA Dropped ==
  ASSUME MergeInv, output' = output, NEW D \in SUBSET Sources,
         src' = [s \in Sources |-> IF s \in D THEN [src[s] EXCEPT !.receiver = FALSE] ELSE src[s]],
         chan' = [s \in Sources |-> IF s \in D THEN << >> ELSE chan[s]]
  PROVE  MergeInv'
<1>1. SourceTypeOK'
  <2>1. \A s \in Sources : src[s] \in Source /\ [src[s] EXCEPT !.receiver = FALSE] \in Source
    BY Zenon DEF MergeInv, SourceTypeOK, Source
  <2>2. \A s \in Sources : chan[s] \in Seq(1..MaxFrames) /\ << >> \in Seq(1..MaxFrames)
    BY DEF MergeInv, SourceTypeOK
  <2> QED BY <2>1, <2>2, Zenon DEF SourceTypeOK
<1>2. \A s \in Sources : /\ src'[s].sent = src[s].sent /\ src'[s].loop = src[s].loop
                         /\ src[s].sent \in Nat
  BY SourceAssumption DEF MergeInv, SourceTypeOK, Source, Sent
<1>3. \A s \in Sources : \/ chan'[s] = << >> /\ ~src'[s].receiver
                         \/ chan'[s] = chan[s] /\ src'[s] = src[s]
  BY DEF MergeInv, SourceTypeOK, Source
<1>4. FramesConsecutive'
  <2>1. SUFFICES ASSUME NEW s \in Sources
                 PROVE  /\ Len(chan'[s]) <= src'[s].sent
                        /\ \A i \in 1..Len(chan'[s]) : chan'[s][i] = src'[s].sent - Len(chan'[s]) + i
                        /\ ~src'[s].receiver => Len(chan'[s]) = 0
    BY DEF FramesConsecutive
  <2>2. CASE chan'[s] = << >>
    BY <1>2, <2>2
  <2>3. CASE chan'[s] = chan[s] /\ src'[s] = src[s]
    BY <2>3 DEF MergeInv, FramesConsecutive
  <2> QED BY <1>3, <2>2, <2>3
<1>5. \A u : OutputOf(u)' = OutputOf(u)
  BY DEF OutputOf
<1>6. OutputIsMerge'
  <2>1. SUFFICES ASSUME NEW u \in Sources
                 PROVE  /\ \A i \in DOMAIN output : output[i][1] = u =>
                             output[i][2] = Cardinality({j \in 1..i : output[j][1] = u})
                        /\ src'[u].receiver => OutputOf(u) + Len(chan'[u]) = src'[u].sent
    BY <1>5 DEF OutputIsMerge
  <2> QED BY <1>3, Zenon DEF MergeInv, OutputIsMerge
<1>7. NothingBefore'
  BY <1>2, <1>5, Zenon DEF MergeInv, NothingBefore
<1> QED BY <1>1, <1>4, <1>6, <1>7 DEF MergeInv

\* The merge loop takes the next frame of s, which is the next one of s to be broadcast.
LEMMA MergeStep ==
  ASSUME MergeInv, NEW s \in Sources, Merge(s)
  PROVE  MergeInv' /\ \E f \in Frame : output' = Append(output, f)
<1> DEFINE f == <<s, Head(chan[s])>>
<1>1. /\ chan[s] \in Seq(1..MaxFrames) /\ chan[s] # << >> /\ src[s].sent \in Nat
      /\ output' = Append(output, f) /\ src' = src /\ chan' = [chan EXCEPT ![s] = Tail(@)]
      /\ src[s].receiver
  BY SourceAssumption DEF Merge, MergeInv, SourceTypeOK, Source, Sent
<1>2. /\ Head(chan[s]) \in 1..MaxFrames /\ Tail(chan[s]) \in Seq(1..MaxFrames)
      /\ Len(Tail(chan[s])) = Len(chan[s]) - 1 /\ Len(chan[s]) \in Nat \ {0}
      /\ \A i \in 1..Len(Tail(chan[s])) : Tail(chan[s])[i] = chan[s][i + 1]
      /\ Head(chan[s]) = chan[s][1]
  <2>1. Head(chan[s]) = chan[s][1] /\ Len(chan[s]) \in Nat \ {0}
    BY <1>1
  <2> QED BY <1>1, <2>1, HeadTailProperties, Zenon
<1>3. f \in Frame /\ f[1] = s /\ f[2] = Head(chan[s])
  BY <1>2 DEF Frame
<1> HIDE DEF f
<1>4. /\ output' \in Seq(Frame) /\ Len(output') = Len(output) + 1 /\ Len(output) \in Nat
      /\ \A i \in 1..Len(output) : output'[i] = output[i]
      /\ output'[Len(output) + 1] = f
  BY <1>1, <1>3, AppendProperties, LenProperties DEF MergeInv
<1>5. SourceTypeOK'
  BY <1>1, <1>2 DEF MergeInv, SourceTypeOK
<1>6. /\ chan'[s] = Tail(chan[s])
      /\ \A u \in Sources \ {s} : chan'[u] = chan[u]
  BY <1>1 DEF MergeInv, SourceTypeOK
<1>7. FramesConsecutive'
  <2>1. SUFFICES ASSUME NEW u \in Sources
                 PROVE  /\ Len(chan'[u]) <= src'[u].sent
                        /\ \A i \in 1..Len(chan'[u]) : chan'[u][i] = src'[u].sent - Len(chan'[u]) + i
                        /\ ~src'[u].receiver => Len(chan'[u]) = 0
    BY DEF FramesConsecutive
  <2>2. CASE u # s
    BY <1>1, <1>6, <2>2 DEF MergeInv, FramesConsecutive
  <2>3. CASE u = s
    <3>1. /\ Len(chan[s]) <= src[s].sent
          /\ \A i \in 1..Len(chan[s]) : chan[s][i] = src[s].sent - Len(chan[s]) + i
      BY DEF MergeInv, FramesConsecutive
    <3>2. src'[s].sent = src[s].sent /\ src'[s].receiver
      BY <1>1, Zenon
    <3>3. /\ Len(chan'[s]) = Len(chan[s]) - 1
          /\ \A i \in 1..Len(chan'[s]) : chan'[s][i] = chan[s][i + 1] /\ i + 1 \in 1..Len(chan[s])
      BY <1>2, <1>6
    <3>4. /\ Len(chan'[s]) <= src'[s].sent
          /\ \A i \in 1..Len(chan'[s]) : chan'[s][i] = src'[s].sent - Len(chan'[s]) + i
      <4>1. src[s].sent \in Nat /\ Len(chan[s]) \in Nat \ {0} /\ src'[s].sent = src[s].sent
        BY <1>1, <1>2, <3>2, Zenon
      <4> QED BY <3>1, <3>3, <4>1
    <3> QED BY <2>3, <3>2, <3>4, Zenon
  <2> QED BY <2>2, <2>3
<1>8. ASSUME NEW u \in Sources
      PROVE  /\ \A i \in 0..Len(output) : Upto(output', u, i) = Upto(output, u, i)
             /\ OutputOf(u)' = OutputOf(u) + (IF u = s THEN 1 ELSE 0)
             /\ OutputOf(u) \in Nat
             /\ OutputOf(u)' = Cardinality(Upto(output', u, Len(output) + 1))
  <2>1. /\ OutputOf(u) = Cardinality(Upto(output, u, Len(output))) /\ OutputOf(u) \in Nat
    BY MergeCounted DEF MergeInv
  <2>2. OutputOf(u)' = Cardinality(Upto(output', u, Len(output')))
    BY <1>4, LenProperties DEF OutputOf, Upto
  <2> QED BY <1>1, <1>3, <1>4, <2>1, <2>2, CountAppend DEF MergeInv
<1>9. OutputIsMerge'
  <2>1. SUFFICES ASSUME NEW u \in Sources
                 PROVE  /\ \A i \in 1..Len(output') :
                             output'[i][1] = u => output'[i][2] = Cardinality(Upto(output', u, i))
                        /\ src'[u].receiver => OutputOf(u)' + Len(chan'[u]) = src'[u].sent
    <3>1. DOMAIN output' = 1..Len(output')
      BY <1>4, LenProperties
    <3> QED BY <3>1 DEF OutputIsMerge, Upto
  <2>2. /\ \A i \in 1..Len(output) : output[i][1] = u => output[i][2] = Cardinality(Upto(output, u, i))
        /\ src[u].receiver => OutputOf(u) + Len(chan[u]) = src[u].sent
    BY MergeCounted DEF MergeInv
  <2>3. ASSUME NEW i \in 1..Len(output), output'[i][1] = u
        PROVE  output'[i][2] = Cardinality(Upto(output', u, i))
    BY <1>4, <1>8, <2>2, <2>3
  <2>4. ASSUME f[1] = u PROVE f[2] = Cardinality(Upto(output', u, Len(output) + 1))
    <3>1. u = s /\ Head(chan[s]) = src[s].sent - Len(chan[s]) + 1
      BY <1>2, <1>3, <2>4 DEF MergeInv, FramesConsecutive
    <3> QED BY <1>1, <1>2, <1>3, <1>8, <2>2, <3>1
  <2>5. ASSUME src'[u].receiver PROVE OutputOf(u)' + Len(chan'[u]) = src'[u].sent
    <3>1. src[u].receiver /\ src'[u].sent = src[u].sent
      BY <1>1, <2>5, Zenon
    <3>2. OutputOf(u) + Len(chan[u]) = src[u].sent
      BY <2>2, <3>1, Zenon
    <3>3. CASE u = s
      <4>1. /\ Len(chan'[s]) = Len(chan[s]) - 1 /\ Len(chan[s]) \in Nat
            /\ OutputOf(s)' = OutputOf(s) + 1 /\ OutputOf(s) \in Nat
        BY <1>2, <1>6, <1>8
      <4>2. src'[s].sent = src[s].sent /\ OutputOf(s) + Len(chan[s]) = src[s].sent
        BY <3>1, <3>2, <3>3, Zenon
      <4>3. OutputOf(s)' + Len(chan'[s]) = src'[s].sent
        BY <4>1, <4>2
      <4> QED BY <3>3, <4>3
    <3>4. CASE u # s
      BY <1>6, <1>8, <3>1, <3>2, <3>4
    <3> QED BY <3>3, <3>4
  <2> QED BY <1>4, <2>3, <2>4, <2>5
<1>10. NothingBefore'
  <2>1. src[s].loop # "none"
    <3>1. Len(chan[s]) <= src[s].sent
      BY DEF MergeInv, FramesConsecutive
    <3> QED BY <1>1, <1>2, <3>1 DEF MergeInv, NothingBefore
  <2> QED BY <1>1, <1>8, <2>1 DEF MergeInv, NothingBefore
<1> QED BY <1>1, <1>3, <1>4, <1>5, <1>7, <1>9, <1>10 DEF MergeInv

------------------------------------------------------------------------------
(* The subscribers *)

\* What was read stays what it is when a frame is broadcast.
LEMMA StretchesKept ==
  ASSUME SubsInv, subs' = subs, output \in Seq(Frame),
         output' = output \/ \E f \in Frame : output' = Append(output, f)
  PROVE  SubsInv'
<1>1. CASE output' = output
  BY <1>1, Zenon DEF SubsInv, SubscribersSeeStretch
<1>2. ASSUME NEW f \in Frame, output' = Append(output, f) PROVE SubsInv'
  <2>1. /\ Len(output) \in Nat /\ Len(output') = Len(output) + 1
        /\ output' \in Seq(Frame)
        /\ \A i \in 1..Len(output) : output'[i] = output[i] /\ output[i] \in Frame
    BY <1>2, AppendProperties, LenProperties, ElementOfSeq
  <2>2. ASSUME NEW m \in Nat \ {0}, NEW n \in Nat, n <= Len(output)
        PROVE  SubSeq(output', m, n) = SubSeq(output, m, n)
    <3>1. \A i \in m..n : i \in 1..Len(output)
      BY <2>1, <2>2
    <3>2. /\ SubSeq(output, m, n) \in Seq(Frame)
          /\ Len(SubSeq(output, m, n)) = IF m <= n THEN n - m + 1 ELSE 0
          /\ \A i \in 1..(n - m + 1) : SubSeq(output, m, n)[i] = output[m + i - 1]
      BY <2>1, <3>1, SubSeqProperties
    <3>3. /\ SubSeq(output', m, n) \in Seq(Frame)
          /\ Len(SubSeq(output', m, n)) = IF m <= n THEN n - m + 1 ELSE 0
          /\ \A i \in 1..(n - m + 1) : SubSeq(output', m, n)[i] = output'[m + i - 1]
      BY <2>1, <3>1, SubSeqProperties
    <3>4. \A i \in 1..Len(SubSeq(output, m, n)) :
            i \in 1..(n - m + 1) /\ m + i - 1 \in 1..Len(output)
      BY <2>1, <2>2, <3>2
    <3>5. \A i \in 1..Len(SubSeq(output, m, n)) : SubSeq(output', m, n)[i] = SubSeq(output, m, n)[i]
      BY <2>1, <3>2, <3>3, <3>4, Zenon
    <3> QED BY <3>2, <3>3, <3>5, SeqEqual, Zenon
  <2>3. ASSUME NEW u \in Subscribers
        PROVE  /\ subs[u].from \in 1..subs[u].next /\ subs[u].next <= Len(output') + 1
               /\ SubSeq(output', subs[u].from, subs[u].next - 1)
                    = SubSeq(output, subs[u].from, subs[u].next - 1)
    <3>1. /\ subs[u].from \in 1..subs[u].next /\ subs[u].next <= Len(output) + 1
          /\ subs[u].next \in Nat
      BY DEF SubsInv, Subscriber
    <3>2. subs[u].from \in Nat \ {0} /\ subs[u].next - 1 \in Nat /\ subs[u].next - 1 <= Len(output)
      BY <2>1, <3>1
    <3>3. SubSeq(output', subs[u].from, subs[u].next - 1) = SubSeq(output, subs[u].from, subs[u].next - 1)
      BY <2>2, <3>2, Zenon
    <3>4. subs[u].next <= Len(output') + 1
      BY <2>1, <3>1
    <3> QED BY <3>1, <3>3, <3>4, SMTT(20)
  <2> QED BY <1>2, <2>3, Zenon DEF SubsInv, SubscribersSeeStretch
<1> QED BY <1>1, <1>2

\* One subscriber's record changes.
LEMMA OneSubscriber ==
  ASSUME SubsInv, output' = output, NEW u \in Subscribers, NEW r \in Subscriber,
         subs' = [subs EXCEPT ![u] = r],
         r.from \in 1..r.next, r.next <= Len(output) + 1, r.task # "none",
         r.open => Whole(r.got, r.inbox, r.hand) = SubSeq(output, r.from, r.next - 1)
  PROVE  SubsInv'
<1>1. subs'[u] = r /\ \A v \in Subscribers \ {u} : subs'[v] = subs[v]
  BY DEF SubsInv
<1>2. subs' \in [Subscribers -> Subscriber]
  BY DEF SubsInv
<1> QED BY <1>1, <1>2, Zenon DEF SubsInv, SubscribersSeeStretch, Whole

\* A frame passed on, and one received, leave the whole as it was.
LEMMA PassedOn ==
  ASSUME NEW g \in Seq(Frame), NEW i \in Seq(Frame), NEW h \in Seq(Frame)
  PROVE  /\ i \o h \in Seq(Frame)
         /\ Whole(g, i \o h, << >>) = Whole(g, i, h)
         /\ i # << >> => Whole(Append(g, Head(i)), Tail(i), h) = Whole(g, i, h)
<1>1. i \o h \in Seq(Frame) /\ g \o (i \o h) \in Seq(Frame)
  BY ConcatProperties
<1>2. (g \o (i \o h)) \o << >> = g \o (i \o h)
  BY <1>1, ConcatEmptySeq
<1>3. (g \o i) \o h = g \o (i \o h)
  BY ConcatAssociative
<1>4. ASSUME i # << >> PROVE Append(g, Head(i)) \o Tail(i) = g \o i
  <2>1. Head(i) \in Frame /\ Tail(i) \in Seq(Frame)
    BY <1>4, HeadTailProperties
  <2>2. Append(g, Head(i)) = g \o <<Head(i)>> /\ <<Head(i)>> \in Seq(Frame)
    BY <2>1, AppendIsConcat
  <2>3. <<Head(i)>> \o Tail(i) = i
    BY <1>4
  <2>4. (g \o <<Head(i)>>) \o Tail(i) = g \o (<<Head(i)>> \o Tail(i))
    BY <2>1, <2>2, ConcatAssociative
  <2> QED BY <2>2, <2>3, <2>4, Zenon
<1>5. Whole(g, i \o h, << >>) = Whole(g, i, h)
  BY <1>2, <1>3 DEF Whole
<1>6. ASSUME i # << >> PROVE Whole(Append(g, Head(i)), Tail(i), h) = Whole(g, i, h)
  BY <1>4, <1>6, Zenon DEF Whole
<1> QED BY <1>1, <1>5, <1>6

\* A forwarder that has passed its frame on is still a forwarder.
LEMMA EmptyHanded ==
  ASSUME NEW b \in Subscriber, NEW q \in Seq(Frame)
  PROVE  LET r == [b EXCEPT !.inbox = q, !.hand = << >>]
         IN  /\ r \in Subscriber /\ r.task = b.task /\ r.open = b.open /\ r.from = b.from /\ r.next = b.next
             /\ r.got = b.got /\ r.inbox = q /\ r.hand = << >>
<1>1. << >> \in Seq(Frame)
  OBVIOUS
<1> QED BY <1>1, Zenon DEF Subscriber

\* subscribe(), the forwarding task and the subscriber itself.
LEMMA SubscriberStep ==
  ASSUME SubsInv, output \in Seq(Frame), NEW u \in Subscribers,
         Subscribe(u) \/ Forwarding(u) \/ Receive(u) \/ Unsubscribe(u)
  PROVE  SubsInv'
<1> DEFINE b == subs[u]
           next == subs[u].next
<1>1. /\ b \in Subscriber /\ b.got \in Seq(Frame) /\ b.inbox \in Seq(Frame) /\ b.hand \in Seq(Frame)
      /\ b.from \in Nat /\ next \in Nat
      /\ b.from \in 1..next /\ next <= Len(output) + 1
      /\ b.task = "none" => b.got = << >> /\ b.inbox = << >> /\ b.hand = << >> /\ ~b.open
      /\ b.open => Whole(b.got, b.inbox, b.hand) = SubSeq(output, b.from, next - 1)
      /\ Len(output) \in Nat
  BY LenProperties, Zenon DEF SubsInv, SubscribersSeeStretch, Subscriber, Whole
<1>t. b \in Subscriber
  BY <1>1
<1>2. output' = output
  BY Zenon DEF Subscribe, Forwarding, ForwarderReads, ForwarderSends, ForwarderFails, Lagged, Receive, Unsubscribe
<1>3. CASE Subscribe(u)
  <2> DEFINE r == [b EXCEPT !.task = "forwarding", !.open = TRUE, !.from = Len(output) + 1, !.next = Len(output) + 1]
  <2>1. subs' = [subs EXCEPT ![u] = r]
    BY <1>3, Zenon DEF Subscribe
  <2>2. r \in Subscriber /\ r.task = "forwarding" /\ r.from = Len(output) + 1
        /\ r.next = Len(output) + 1 /\ r.got = b.got /\ r.inbox = b.inbox /\ r.hand = b.hand
    <3>1. Len(output) + 1 \in Nat
      BY <1>1
    <3> QED BY <1>t, <3>1, Zenon DEF Subscriber
  <2>3. SubSeq(output, Len(output) + 1, Len(output) + 1 - 1) = << >>
    BY <1>1, SubSeqEmpty
  <2>4. Whole(r.got, r.inbox, r.hand) = << >>
    <3>1. r.got = << >> /\ r.inbox = << >> /\ r.hand = << >>
      BY <1>1, <1>3, <2>2 DEF Subscribe
    <3>2. << >> \o << >> \o << >> = << >>
      OBVIOUS
    <3> QED BY <3>1, <3>2, Zenon DEF Whole
  <2>5. r.from \in 1..r.next /\ r.next <= Len(output) + 1
    BY <1>1, <2>2
  <2> HIDE DEF r
  <2>6. Whole(r.got, r.inbox, r.hand) = SubSeq(output, r.from, r.next - 1)
    BY <2>2, <2>3, <2>4
  <2> QED BY <1>2, <2>1, <2>2, <2>5, <2>6, OneSubscriber, Zenon
<1>4. CASE ForwarderReads(u)
  <2> DEFINE r == [b EXCEPT !.hand = <<output[next]>>, !.next = next + 1]
  <2>1. subs' = [subs EXCEPT ![u] = r] /\ b.task = "forwarding" /\ b.hand = << >>
    BY <1>4, Zenon DEF ForwarderReads
  <2>2. next \in 1..Len(output)
    <3>1. Len(output) + 1 - next >= 1
      BY <1>4, PipelineAssumption DEF ForwarderReads, Behind
    <3>2. next \in Nat /\ next >= 1 /\ Len(output) \in Nat
      BY <1>1
    <3> HIDE DEF next
    <3> QED BY <3>1, <3>2
  <2>3. output[next] \in Frame
    BY <2>2, ElementOfSeq
  <2>4. r \in Subscriber /\ r.task = "forwarding" /\ r.open = b.open /\ r.from = b.from /\ r.next = next + 1
        /\ r.got = b.got /\ r.inbox = b.inbox /\ r.hand = <<output[next]>>
    <3>1. next + 1 \in Nat /\ <<output[next]>> \in Seq(Frame) /\ b.task = "forwarding"
      BY <1>1, <2>1, <2>3
    <3> QED BY <1>t, <3>1, Zenon DEF Subscriber
  <2>5. b.from \in 1..Len(output) /\ next \in b.from..Len(output)
    BY <1>1, <2>2
  <2>6. SubSeq(output, b.from, next) = SubSeq(output, b.from, next - 1) \o <<output[next]>>
    BY <2>5, SubSeqRecursiveSecond, Zenon
  <2>7. ASSUME b.open PROVE b.got \o b.inbox = SubSeq(output, b.from, next - 1)
    <3>1. b.got \o b.inbox \in Seq(Frame)
      BY <1>1, ConcatProperties
    <3>2. (b.got \o b.inbox) \o << >> = b.got \o b.inbox
      BY <3>1, ConcatEmptySeq
    <3> QED BY <1>1, <2>1, <2>7, <3>2, Zenon DEF Whole
  <2>8. r.from \in 1..r.next /\ r.next <= Len(output) + 1 /\ r.next - 1 = next
    BY <1>1, <2>2, <2>4, SMTT(20)
  <2> HIDE DEF r
  <2>9. r.open => Whole(r.got, r.inbox, r.hand) = SubSeq(output, r.from, r.next - 1)
    BY <2>4, <2>6, <2>7, <2>8, Zenon DEF Whole
  <2> QED BY <1>2, <2>1, <2>4, <2>8, <2>9, OneSubscriber, Zenon
<1>5. CASE ForwarderSends(u)
  <2> DEFINE r == [b EXCEPT !.inbox = b.inbox \o b.hand, !.hand = << >>]
  <2>1. subs' = [subs EXCEPT ![u] = r] /\ b.task = "forwarding"
    BY <1>5, Zenon DEF ForwarderSends
  <2>2. /\ b.inbox \o b.hand \in Seq(Frame)
        /\ Whole(b.got, b.inbox \o b.hand, << >>) = Whole(b.got, b.inbox, b.hand)
    BY <1>1, PassedOn, SMTT(20)
  <2>3. r \in Subscriber /\ r.task = "forwarding" /\ r.open = b.open /\ r.from = b.from /\ r.next = next
        /\ r.got = b.got /\ r.inbox = b.inbox \o b.hand /\ r.hand = << >>
    BY <1>t, <2>1, <2>2, EmptyHanded, ZenonT(30)
  <2>4. Whole(r.got, r.inbox, r.hand) = Whole(b.got, b.inbox, b.hand)
    BY <2>2, <2>3, Zenon
  <2> HIDE DEF r
  <2>5. r.open => Whole(r.got, r.inbox, r.hand) = SubSeq(output, r.from, r.next - 1)
    BY <1>1, <2>2, <2>3, <2>4, Zenon
  <2>6. r.from \in 1..r.next /\ r.next <= Len(output) + 1
    BY <1>1, <2>3
  <2> QED BY <1>2, <2>1, <2>3, <2>5, <2>6, OneSubscriber, Zenon
<1>6. CASE Lagged(u)
  <2> DEFINE r == [b EXCEPT !.task = "ended"]
  <2>1. subs' = [subs EXCEPT ![u] = r]
    BY <1>6 DEF Lagged
  <2>2. r \in Subscriber /\ r.task = "ended" /\ r.open = b.open /\ r.from = b.from /\ r.next = next
        /\ r.got = b.got /\ r.inbox = b.inbox /\ r.hand = b.hand
    BY <1>1, Zenon DEF Subscriber
  <2> HIDE DEF r
  <2> QED BY <1>1, <1>2, <2>1, <2>2, OneSubscriber, Zenon
<1>7. CASE Receive(u)
  <2> DEFINE r == [b EXCEPT !.got = Append(b.got, Head(b.inbox)), !.inbox = Tail(b.inbox)]
  <2>1. subs' = [subs EXCEPT ![u] = r] /\ b.inbox # << >> /\ b.task # "none"
    BY <1>1, <1>7, Zenon DEF Receive
  <2>2. Head(b.inbox) \in Frame /\ Tail(b.inbox) \in Seq(Frame)
    BY <1>1, <2>1, HeadTailProperties
  <2>3. Append(b.got, Head(b.inbox)) \in Seq(Frame)
    BY <1>1, <2>2, AppendProperties
  <2>4. r \in Subscriber /\ r.task = b.task /\ r.open = b.open /\ r.from = b.from /\ r.next = next
        /\ r.got = Append(b.got, Head(b.inbox)) /\ r.inbox = Tail(b.inbox) /\ r.hand = b.hand
    BY <1>1, <2>2, <2>3, Zenon DEF Subscriber
  <2>5. Whole(Append(b.got, Head(b.inbox)), Tail(b.inbox), b.hand) = Whole(b.got, b.inbox, b.hand)
    BY <1>1, <2>1, PassedOn, SMTT(20)
  <2> HIDE DEF r
  <2>6. r.open => Whole(r.got, r.inbox, r.hand) = SubSeq(output, r.from, r.next - 1)
    BY <1>1, <2>4, <2>5, Zenon
  <2> QED BY <1>1, <1>2, <2>1, <2>4, <2>6, OneSubscriber, Zenon
<1>8. CASE ForwarderFails(u)
  <2> DEFINE r == [b EXCEPT !.task = "ended", !.hand = << >>]
  <2>1. subs' = [subs EXCEPT ![u] = r] /\ ~b.open
    BY <1>8, Zenon DEF ForwarderFails
  <2>2. << >> \in Seq(Frame)
    OBVIOUS
  <2>3. r \in Subscriber /\ r.task = "ended" /\ r.open = b.open /\ r.from = b.from /\ r.next = next
    BY <1>t, <2>2, Zenon DEF Subscriber
  <2> HIDE DEF r
  <2> QED BY <1>1, <1>2, <2>1, <2>3, OneSubscriber, Zenon
<1>9. CASE Unsubscribe(u)
  <2> DEFINE r == [b EXCEPT !.open = FALSE, !.inbox = << >>]
  <2>1. subs' = [subs EXCEPT ![u] = r] /\ b.task # "none"
    BY <1>1, <1>9, Zenon DEF Unsubscribe
  <2>2. << >> \in Seq(Frame)
    OBVIOUS
  <2>3. r \in Subscriber /\ r.task = b.task /\ ~r.open /\ r.from = b.from /\ r.next = next
    BY <1>t, <2>2, Zenon DEF Subscriber
  <2> HIDE DEF r
  <2> QED BY <1>1, <1>2, <2>1, <2>3, OneSubscriber, Zenon
<1> QED BY <1>3, <1>4, <1>5, <1>6, <1>7, <1>8, <1>9 DEF Forwarding

------------------------------------------------------------------------------
(* The calls *)

\* What start() and stop() do to the pipeline's own fields.
OwnFields ==
  \/ Owner \/ Calls \/ MergeShutdown \/ pipe' = pipe

\* A record of the pipeline with some fields replaced is one.
LEMMA PipeShape ==
  ASSUME pipe \in Pipe
  PROVE  /\ pipe.at \in Nat /\ pipe.sources \in Seq(Sources) /\ Len(pipe.sources) \in Nat
         /\ \A q \in Seq(Sources) : [pipe EXCEPT !.sources = q] \in Pipe
  BY LenProperties DEF Pipe, SourceState

\* A call waits for a source the pipeline has.
LEMMA PipeStep ==
  ASSUME PipeInv, OwnFields
  PROVE  PipeInv'
<1>1. /\ pipe \in Pipe /\ pipe.at \in Nat /\ pipe.at >= 1
      /\ pipe.sources \in Seq(Sources) /\ Len(pipe.sources) \in Nat
  BY PipeShape DEF PipeInv
<1>2. ASSUME NEW s \in Sources, AddSource(s) PROVE PipeInv'
  <2>1. Append(pipe.sources, s) \in Seq(Sources)
    BY <1>1, AppendProperties
  <2>2. pipe' = [pipe EXCEPT !.sources = Append(pipe.sources, s)] /\ pipe.call = "none"
    BY <1>2 DEF AddSource
  <2>3. pipe' \in Pipe /\ pipe'.at = pipe.at /\ pipe'.call = "none"
    BY <1>1, <2>1, <2>2, Zenon DEF Pipe
  <2> QED BY <1>1, <2>3 DEF PipeInv
<1>3. CASE StartPipeline
  <2>1. pipe' = [pipe EXCEPT !.state = "Connecting", !.call = "starting", !.at = 1]
    BY <1>3 DEF StartPipeline
  <2>2. pipe' \in Pipe /\ pipe'.at = 1 /\ pipe'.call = "starting"
    BY <1>1, <2>1, Zenon DEF Pipe, SourceState
  <2> QED BY <2>2 DEF PipeInv
<1>4. CASE StartSource
  BY <1>1, <1>4 DEF StartSource, PipeInv, Pipe
<1>5. CASE SourceStarted
  <2>1. \/ pipe' = [pipe EXCEPT !.at = pipe.at + 1, !.call = "starting"]
        \/ pipe' = [pipe EXCEPT !.call = "none"]
    BY <1>5 DEF SourceStarted
  <2>2. pipe.at + 1 \in Nat /\ pipe.at + 1 >= 1
    BY <1>1
  <2>3. pipe' \in Pipe /\ pipe'.at \in {pipe.at, pipe.at + 1} /\ pipe'.call \in {"starting", "none"}
    BY <1>1, <2>1, <2>2, Zenon DEF Pipe
  <2> QED BY <1>1, <2>2, <2>3 DEF PipeInv
<1>6. CASE SpawnMerge
  BY <1>1, <1>6, Zenon DEF SpawnMerge, PipeInv, Pipe
<1>7. CASE StartReturns
  BY <1>1, <1>7, Zenon DEF StartReturns, PipeInv, Pipe, SourceState
<1>8. CASE StopPipeline
  BY <1>1, <1>8 DEF StopPipeline, PipeInv, Pipe
<1>9. CASE SendShutdown
  <2>1. pipe' = [pipe EXCEPT !.token = (pipe.loop # "ended"), !.call = "stopping", !.at = 1,
                             !.early = @ \/ pipe.loop = "none"]
    BY <1>9 DEF SendShutdown
  <2>2. pipe' \in Pipe /\ pipe'.at = 1 /\ pipe'.call = "stopping"
    BY <1>1, <2>1, Zenon DEF Pipe
  <2> QED BY <2>2 DEF PipeInv
<1>10. CASE StopSource
  BY <1>1, <1>10 DEF StopSource, PipeInv, Pipe
<1>11. CASE SourceStopped
  <2>1. pipe' = [pipe EXCEPT !.at = pipe.at + 1, !.call = "stopping"]
    BY <1>11 DEF SourceStopped
  <2>2. pipe.at + 1 \in Nat /\ pipe.at + 1 >= 1
    BY <1>1
  <2>3. pipe' \in Pipe /\ pipe'.at = pipe.at + 1 /\ pipe'.call = "stopping"
    BY <1>1, <2>1, <2>2, Zenon DEF Pipe
  <2> QED BY <2>2, <2>3 DEF PipeInv
<1>12. CASE StopReturnsOk
  BY <1>1, <1>12, Zenon DEF StopReturnsOk, PipeInv, Pipe, SourceState
<1>13. CASE MergeShutdown
  BY <1>1, <1>13, Zenon DEF MergeShutdown, PipeInv, Pipe, SourceState
<1>14. CASE pipe' = pipe
  BY <1>14 DEF PipeInv
<1> QED
  BY <1>2, <1>3, <1>4, <1>5, <1>6, <1>7, <1>8, <1>9, <1>10, <1>11, <1>12, <1>13, <1>14, SMTT(20)
  DEF OwnFields, Owner, Calls

\* Without an early stop(): no message waits for a loop that was not spawned, nor
\* for the one start() has just spawned.
RunInv ==
  ~pipe.early =>
    /\ pipe.loop = "none" => ~pipe.token
    /\ pipe.call = "spawned" => pipe.loop = "merging" /\ ~pipe.token
    /\ pipe.state = "Running" => pipe.loop = "merging"

\* Only stop() leaves a message, and start() finds none of its own making.
LEMMA RunStep ==
  ASSUME PipeInv, RunInv, OwnFields
  PROVE  RunInv'
<1>1. pipe \in Pipe
  BY DEF PipeInv
<1> USE DEF RunInv, Pipe
<1>2. CASE \E s \in Sources : AddSource(s)
  BY <1>1, <1>2 DEF AddSource
<1>3. CASE StartPipeline
  BY <1>1, <1>3 DEF StartPipeline
<1>4. CASE StartSource
  BY <1>1, <1>4 DEF StartSource
<1>5. CASE SourceStarted
  BY <1>1, <1>5 DEF SourceStarted
<1>6. CASE SpawnMerge
  BY <1>1, <1>6 DEF SpawnMerge
<1>7. CASE StartReturns
  BY <1>1, <1>7 DEF StartReturns
<1>8. CASE StopPipeline
  BY <1>1, <1>8 DEF StopPipeline
<1>9. CASE SendShutdown
  BY <1>1, <1>9 DEF SendShutdown
<1>10. CASE StopSource
  BY <1>1, <1>10 DEF StopSource
<1>11. CASE SourceStopped
  BY <1>1, <1>11 DEF SourceStopped
<1>12. CASE StopReturnsOk
  BY <1>1, <1>12 DEF StopReturnsOk
<1>13. CASE MergeShutdown
  BY <1>1, <1>13 DEF MergeShutdown
<1>14. CASE pipe' = pipe
  BY <1>14
<1> QED
  BY <1>2, <1>3, <1>4, <1>5, <1>6, <1>7, <1>8, <1>9, <1>10, <1>11, <1>12, <1>13, <1>14
  DEF OwnFields, Owner, Calls

------------------------------------------------------------------------------
(* The whole *)

PipelineInv == MergeInv /\ PipeInv /\ RunInv /\ SubsInv

\* A new pipeline has broadcast nothing.
LEMMA PipelineStart == PipelineInit => PipelineInv
<1> SUFFICES ASSUME PipelineInit PROVE PipelineInv
  OBVIOUS
<1>1. output = << >> /\ output \in Seq(Frame) /\ Len(output) = 0 /\ DOMAIN output = {}
  BY DEF PipelineInit
<1>2. SourceTypeOK /\ FramesConsecutive
  BY SourceInvInit DEF PipelineInit, SourceInv
<1>3. \A s \in Sources : src[s].sent = 0 /\ ~src[s].receiver
  BY DEF PipelineInit, SourceInit, NewSource
<1>4. \A s : OutputOf(s) = 0
  <2>1. \A s : {i \in DOMAIN output : output[i][1] = s} = {}
    BY <1>1
  <2> QED BY <2>1, FS_EmptySet DEF OutputOf
<1>5. OutputIsMerge /\ NothingBefore
  BY <1>1, <1>3, <1>4 DEF OutputIsMerge, NothingBefore
<1>6. PipeInv /\ RunInv
  BY DEF PipelineInit, NewPipe, PipeInv, RunInv, Pipe, SourceState
<1>7. SubsInv
  <2>1. /\ NewSubscriber \in Subscriber
        /\ NewSubscriber.from = 1 /\ NewSubscriber.next = 1
        /\ NewSubscriber.got = << >> /\ NewSubscriber.inbox = << >> /\ NewSubscriber.hand = << >>
        /\ ~NewSubscriber.open
    BY DEF NewSubscriber, Subscriber
  <2>2. \A u \in Subscribers : subs[u] = NewSubscriber
    BY DEF PipelineInit
  <2>3. subs \in [Subscribers -> Subscriber]
    BY <2>1 DEF PipelineInit
  <2>4. SubSeq(output, 1, 1 - 1) = << >>
    BY <1>1, SubSeqEmpty
  <2>5. << >> \o << >> \o << >> = << >>
    OBVIOUS
  <2>6. SubscribersSeeStretch
    BY <2>1, <2>2, <2>4, <2>5, Zenon DEF SubscribersSeeStretch
  <2>7. \A u \in Subscribers : subs[u].from \in 1..subs[u].next /\ subs[u].next <= Len(output) + 1
    BY <1>1, <2>1, <2>2
  <2> QED BY <2>1, <2>2, <2>3, <2>6, <2>7, Zenon DEF SubsInv
<1> QED BY <1>1, <1>2, <1>5, <1>6, <1>7 DEF PipelineInv, MergeInv

\* The source a call is about is one of Sources.
LEMMA CurrentIsSource ==
  ASSUME PipeInv, pipe.at <= Len(pipe.sources)
  PROVE  Current \in Sources
<1>1. pipe.sources \in Seq(Sources) /\ pipe.at \in Nat /\ pipe.at >= 1 /\ Len(pipe.sources) \in Nat
  BY PipeShape DEF PipeInv
<1>2. pipe.at \in 1..Len(pipe.sources)
  BY <1>1
<1> QED BY <1>1, <1>2, ElementOfSeq DEF Current

\* Steps that touch neither sources nor output keep the merge.
LEMMA MergeKept ==
  ASSUME MergeInv, src' = src, chan' = chan, output' = output
  PROVE  MergeInv'
<1>1. SourceTypeOK' /\ FramesConsecutive' /\ output' \in Seq(Frame)
  BY DEF MergeInv, SourceTypeOK, FramesConsecutive
<1>2. OutputIsMerge'
  BY Zenon DEF MergeInv, OutputIsMerge, OutputOf
<1>3. NothingBefore'
  BY Zenon DEF MergeInv, NothingBefore, OutputOf
<1> QED BY <1>1, <1>2, <1>3 DEF MergeInv

\* start() and stop() leave the frames in order, the dropped receiver of a
\* source that failed to start included.
LEMMA CallsKeepFrames ==
  ASSUME PipelineInv, Calls
  PROVE  MergeInv' /\ output' = output /\ subs' = subs
<1>1. output' = output /\ subs' = subs
  BY DEF Calls, StartSource, SourceStarted, StopSource, SourceStopped, SpawnMerge, StartReturns,
         SendShutdown, StopReturnsOk
<1>2. CASE StartSource \/ StopSource
  <2>1. pipe.at <= Len(pipe.sources) /\ (Start(Current) \/ StopCall(Current))
    BY <1>2 DEF StartSource, StopSource
  <2>2. Current \in Sources
    BY <2>1, CurrentIsSource DEF PipelineInv
  <2>3. Step(Current)
    BY <2>1 DEF Step
  <2> QED BY <1>1, <2>2, <2>3, SourceSteps DEF PipelineInv
<1>3. CASE SourceStarted
  <2>1. Current \in Sources
    BY <1>3, CurrentIsSource DEF PipelineInv, PipeInv, SourceStarted
  <2>2. CASE src' = src /\ chan' = chan
    BY <1>1, <2>2, MergeKept DEF PipelineInv
  <2>3. CASE /\ src' = [src EXCEPT ![Current].receiver = FALSE]
             /\ chan' = [chan EXCEPT ![Current] = << >>]
    <3>1. src = [s \in Sources |-> src[s]] /\ chan = [s \in Sources |-> chan[s]]
      BY DEF PipelineInv, MergeInv, SourceTypeOK
    <3>2. src' = [s \in Sources |->
                    IF s \in {Current} THEN [src[s] EXCEPT !.receiver = FALSE] ELSE src[s]]
      BY <2>1, <2>3, <3>1, Zenon
    <3>3. chan' = [s \in Sources |-> IF s \in {Current} THEN << >> ELSE chan[s]]
      BY <2>1, <2>3, <3>1
    <3>4. {Current} \in SUBSET Sources
      BY <2>1
    <3> QED BY <1>1, <3>2, <3>3, <3>4, Dropped, Zenon DEF PipelineInv
  <2> QED BY <1>3, <2>2, <2>3, Zenon DEF SourceStarted
<1>4. CASE src' = src /\ chan' = chan
  BY <1>1, <1>4, MergeKept DEF PipelineInv
<1> QED
  BY <1>1, <1>2, <1>3, <1>4
  DEF Calls, SourceStopped, SpawnMerge, StartReturns, SendShutdown, StopReturnsOk

\* Every step of the pipeline keeps the invariant.
LEMMA PipelineStep ==
  ASSUME PipelineInv, [PipelineNext]_pipeVars
  PROVE  PipelineInv'
<1>1. /\ MergeInv /\ PipeInv /\ RunInv /\ SubsInv /\ output \in Seq(Frame)
  BY DEF PipelineInv, MergeInv
<1>2. CASE UNCHANGED pipeVars
  <2>1. src' = src /\ chan' = chan /\ pipe' = pipe /\ output' = output /\ subs' = subs
    BY <1>2 DEF pipeVars
  <2> QED BY <1>1, <2>1, MergeKept, PipeStep, RunStep, StretchesKept DEF OwnFields, PipelineInv
<1>3. CASE Owner
  <2>1. src' = src /\ chan' = chan /\ output' = output /\ subs' = subs
    BY <1>3 DEF Owner, AddSource, StartPipeline, StopPipeline
  <2> QED BY <1>1, <1>3, <2>1, MergeKept, PipeStep, RunStep, StretchesKept DEF OwnFields, PipelineInv
<1>4. CASE Calls
  BY <1>1, <1>4, CallsKeepFrames, PipeStep, RunStep, StretchesKept DEF OwnFields, PipelineInv
<1>5. ASSUME NEW s \in Sources, OwnSteps(s) PROVE PipelineInv'
  <2>1. Step(s) /\ pipe' = pipe /\ output' = output /\ subs' = subs
    BY <1>5 DEF OwnSteps, Step
  <2> QED BY <1>1, <2>1, SourceSteps, PipeStep, RunStep, StretchesKept DEF OwnFields, PipelineInv
<1>6. ASSUME NEW s \in Sources, Merge(s) PROVE PipelineInv'
  <2>1. pipe' = pipe /\ subs' = subs
    BY <1>6 DEF Merge
  <2> QED BY <1>1, <1>6, <2>1, MergeStep, PipeStep, RunStep, StretchesKept DEF OwnFields, PipelineInv
<1>7. CASE MergeShutdown
  <2>1. output' = output /\ subs' = subs
    BY <1>7 DEF MergeShutdown
  <2>2. src' = [s \in Sources |-> IF s \in Sources THEN [src[s] EXCEPT !.receiver = FALSE] ELSE src[s]]
    BY <1>7 DEF MergeShutdown
  <2>3. chan' = [s \in Sources |-> IF s \in Sources THEN << >> ELSE chan[s]]
    BY <1>7 DEF MergeShutdown
  <2>4. MergeInv'
    BY <1>1, <2>1, <2>2, <2>3, Dropped, Zenon
  <2> QED BY <1>1, <1>7, <2>1, <2>4, PipeStep, RunStep, StretchesKept DEF OwnFields, PipelineInv
<1>8. ASSUME NEW u \in Subscribers,
             Subscribe(u) \/ Forwarding(u) \/ Receive(u) \/ Unsubscribe(u)
      PROVE  PipelineInv'
  <2>1. src' = src /\ chan' = chan /\ pipe' = pipe /\ output' = output
    BY <1>8, Zenon DEF Subscribe, Forwarding, ForwarderReads, ForwarderSends, ForwarderFails,
                     Lagged, Receive, Unsubscribe
  <2>2. SubsInv'
    BY <1>1, <1>8, SubscriberStep
  <2> QED BY <1>1, <2>1, <2>2, MergeKept, PipeStep, RunStep DEF OwnFields, PipelineInv
<1> QED BY <1>2, <1>3, <1>4, <1>5, <1>6, <1>7, <1>8, SMTT(20) DEF PipelineNext

\* The invariant holds of every behaviour.
LEMMA PipelineInvariant == PipelineSpec => []PipelineInv
<1>1. PipelineInv /\ [PipelineNext]_pipeVars => PipelineInv'
  BY PipelineStep
<1> QED BY PipelineStart, <1>1, PTL DEF PipelineSpec

\* However many sources and subscribers there are, and however starts, stops,
\* failures and lags fall between the frames: the merge loop broadcasts the
\* frames of each source whole and in order, and a subscriber receives an
\* unbroken stretch of what was broadcast (pipeline.rs:256-262, 363-381).
THEOREM PipelineKeepsOrder == PipelineSpec => []FramesKeepOrder
<1>1. PipelineInv => FramesKeepOrder
  BY DEF PipelineInv, MergeInv, SubsInv, FramesKeepOrder
<1> QED BY <1>1, PipelineInvariant, PTL

\* Only a stop() that came before the merge loop makes the pipeline say Running
\* when its loop has ended (pipeline.rs:317).
THEOREM PipelineRunsWhenItSays == PipelineSpec => []RunningMeansMerging
<1>1. PipelineInv => RunningMeansMerging
  BY DEF PipelineInv, RunInv, RunningMeansMerging
<1> QED BY <1>1, PipelineInvariant, PTL
==============================================================================
