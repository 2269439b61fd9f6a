-------------------------- MODULE TelemetryPipeline --------------------------
(***************************************************************************)
(* TelemetryPipeline of crates/pitgun-core: it owns the sources, starts    *)
(* and stops them one after the other, merges their frames in one task and *)
(* broadcasts the result to subscribers, each served by a forwarding task. *)
(*                                                                         *)
(* The processors the crate ships pass every frame on and are not wired    *)
(* into the merge loop; they are left out.                                 *)
(***************************************************************************)
EXTENDS TelemetrySource

CONSTANTS Subscribers,
          MaxSources,        \* PipelineConfig::max_sources
          ChannelCapacity    \* PipelineConfig::channel_capacity

ASSUME PipelineAssumption ==
  /\ MaxSources \in Nat
  /\ ChannelCapacity \in Nat \ {0}

VARIABLES
  pipe,      \* the pipeline's fields
  output,    \* history: the frames broadcast so far
  subs       \* per subscriber, the forwarding task and both its channels

pipeVars == <<src, chan, pipe, output, subs>>

Frame == Sources \X (1..MaxFrames)

\* call: where start() or stop() stands; "startWait" and "stopWait" while it
\* awaits the call of source number `at`.  early: history, stop() sent its message
\* before there was a merge loop.
Pipe == [state : SourceState, loop : {"none", "merging", "ended"}, token : BOOLEAN,
         sources : Seq(Sources), at : Nat, early : BOOLEAN,
         call : {"none", "starting", "startWait", "spawned", "send", "stopping", "stopWait"}]

NewPipe == [state |-> "Stopped", loop |-> "none", token |-> FALSE, sources |-> << >>,
            at |-> 1, early |-> FALSE, call |-> "none"]

Added == {pipe.sources[i] : i \in DOMAIN pipe.sources}

\* from, next: the forwarder reads the broadcast from position `from` on and
\* has read up to `next`.  hand: the frame it waits to pass on.  open: the
\* subscriber holds its receiver.  inbox: the subscriber's channel.  got: history
\* of what the subscriber received.
Subscriber == [task : {"none", "forwarding", "ended"}, open : BOOLEAN, from : Nat, next : Nat,
               hand : Seq(Frame), inbox : Seq(Frame), got : Seq(Frame)]

NewSubscriber == [task |-> "none", open |-> FALSE, from |-> 1, next |-> 1,
                  hand |-> << >>, inbox |-> << >>, got |-> << >>]

PipelineInit ==
  /\ SourceInit
  /\ pipe = NewPipe
  /\ output = << >>
  /\ subs = [u \in Subscribers |-> NewSubscriber]

------------------------------------------------------------------------------
(* add_source and start(), by the owner *)

\* Refused beyond max_sources; never refused because the pipeline runs.
AddSource(s) ==
  /\ pipe.call = "none" /\ s \notin Added
  /\ Len(pipe.sources) < MaxSources
  /\ pipe' = [pipe EXCEPT !.sources = Append(@, s)]
  /\ UNCHANGED <<src, chan, output, subs>>

\* Refused when Running or without sources.
StartPipeline ==
  /\ pipe.call = "none"
  /\ pipe.state # "Running" /\ pipe.sources # << >>
  /\ pipe' = [pipe EXCEPT !.state = "Connecting", !.call = "starting", !.at = 1]
  /\ UNCHANGED <<src, chan, output, subs>>

Current == pipe.sources[pipe.at]

StartSource ==
  /\ pipe.call = "starting" /\ pipe.at <= Len(pipe.sources)
  /\ Start(Current)
  /\ pipe' = [pipe EXCEPT !.call = "startWait"]
  /\ UNCHANGED <<output, subs>>

\* source.start() returned.  On an error start() returns it at once: the
\* sources already started keep running and the state stays Connecting.  The
\* receiver made for this source is dropped; one made by an earlier start()
\* is not.
SourceStarted ==
  /\ pipe.call = "startWait" /\ src[Current].call = "none"
  /\ LET result == src[Current].last.result IN
       /\ pipe' = IF result = "Ok"
                  THEN [pipe EXCEPT !.at = @ + 1, !.call = "starting"]
                  ELSE [pipe EXCEPT !.call = "none"]
       /\ IF result \in {"Ok", "AlreadyRunning"}
          THEN UNCHANGED <<src, chan>>
          ELSE /\ src' = [src EXCEPT ![Current].receiver = FALSE]
               /\ chan' = [chan EXCEPT ![Current] = << >>]
  /\ UNCHANGED <<output, subs>>

\* shutdown_rx is taken and the merge loop spawned.
SpawnMerge ==
  /\ pipe.call = "starting" /\ pipe.at > Len(pipe.sources)
  /\ pipe' = IF pipe.loop = "none"
             THEN [pipe EXCEPT !.loop = "merging", !.call = "spawned"]
             ELSE [pipe EXCEPT !.call = "none"]
  /\ UNCHANGED <<src, chan, output, subs>>

\* Only now does start() write Running, whatever the merge loop did meanwhile.
StartReturns ==
  /\ pipe.call = "spawned"
  /\ pipe' = [pipe EXCEPT !.state = "Running", !.call = "none"]
  /\ UNCHANGED <<src, chan, output, subs>>

------------------------------------------------------------------------------
(* stop(), by the owner *)

StopPipeline ==
  /\ pipe.call = "none"
  /\ pipe' = [pipe EXCEPT !.call = "send"]
  /\ UNCHANGED <<src, chan, output, subs>>

SendShutdown ==
  /\ pipe.call = "send"
  /\ pipe.loop = "ended" \/ ~pipe.token
  /\ pipe' = [pipe EXCEPT !.token = (pipe.loop # "ended"), !.call = "stopping", !.at = 1,
                          !.early = @ \/ pipe.loop = "none"]
  /\ UNCHANGED <<src, chan, output, subs>>

StopSource ==
  /\ pipe.call = "stopping" /\ pipe.at <= Len(pipe.sources)
  /\ StopCall(Current)
  /\ pipe' = [pipe EXCEPT !.call = "stopWait"]
  /\ UNCHANGED <<output, subs>>

\* source.stop() returned; an error is ignored.
SourceStopped ==
  /\ pipe.call = "stopWait" /\ src[Current].call = "none"
  /\ pipe' = [pipe EXCEPT !.at = @ + 1, !.call = "stopping"]
  /\ UNCHANGED <<src, chan, output, subs>>

\* Stopped was seen, or the polls ran out and Stopped is written here.
StopReturnsOk ==
  /\ pipe.call = "stopping" /\ pipe.at > Len(pipe.sources)
  /\ pipe' = [pipe EXCEPT !.state = "Stopped", !.call = "none"]
  /\ UNCHANGED <<src, chan, output, subs>>

------------------------------------------------------------------------------
(* merge_loop *)

\* Mutant: a frame stays queued when another receiver's future is dropped.
MergeKeeps(s) ==
  /\ pipe.loop = "merging" /\ chan[s] # << >>
  /\ output' = Append(output, <<s, Head(chan[s])>>)
  /\ chan' = IF \E t \in Sources \ {s} : chan[t] # << >> THEN chan ELSE [chan EXCEPT ![s] = Tail(@)]
  /\ UNCHANGED <<src, pipe, subs>>

\* The next frame of any source.  Dropping the other futures loses nothing:
\* recv() is cancellation safe.
Merge(s) ==
  /\ pipe.loop = "merging" /\ chan[s] # << >> /\ src[s].receiver
  /\ output' = Append(output, <<s, Head(chan[s])>>)
  /\ chan' = [chan EXCEPT ![s] = Tail(@)]
  /\ UNCHANGED <<src, pipe, subs>>

\* MUTANT of MergeShutdown: the loop ends without a word.
MergeShutdownSilent ==
  /\ pipe.loop = "merging" /\ pipe.token
  /\ pipe' = [pipe EXCEPT !.loop = "ended", !.token = FALSE]
  /\ src' = [s \in Sources |-> [src[s] EXCEPT !.receiver = FALSE]]
  /\ chan' = [s \in Sources |-> << >>]
  /\ UNCHANGED <<output, subs>>

\* The loop ends, drops its receivers with what they hold, and writes Stopped.
MergeShutdown ==
  /\ pipe.loop = "merging" /\ pipe.token
  /\ pipe' = [pipe EXCEPT !.loop = "ended", !.token = FALSE, !.state = "Stopped"]
  /\ src' = [s \in Sources |-> [src[s] EXCEPT !.receiver = FALSE]]
  /\ chan' = [s \in Sources |-> << >>]
  /\ UNCHANGED <<output, subs>>

------------------------------------------------------------------------------
(* subscribe() and the forwarding task *)

Subscribe(u) ==
  /\ pipe.call = "none" /\ subs[u].task = "none"
  /\ subs' = [subs EXCEPT ![u].task = "forwarding", ![u].open = TRUE,
                          ![u].from = Len(output) + 1, ![u].next = Len(output) + 1]
  /\ UNCHANGED <<src, chan, pipe, output>>

Behind(u) == Len(output) + 1 - subs[u].next

\* Mutant: a forwarder exactly one buffer behind is not served.
ForwarderReadsBelow(u) ==
  /\ subs[u].task = "forwarding" /\ subs[u].hand = << >>
  /\ Behind(u) \in 1..(ChannelCapacity - 1)
  /\ subs' = [subs EXCEPT ![u].hand = <<output[subs[u].next]>>, ![u].next = @ + 1]
  /\ UNCHANGED <<src, chan, pipe, output>>

\* broadcast_rx.recv() yields the next frame.
ForwarderReads(u) ==
  /\ subs[u].task = "forwarding" /\ subs[u].hand = << >>
  /\ Behind(u) \in 1..ChannelCapacity
  /\ subs' = [subs EXCEPT ![u].hand = <<output[subs[u].next]>>, ![u].next = @ + 1]
  /\ UNCHANGED <<src, chan, pipe, output>>

\* recv() yields Lagged, which ends the `while let Ok`: the subscriber is cut off.
Lagged(u) ==
  /\ subs[u].task = "forwarding" /\ subs[u].hand = << >>
  /\ Behind(u) > ChannelCapacity
  /\ subs' = [subs EXCEPT ![u].task = "ended"]
  /\ UNCHANGED <<src, chan, pipe, output>>

\* tx.send(frame).await waits for room in the subscriber's channel.
ForwarderSends(u) ==
  /\ subs[u].task = "forwarding" /\ subs[u].hand # << >> /\ subs[u].open
  /\ Len(subs[u].inbox) < ChannelCapacity
  /\ subs' = [subs EXCEPT ![u].inbox = @ \o subs[u].hand, ![u].hand = << >>]
  /\ UNCHANGED <<src, chan, pipe, output>>

\* tx.send fails once the subscriber has dropped its receiver: the task breaks off.
ForwarderFails(u) ==
  /\ subs[u].task = "forwarding" /\ subs[u].hand # << >> /\ ~subs[u].open
  /\ subs' = [subs EXCEPT ![u].task = "ended", ![u].hand = << >>]
  /\ UNCHANGED <<src, chan, pipe, output>>

\* The subscriber drops its receiver, with what it holds.
Unsubscribe(u) ==
  /\ subs[u].open
  /\ subs' = [subs EXCEPT ![u].open = FALSE, ![u].inbox = << >>]
  /\ UNCHANGED <<src, chan, pipe, output>>

\* The subscriber takes a frame.
Receive(u) ==
  /\ subs[u].inbox # << >>
  /\ subs' = [subs EXCEPT ![u].got = Append(@, Head(subs[u].inbox)), ![u].inbox = Tail(@)]
  /\ UNCHANGED <<src, chan, pipe, output>>

------------------------------------------------------------------------------
Owner ==
  \/ \E s \in Sources : AddSource(s)
  \/ StartPipeline
  \/ StopPipeline

Calls ==
  \/ StartSource \/ SourceStarted \/ StopSource \/ SourceStopped
  \/ SpawnMerge \/ StartReturns
  \/ SendShutdown \/ StopReturnsOk

OwnSteps(s) == (InStart(s) \/ InStop(s) \/ LoopTask(s)) /\ UNCHANGED <<pipe, output, subs>>

Forwarding(u) == ForwarderReads(u) \/ ForwarderSends(u) \/ ForwarderFails(u) \/ Lagged(u)

PipelineNext ==
  \/ Owner \/ Calls
  \/ \E s \in Sources : OwnSteps(s) \/ Merge(s)
  \/ MergeShutdown
  \/ \E u \in Subscribers : Subscribe(u) \/ Forwarding(u) \/ Receive(u) \/ Unsubscribe(u)

PipelineSpec == PipelineInit /\ [][PipelineNext]_pipeVars

\* Nothing is assumed of the owner, of subscribers, of the sources' peers or of the
\* arrival of frames, and not that the merge loop serves every source: it lists
\* them in the same order each turn, so that one which is always ready, or closed,
\* may keep the others waiting.
PipelineFairness ==
  /\ WF_pipeVars(Calls)
  /\ SF_pipeVars(MergeShutdown)
  /\ \A s \in Sources :
       /\ WF_pipeVars(InStart(s) /\ UNCHANGED <<pipe, output, subs>>)
       /\ WF_pipeVars(InStop(s) /\ UNCHANGED <<pipe, output, subs>>)
       /\ WF_pipeVars((InitSucceeds(s) \/ InitFails(s)) /\ UNCHANGED <<pipe, output, subs>>)
       /\ WF_pipeVars(BeginConnect(s) /\ UNCHANGED <<pipe, output, subs>>)
       /\ WF_pipeVars((BackoffElapses(s) \/ SeeShutdown(s)) /\ UNCHANGED <<pipe, output, subs>>)
       /\ SF_pipeVars(SeeShutdown(s) /\ UNCHANGED <<pipe, output, subs>>)
       /\ WF_pipeVars(Disconnected(s) /\ UNCHANGED <<pipe, output, subs>>)
  /\ \A u \in Subscribers : WF_pipeVars(Forwarding(u))

FairPipelineSpec == PipelineSpec /\ PipelineFairness

------------------------------------------------------------------------------
(* Properties *)

\* How many frames of s were broadcast.
OutputOf(s) == Cardinality({i \in DOMAIN output : output[i][1] = s})

\* The output holds, of each source, its first frames in the order in which they
\* were sent, without gap or repetition; and as long as the receiver lives, the
\* others wait in the channel (pipeline.rs:363-381).
OutputIsMerge ==
  \A s \in Sources :
    /\ \A i \in DOMAIN output :
         output[i][1] = s =>
           output[i][2] = Cardinality({j \in 1..i : output[j][1] = s})
    /\ src[s].receiver => OutputOf(s) + Len(chan[s]) = src[s].sent

\* What a subscriber has received, or will find in its channel, is an unbroken
\* stretch of the output from the moment it subscribed, as long as it holds its
\* receiver: a subscriber that lags is cut off, never served with a gap
\* (pipeline.rs:256-262).
SubscribersSeeStretch ==
  \A u \in Subscribers :
    subs[u].open => subs[u].got \o subs[u].inbox \o subs[u].hand = SubSeq(output, subs[u].from, subs[u].next - 1)

\* start() writes Running after it has spawned the merge loop, which may already
\* have ended on a message that an early stop() left in the channel (pipeline.rs:317).
\* Nothing else makes a pipeline say Running when its merge loop has ended.
RunningMeansMerging ==
  (pipe.state = "Running" /\ ~pipe.early) => pipe.loop = "merging"

\* Frames in order and whole, from the sources' channels to the subscribers.
FramesKeepOrder == OutputIsMerge /\ SubscribersSeeStretch

\* The merge loop and the loop of every added source were spawned.
Started == pipe.loop # "none" /\ \A s \in Added : src[s].loop # "none"

\* Once stop() of a pipeline whose sources were all started reaches its sources,
\* the merge loop ends, and so does the loop of every source it has, unless a source
\* awaits its peer for ever (pipeline.rs:322-329).
WindsDown ==
  /\ (pipe.call = "stopping" /\ Started) ~> (pipe.loop = "ended")
  /\ \A s \in Sources :
       (pipe.call = "stopping" /\ Started /\ s \in Added)
         ~> (src[s].loop = "ended" \/ \E t \in Sources : []AwaitsPeer(t))

\* The subscriber holds its receiver and is being served.
Listening(u) == subs[u].open /\ subs[u].task = "forwarding"

\* Every frame broadcast while a subscriber listens, the nth say, is put into its
\* channel, unless the subscriber is cut off, drops its receiver or from some
\* moment on leaves its channel full for ever (pipeline.rs:256-262).
Delivered ==
  \A u \in Subscribers, n \in 1..(Cardinality(Sources) * MaxFrames) :
    (Listening(u) /\ n \in subs[u].from..Len(output)) ~>
      \/ subs[u].from + Len(subs[u].got) + Len(subs[u].inbox) > n
      \/ ~Listening(u)
      \/ [](Len(subs[u].inbox) = ChannelCapacity)
==============================================================================
