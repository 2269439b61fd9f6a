------------------------- MODULE MCTelemetryPipeline -------------------------
(****************************************************************************)
(* Small pipelines, in three worlds: a source of any kind that sends one    *)
(* frame; two sources of which the second sends one frame; and a UDP source *)
(* with a subscriber.                                                       *)
(****************************************************************************)
EXTENDS TelemetryPipeline

CONSTANTS s1, s2
VARIABLE world

mcVars == <<world, pipeVars>>

InWorld(w) == CASE w = "kinds"    -> {s1}
                [] w = "pair"     -> {s1, s2}
                [] w = "listener" -> {s1}

MCInit ==
  /\ PipelineInit
  /\ src[s2].kind = "kafka" /\ src[s2].topics = 1
  /\ world \in {"kinds", "pair", "listener"}
  /\ world # "kinds" => src[s1].kind = "udp"
  /\ src[s1].kind # "mqtt" => src[s1].topics = 1

MCNext ==
  /\ PipelineNext
  /\ {pipe'.sources[i] : i \in DOMAIN pipe'.sources} \subseteq InWorld(world)
  /\ world # "listener" => subs' = subs
  /\ world = "kinds" => src'[s1].sent <= 1
  /\ world = "pair"  => src'[s2].sent <= 1 /\ ~pipe'.early
  /\ UNCHANGED world

MCSpec == MCInit /\ [][MCNext]_mcVars /\ PipelineFairness
==============================================================================
