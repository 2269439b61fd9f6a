---------------------------- MODULE MCBundleStore ----------------------------
(***************************************************************************)
(* Bundles of two runs of one scenario, one of another scenario, and       *)
(* scenarios that do not run; up to three processes on one destination.    *)
(***************************************************************************)
EXTENDS BundleStore, TLC

\* Parameter 1 is the speed.  Seed 1 gives two batches, the second one shorter; its last frame
\* has no usable speed.
Frame(i, samples) == [ts |-> 10 * i, sequence |-> i, events |-> i % 2, samples |-> samples]
MCFrames(request, seed) ==
  CASE request = "silent" -> <<Frame(1, 1 :> None)>>
    [] request = "refused" -> None
    [] seed = 1 -> <<Frame(1, 1 :> 3), Frame(2, 1 :> 5 @@ 2 :> 7), Frame(3, 1 :> None)>>
    [] OTHER -> <<Frame(1, 1 :> 4), Frame(2, 1 :> 2)>>
MCOutput(request, seed) == <<request, seed>>

Scenario(request, clock, model) ==
  [kind |-> "scenario", scenario |-> "s", model |-> model, pack |-> "p", clock |-> clock, request |-> request]
Tick == [numerator |-> 3, denominator |-> 2]
Lap == Scenario("lap", Tick, "V1")

\* One file is lost, torn, or taken from the bundle of another run; or one document is changed,
\* and its digest in the manifest with it.
Other == Evidence(Lap, 2)
Rebound(files, f, content) ==
  (f :> content)
    @@ ("manifest" :> IF f = "receipt" THEN [files["manifest"] EXCEPT !.receipt = content]
                      ELSE [files["manifest"] EXCEPT !.references[f] = content])
    @@ files
Altered(f, content) ==
  CASE f = "scenario" -> [content EXCEPT !.request = "other"]
    [] f = "contract" -> [content EXCEPT !.seed = 7]
    [] f = "output" -> [content EXCEPT !.laps = <<"lap", 7>>]
    [] f = "telemetry" -> [content EXCEPT !.records[1].frame.samples = 1 :> 9]
    [] f = "summary" -> [content EXCEPT !.events = 9]
    [] f = "metrics" -> [content EXCEPT !.list[1].value = 9]
    [] f = "receipt" -> [content EXCEPT !.summary = Other.summary]
    [] f = "manifest" -> [content EXCEPT !.run = RunId(Other.contract)]
CanonicalNames == Range(CanonicalFiles)
EditsOf == {"lost", "torn", "altered", "rebound"}
AllEdits == EditsOf \X Range(Files)
MCEdited(name, files) ==
  LET f == name[2]
  IN  CASE name[1] = "lost" -> [g \in DOMAIN files \ {f} |-> files[g]]
        [] name[1] = "torn" -> (f :> Garbage) @@ files
        [] name[1] = "altered" -> (f :> Altered(f, files[f])) @@ files
        [] name[1] = "rebound" ->
             IF f = "manifest" THEN [g \in DOMAIN files |-> IF g \in CanonicalNames THEN Other[g] ELSE files[g]]
             ELSE Rebound(files, f, Altered(f, files[f]))

Demo(seed) == [kind |-> "demo", scenario |-> Lap, seed |-> seed, destination |-> "d", result |-> None]
RunBatch(scenario, seed, d) == [kind |-> "run", scenario |-> scenario, seed |-> seed, destination |-> d, result |-> "r"]
ReplayOf == [kind |-> "replay", destination |-> "d"]
World(commands, edits, limit, at) ==
  [commands |-> commands, edits |-> edits, faults |-> limit, directory |-> "d" :> at]

TheWorlds ==
  { World(<<Demo(1), Demo(1)>>, {}, 2, Absent),
    World(<<Demo(1), Demo(2)>>, {}, 2, Absent),
    World(<<Demo(1), RunBatch(Lap, 1, "d")>>, AllEdits, 1, Absent),
    World(<<Demo(1), ReplayOf>>, AllEdits, 1, Absent),
    World(<<RunBatch(Lap, 2, "d"), RunBatch(Lap, 1, None)>>, {}, 1, EmptyDirectory),
    World(<<Demo(2), RunBatch(Scenario("silent", Tick, "V1"), 1, "d")>>, {}, 1, NotADirectory),
    World(<<RunBatch(Scenario("refused", Tick, "V1"), 1, "d"),
            RunBatch(Scenario("lap", Tick, "V2"), 1, "d")>>, {}, 1, Absent),
    World(<<RunBatch(Scenario("lap", [numerator |-> 4, denominator |-> 2], "V1"), 1, "d"),
            RunBatch(Lap, 1, "d")>>, {}, 1, Absent) }
MCWorlds == TheWorlds
==============================================================================
