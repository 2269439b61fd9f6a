----------------------------- MODULE BundleStore -----------------------------
(***************************************************************************)
(* The commands that keep run bundles on disk: `demo` runs, commits and    *)
(* replays, `run` runs, commits and writes a result file, `replay` checks  *)
(* a bundle.  Processes work on the same directories at the same time,     *)
(* one file a step; a process may die between any two of its steps, a      *)
(* write or a removal may fail, and somebody may change, remove or create  *)
(* a bundle directory behind their back.                                   *)
(*                                                                         *)
(* A world fixes the command of each process, what may be done to a        *)
(* directory (an edit is an operator on its files, given by name), and how *)
(* many times that and the failures of the disk may happen.                *)
(*                                                                         *)
(* First, the evidence of a deterministic run and what a reader of a       *)
(* bundle checks of it.  A bundle is a directory of eight files; a file's  *)
(* content is the document it parses to, or Garbage when it does not parse *)
(* as the canonical encoding of one.  Digests have no collisions, so a     *)
(* document is its own digest.                                             *)
(*                                                                         *)
(* Frames and Output stand for the simulation, which is floating point: a  *)
(* function of the request and the seed.  A frame has its timestamp, its   *)
(* sequence number, the number of its events and its samples by parameter, *)
(* a usable sample being a number and an unusable one None.                *)
(***************************************************************************)
EXTENDS Integers, Sequences, FiniteSets, FiniteSetsExt

CONSTANTS Frames(_, _), Output(_, _), LinkedModel, BatchSize, SpeedParameter, None

ASSUME BatchAssumption == BatchSize \in Nat \ {0}

CanonicalFiles == <<"scenario", "contract", "output", "telemetry", "summary", "metrics">>
Artifacts == CanonicalFiles \o <<"receipt">>
Files == Append(Artifacts, "manifest")      \* in the order write_and_commit writes them

Garbage == [kind |-> "garbage"]
Digest(content) == content

Concatenated(seqs) == MapThenFoldSet(\o, <<>>, LAMBDA i : seqs[i], Min, DOMAIN seqs)

------------------------------------------------------------------------------
(* What a run produces *)

Gcd(a, b) == CHOOSE d \in 1..a : a % d = 0 /\ b % d = 0 /\ \A e \in (d + 1)..a : ~(a % e = 0 /\ b % e = 0)
ClockValid(clock) == clock.numerator > 0 /\ clock.denominator > 0 /\ Gcd(clock.numerator, clock.denominator) = 1

Contract(scenario, seed) ==
  [kind |-> "contract", scenario |-> scenario.scenario, model |-> scenario.model, pack |-> scenario.pack,
   seed |-> seed, clock |-> scenario.clock, input |-> Digest(scenario.request)]
RunId(contract) == Digest(contract)

\* The usable samples of one parameter, in the order of the frames.
Usable(frames, p) ==
  LET has(f) == p \in DOMAIN f.samples /\ f.samples[p] # None IN SelectSeq(frames, has)

\* None when no sample is usable.
Aggregate(frames, p) ==
  LET usable == Usable(frames, p)
  IN  IF usable = <<>> THEN None
      ELSE [count |-> Len(usable), value |-> Max({usable[i].samples[p] : i \in DOMAIN usable})]

Metric(id, unit, p, aggregate) ==
  [id |-> id, unit |-> unit, parameter |-> p, count |-> aggregate.count, value |-> aggregate.value]
MetricsValid(metrics) ==
  /\ metrics.list # <<>>
  /\ \A i \in 1..(Len(metrics.list) - 1) : metrics.list[i].id < metrics.list[i + 1].id
  /\ \A i \in DOMAIN metrics.list : metrics.list[i].count > 0

TelemetrySummary(batches, frames) ==
  LET bound(field(_), i) == IF frames = <<>> THEN None ELSE field(frames[i])
      ts(f) == f.ts
      sequence(f) == f.sequence
  IN  [kind |-> "summary", batches |-> batches, frames |-> Len(frames),
       firstTs |-> bound(ts, 1), lastTs |-> bound(ts, Len(frames)),
       firstSequence |-> bound(sequence, 1), lastSequence |-> bound(sequence, Len(frames)),
       parameters |-> UNION {DOMAIN frames[i].samples : i \in DOMAIN frames},
       events |-> FoldFunction(LAMBDA f, n : n + f.events, 0, frames)]
SummaryValid(s) == s.frames > 0 => s.batches > 0

\* telemetry_batches: chunks of BatchSize frames, the last one shorter.
Batches(frames) ==
  [b \in 1..((Len(frames) + BatchSize - 1) \div BatchSize) |->
     SubSeq(frames, (b - 1) * BatchSize + 1, Min({b * BatchSize, Len(frames)}))]

\* encode_telemetry: ordinals run over all frames, batch ordinals over the batches.
Record(ordinal, batch, frame) == [ordinal |-> ordinal, batch |-> batch, frame |-> frame]
EncodeTelemetry(batches) ==
  Concatenated([b \in DOMAIN batches |->
    [i \in DOMAIN batches[b] |->
       Record(FoldFunction(LAMBDA x, n : n + Len(x), 0, SubSeq(batches, 1, b - 1)) + i - 1, b - 1, batches[b][i])]])

\* run_scenario_with_catalog without a catalog: the contract first, then the simulation.
ContractBuilds(scenario) == ClockValid(scenario.clock) /\ scenario.model = LinkedModel
SimulationRuns(scenario, seed) ==
  /\ Frames(scenario.request, seed) # None
  /\ Aggregate(Frames(scenario.request, seed), SpeedParameter) # None

\* The six canonical artifacts of a run, and its receipt for one execution.
Evidence(scenario, seed) ==
  LET batches == Batches(Frames(scenario.request, seed))
      frames == Concatenated(batches)
  IN  [scenario |-> scenario, contract |-> Contract(scenario, seed),
       output |-> [kind |-> "output", laps |-> Output(scenario.request, seed)],
       telemetry |-> [kind |-> "telemetry", records |-> EncodeTelemetry(batches)],
       summary |-> TelemetrySummary(Len(batches), frames),
       metrics |-> [kind |-> "metrics",
                    list |-> <<Metric(1, "kmh", SpeedParameter, Aggregate(frames, SpeedParameter))>>]]
Receipt(evidence, execution) ==
  [kind |-> "receipt", run |-> RunId(evidence.contract), execution |-> execution,
   output |-> Digest(evidence.output), summary |-> Digest(evidence.summary)]
References(evidence) == [f \in Range(CanonicalFiles) |-> Digest(evidence[f])]
Manifest(evidence, receipt) ==
  [kind |-> "manifest", run |-> RunId(evidence.contract), references |-> References(evidence), receipt |-> Digest(receipt)]

------------------------------------------------------------------------------
(* Reading a bundle back.  bytes is a function from Files to what was read. *)

Parses(file, content) == content.kind = file

ReferenceOf(manifest, file) == IF file = "receipt" THEN manifest.receipt ELSE manifest.references[file]
ArtifactsMatch(bytes) ==
  \A i \in DOMAIN Artifacts : Digest(bytes[Artifacts[i]]) = ReferenceOf(bytes["manifest"], Artifacts[i])

\* summarize_telemetry: a record opens the next batch or continues the last one.
OrdinalsMatch(records) ==
  \A i \in DOMAIN records :
    /\ records[i].ordinal = i - 1
    /\ records[i].batch \in (IF i = 1 THEN {0} ELSE {records[i - 1].batch, records[i - 1].batch + 1})
Replayed(records) ==
  TelemetrySummary(IF records = <<>> THEN 0 ELSE records[Len(records)].batch + 1,
                   [i \in DOMAIN records |-> records[i].frame])

BindingsMatch(scenario, contract) ==
  /\ scenario.scenario = contract.scenario /\ scenario.model = contract.model
  /\ scenario.pack = contract.pack /\ Digest(scenario.request) = contract.input
ReceiptMatches(bytes) ==
  /\ bytes["receipt"].run = RunId(bytes["contract"])
  /\ bytes["receipt"].output = bytes["manifest"].references["output"]
  /\ bytes["receipt"].summary = bytes["manifest"].references["summary"]

\* verify_loaded_run_bundle: 40 where the telemetry cannot be replayed, 50 where evidence
\* disagrees, 0 when all is well.  (A manifest that parses has the fixed layout.)
VerifyLoaded(bytes) ==
  LET records == bytes["telemetry"].records
  IN  CASE ~OrdinalsMatch(records) \/ ~SummaryValid(Replayed(records)) -> 40
        [] \/ ~ArtifactsMatch(bytes)
           \/ bytes["manifest"].run # RunId(bytes["contract"])
           \/ ~BindingsMatch(bytes["scenario"], bytes["contract"])
           \/ ~ReceiptMatches(bytes)
           \/ Replayed(records) # bytes["summary"] -> 50
        [] OTHER -> 0

\* recalculate_metrics: identifiers, parameters and units are taken as declared.
Recalculates(metrics, frames) == \A i \in DOMAIN metrics.list : Aggregate(frames, metrics.list[i].parameter) # None
Recalculated(metrics, frames) ==
  LET again(m) == Metric(m.id, m.unit, m.parameter, Aggregate(frames, m.parameter))
  IN  [metrics EXCEPT !.list = [i \in DOMAIN metrics.list |-> again(metrics.list[i])]]

AllParse(bytes) ==
  /\ \A i \in DOMAIN Files : Parses(Files[i], bytes[Files[i]])
  /\ MetricsValid(bytes["metrics"])

\* replay_and_verify, by its exit code.
ReplayCode(bytes) ==
  IF ~AllParse(bytes) THEN 40
  ELSE LET records == bytes["telemetry"].records
           frames == [i \in DOMAIN records |-> records[i].frame]
       IN  CASE VerifyLoaded(bytes) # 0 -> VerifyLoaded(bytes)
             [] ~Recalculates(bytes["metrics"], frames) -> 40
             [] Recalculated(bytes["metrics"], frames) # bytes["metrics"] -> 50
             [] OTHER -> 0

\* validate_bundle, as persist calls it: no metric is calculated again.
BundleValid(bytes, run) ==
  /\ Parses("manifest", bytes["manifest"]) /\ bytes["manifest"].run = run
  /\ ArtifactsMatch(bytes) /\ AllParse(bytes) /\ VerifyLoaded(bytes) = 0

------------------------------------------------------------------------------
(* The commands *)

CONSTANTS Processes, Destinations, ResultPaths, Worlds, Edited(_, _)

Absent == [kind |-> "absent"]
NotADirectory == [kind |-> "file"]
Directory(files) == [kind |-> "directory", files |-> files]
EmptyDirectory == Directory(<<>>)
IsDirectory(d) == d.kind = "directory"
Torn == [kind |-> "torn"]
Killed == 137

\* The evidence of a command's run, whether there is one, and the bundle that process p
\* writes of it.
RunOf(c) == Evidence(c.scenario, c.seed)
Executes(c) == c.kind # "replay" /\ ContractBuilds(c.scenario) /\ SimulationRuns(c.scenario, c.seed)
BundleOf(c, p) ==
  [f \in Range(Files) |->
     IF f = "receipt" THEN Receipt(RunOf(c), p)
     ELSE IF f = "manifest" THEN Manifest(RunOf(c), Receipt(RunOf(c), p)) ELSE RunOf(c)[f]]

\* What the command line and the file system allow.
ASSUME WorldsAssumption ==
  /\ None \notin Destinations /\ None # 0 /\ None # "reused" /\ None # "created"
  /\ \A w \in Worlds :
       /\ w.directory \in [Destinations -> {Absent, NotADirectory, EmptyDirectory}]
       /\ w.faults \in Nat
       /\ \A p \in Processes :
            LET c == w.commands[p]
                s == c.scenario
            IN  /\ c.kind \in {"demo", "run", "replay"}
                /\ c.destination \in Destinations \cup {None}
                /\ c.kind # "run" => c.destination # None
                /\ c.kind # "replay" =>
                     s = [kind |-> "scenario", scenario |-> s.scenario, model |-> s.model,
                          pack |-> s.pack, clock |-> s.clock, request |-> s.request]

\* The evidence of a run is valid and replays: what encode_telemetry and
\* CanonicalArtifacts::from_run write, validate_bundle and replay_and_verify accept.
ASSUME EvidenceAssumption ==
  \A w \in Worlds, p \in Processes :
    LET c == w.commands[p]
    IN  Executes(c) => /\ BundleValid(BundleOf(c, p), RunId(RunOf(c).contract))
                       /\ ReplayCode(BundleOf(c, p)) = 0

VARIABLES world,
          directory,   \* by destination: Absent, NotADirectory, or its files
          results,     \* by result path: None, Torn, or the result last written
          process,     \* by process: where its command stands
          touched,     \* the destinations somebody else changed
          committed,   \* what was ever renamed to where
          faults       \* disk failures and changes by others so far

vars == <<world, directory, results, process, touched, committed, faults>>

\* A process: its step, the files staged, the files read and how it reported its bundle.
AtStep(p, step) == process[p].step = step
Command(p) == world.commands[p]
Destination(p) == Command(p).destination
Run(p) == RunOf(Command(p))
Contents(p) == BundleOf(Command(p), p)

Init ==
  /\ world \in Worlds
  /\ directory = world.directory
  /\ results = [r \in ResultPaths |-> None]
  /\ process = [p \in Processes |->
       [step |-> "start", staging |-> Absent, read |-> <<>>, disposition |-> None, exit |-> None]]
  /\ touched = {} /\ committed = {} /\ faults = 0

Updated(r, changes) == [f \in DOMAIN r |-> IF f \in DOMAIN changes THEN changes[f] ELSE r[f]]
With(files, name, content) ==
  [f \in DOMAIN files \cup {name} |-> IF f = name THEN content ELSE files[f]]

Moves(p, changes) == process' = [process EXCEPT ![p] = Updated(@, changes)]
Exits(p, code) == Moves(p, [step |-> "done", exit |-> code])
OnlyProcess == UNCHANGED <<world, directory, results, touched, committed>>

------------------------------------------------------------------------------
(* A command up to its bundle *)

\* The run itself touches nothing shared; a command without a bundle goes on to its result.
Start(p) ==
  /\ AtStep(p, "start")
  /\ IF Command(p).kind = "replay" THEN Moves(p, [step |-> "replay"])
     ELSE IF ~ContractBuilds(Command(p).scenario) THEN Exits(p, 10)
     ELSE IF ~SimulationRuns(Command(p).scenario, Command(p).seed) THEN Exits(p, 20)
     ELSE Moves(p, [step |-> IF Destination(p) = None THEN "result" ELSE "look"])
  /\ OnlyProcess /\ UNCHANGED faults

\* persist: what is at the destination decides between reusing and staging.
Look(p) ==
  /\ AtStep(p, "look")
  /\ LET d == directory[Destination(p)]
     IN  CASE d = Absent -> Moves(p, [step |-> "stage"])
           [] IsDirectory(d) -> Moves(p, [step |-> "reuse"])
           [] OTHER -> Exits(p, 30)
  /\ OnlyProcess /\ UNCHANGED faults

\* The staging directory has a fresh name, so no other process meets it.
CreateStaging(p) ==
  /\ AtStep(p, "stage")
  /\ Moves(p, [step |-> "write", staging |-> EmptyDirectory])
  /\ OnlyProcess /\ UNCHANGED faults

Staged(p) == process[p].staging.files
NextFile(p) == Files[Cardinality(DOMAIN Staged(p)) + 1]

WriteInPlace(p) ==
  /\ AtStep(p, "write")
  /\ Moves(p, [staging |-> Directory(With(Staged(p), NextFile(p), Contents(p)[NextFile(p)])),
               step |-> IF NextFile(p) = "manifest" THEN "check" ELSE "write"])
  /\ directory' = [directory EXCEPT ![Destination(p)] = process'[p].staging]
  /\ UNCHANGED <<world, results, touched, committed, faults>>
\* write_file, once for each file; after the last one the staged bundle is read back.
WriteFile(p) ==
  /\ AtStep(p, "write")
  /\ Moves(p, [staging |-> Directory(With(Staged(p), NextFile(p), Contents(p)[NextFile(p)])),
               step |-> IF NextFile(p) = "manifest" THEN "check" ELSE "write"])
  /\ OnlyProcess /\ UNCHANGED faults

\* The disk refuses: a file is left half written, or the staging directory is not made.
DiskFails(p) ==
  /\ process[p].step \in {"stage", "write", "result", "torn"} /\ faults < world.faults
  /\ faults' = faults + 1
  /\ IF AtStep(p, "write")
     THEN Moves(p, [step |-> "cleanup", staging |-> Directory(With(Staged(p), NextFile(p), Garbage))])
     ELSE Exits(p, 30)
  /\ OnlyProcess

------------------------------------------------------------------------------
(* Reading: the manifest first, then the artifacts in the order of its fields *)

ReadOrder == <<"manifest">> \o Artifacts
ReadRoot(p) == IF AtStep(p, "check") THEN process[p].staging ELSE directory[Destination(p)]
AllRead(p) == DOMAIN process[p].read = Range(ReadOrder)

\* Where a reader goes when its bundle cannot be read or is refused.
Refuses(p, code) ==
  CASE AtStep(p, "check") -> Moves(p, [step |-> "cleanup"])
    [] AtStep(p, "reuse") -> Exits(p, 30)
    [] OTHER -> Exits(p, code)

ReadFile(p) ==
  /\ process[p].step \in {"check", "reuse", "replay"} /\ ~AllRead(p)
  /\ LET file == ReadOrder[Cardinality(DOMAIN process[p].read) + 1]
         root == ReadRoot(p)
     IN  IF ~IsDirectory(root) \/ file \notin DOMAIN root.files THEN Refuses(p, 40)
         ELSE Moves(p, [read |-> With(process[p].read, file, root.files[file])])
  /\ OnlyProcess /\ UNCHANGED faults

AfterBundle(p) == IF Command(p).kind = "demo" THEN "replay" ELSE "result"

\* persist on an existing bundle: valid, of this run, and with the evidence just calculated.
AnyEvidence(p, manifest) == manifest.run = RunId(Run(p).contract)
SameEvidence(p, manifest) == manifest.references = References(Run(p))
Reuse(p) ==
  /\ AtStep(p, "reuse") /\ AllRead(p)
  /\ IF BundleValid(process[p].read, RunId(Run(p).contract)) /\ SameEvidence(p, process[p].read["manifest"])
     THEN Moves(p, [step |-> AfterBundle(p), disposition |-> "reused", read |-> <<>>])
     ELSE Refuses(p, 30)
  /\ OnlyProcess /\ UNCHANGED faults

CheckStaged(p) ==
  /\ AtStep(p, "check") /\ AllRead(p)
  /\ IF BundleValid(process[p].read, RunId(Run(p).contract))
     THEN Moves(p, [step |-> "rename", read |-> <<>>])
     ELSE Refuses(p, 30)
  /\ OnlyProcess /\ UNCHANGED faults

\* rename(2) replaces nothing but an empty directory.
MayReplaceAny(d) == d # NotADirectory
MayReplace(d) == d \in {Absent, EmptyDirectory}
Commit(p) ==
  /\ AtStep(p, "rename")
  /\ LET d == Destination(p)
     IN  IF MayReplace(directory[d])
         THEN /\ directory' = [directory EXCEPT ![d] = process[p].staging]
              /\ committed' = committed \cup {<<d, RunId(Run(p).contract)>>}
              /\ touched' = touched \ {d}
              /\ Moves(p, [step |-> AfterBundle(p), disposition |-> "created", staging |-> Absent])
         ELSE Moves(p, [step |-> "cleanup"]) /\ UNCHANGED <<directory, committed, touched>>
  /\ UNCHANGED <<world, results, faults>>

\* remove_dir_all after an error; its own error is ignored.
Cleanup(p) ==
  /\ AtStep(p, "cleanup")
  /\ \/ Moves(p, [step |-> "done", exit |-> 30, staging |-> Absent]) /\ UNCHANGED faults
     \/ faults < world.faults /\ faults' = faults + 1 /\ Exits(p, 30)
  /\ OnlyProcess

------------------------------------------------------------------------------
(* After the bundle *)

Replay(p) ==
  /\ AtStep(p, "replay") /\ AllRead(p)
  /\ Exits(p, ReplayCode(process[p].read))
  /\ OnlyProcess /\ UNCHANGED faults

\* write_result: fs::write truncates the file before it writes it.
Truncate(p) ==
  /\ AtStep(p, "result")
  /\ results' = [results EXCEPT ![Command(p).result] = Torn]
  /\ Moves(p, [step |-> "torn"])
  /\ UNCHANGED <<world, directory, touched, committed, faults>>

Result(p) == [kind |-> "result", run |-> RunId(Run(p).contract), output |-> Digest(Run(p).output),
              summary |-> Digest(Run(p).summary), metrics |-> Digest(Run(p).metrics)]
WriteResult(p) ==
  /\ AtStep(p, "torn")
  /\ results' = [results EXCEPT ![Command(p).result] = Result(p)]
  /\ Exits(p, 0)
  /\ UNCHANGED <<world, directory, touched, committed, faults>>

------------------------------------------------------------------------------
(* What else happens *)

\* The process dies; a staging directory stays where it is.
Crash(p) ==
  /\ process[p].step # "done" /\ faults < world.faults
  /\ faults' = faults + 1
  /\ Moves(p, [step |-> "done", exit |-> Killed])
  /\ OnlyProcess

Changes(d, value) ==
  /\ faults < world.faults /\ faults' = faults + 1
  /\ directory[d] # value
  /\ directory' = [directory EXCEPT ![d] = value]
  /\ touched' = touched \cup {d}
  /\ UNCHANGED <<world, results, process, committed>>

EditBundle(d, name) ==
  /\ IsDirectory(directory[d]) /\ DOMAIN directory[d].files = Range(Files)
  /\ Changes(d, Directory(Edited(name, directory[d].files)))
RemoveBundle(d) == directory[d] # Absent /\ Changes(d, Absent)
MakeDirectory(d) == directory[d] = Absent /\ Changes(d, EmptyDirectory)

Steps(p) ==
  \/ Start(p) \/ Look(p) \/ CreateStaging(p) \/ WriteFile(p) \/ ReadFile(p) \/ Reuse(p)
  \/ CheckStaged(p) \/ Commit(p) \/ Cleanup(p) \/ Replay(p) \/ Truncate(p) \/ WriteResult(p)
Others(d) == (\E e \in world.edits : EditBundle(d, e)) \/ RemoveBundle(d) \/ MakeDirectory(d)
Done == (\A p \in Processes : AtStep(p, "done")) /\ UNCHANGED vars

Next ==
  \/ \E p \in Processes : Steps(p) \/ DiskFails(p) \/ Crash(p)
  \/ \E d \in Destinations : Others(d)
  \/ Done

Spec == Init /\ [][Next]_vars

------------------------------------------------------------------------------
(* Properties *)

Untouched(d) == d \notin touched

\* A directory that came from a commit and was left alone is a whole bundle: every file is
\* there, it replays with code 0, and it is of a run committed to that place (persist,
\* write_and_commit: the destination only ever appears by the final rename).
CommittedIsWhole ==
  \A d \in Destinations :
    Untouched(d) /\ directory[d] # world.directory[d] =>
      /\ IsDirectory(directory[d]) /\ DOMAIN directory[d].files = Range(Files)
      /\ ReplayCode(directory[d].files) = 0
      /\ <<d, directory[d].files["manifest"].run>> \in committed

\* The parts of a bundle that VERIFIED vouches for; telemetry inside its bounds, the clock of
\* the scenario, names and units of metrics and the execution of the receipt are not among them.
Vouched(bytes) ==
  [contract |-> bytes["contract"], output |-> bytes["output"], summary |-> bytes["summary"],
   request |-> bytes["scenario"].request,
   values |-> [i \in DOMAIN bytes["metrics"].list |-> bytes["metrics"].list[i].value]]

Executed == {p \in Processes : Executes(Command(p))}

\* A report is true when it is made.  VERIFIED, after any change to one file with or without
\* its digest in the manifest: what was read is vouched for by some execution.  Reused: the
\* canonical files read are those of the command's own run.  Created: they are at the
\* destination (replay_and_verify, persist).
ReportsAreTrue ==
  [][\A p \in Processes :
       LET read == process[p].read
           reports(d) == process[p].disposition = None /\ process'[p].disposition = d
       IN  /\ AtStep(p, "replay") /\ process'[p].exit = 0 => \E q \in Executed : Vouched(read) = Vouched(Run(q))
           /\ reports("reused") => \A f \in Range(CanonicalFiles) : read[f] = Run(p)[f]
           /\ reports("created") =>
                \A f \in Range(CanonicalFiles) : directory'[Destination(p)].files[f] = Run(p)[f]]_vars

\* Nothing a command does fails for its own sake: the bundle it staged is valid, and so is one
\* of the same run that it finds and nobody changed, to the last metric (encode_telemetry and
\* CanonicalArtifacts::from_run against validate_bundle and replay_and_verify).
OwnBundleIsValid ==
  \A p \in Processes : AllRead(p) =>
    LET bytes == process[p].read
    IN  /\ AtStep(p, "check") => BundleValid(bytes, RunId(Run(p).contract)) /\ ReplayCode(bytes) = 0
        /\ AtStep(p, "reuse") /\ faults = 0
             => \/ bytes["manifest"].run # RunId(Run(p).contract)
                \/ BundleValid(bytes, RunId(Run(p).contract)) /\ SameEvidence(p, bytes["manifest"])

\* Bundles are immutable evidence: no step of a command changes a bundle that is there, or
\* removes it (persist never writes below an existing destination).
BundlesAreImmutable ==
  [][\A d \in Destinations :
       directory'[d] # directory[d] => d \in touched' \/ directory[d] \in {Absent, EmptyDirectory}]_vars

\* A result file for a run whose bundle was asked for is only written once the bundle is
\* committed, and what is staged never outlives its command unless the disk or a crash kept it
\* (run_racing, persist).
CleanExits ==
  /\ \A p \in Processes :
       Command(p).kind = "run" /\ Destination(p) # None /\ process[p].exit = 0 =>
         <<Destination(p), RunId(Run(p).contract)>> \in committed
  /\ \A p \in Processes : AtStep(p, "done") /\ process[p].staging # Absent => faults > 0

\* A bundle is whole and valid wherever it is left: committed, staged by its command, or
\* behind a result file.
BundlesAreValid == CommittedIsWhole /\ OwnBundleIsValid /\ CleanExits
==============================================================================
