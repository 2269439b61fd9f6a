---------------------------- MODULE BundleReports ----------------------------
(***************************************************************************)
(* What the invariant of BundleProofs gives.  As long as nobody edits the  *)
(* files of a bundle (they may remove it, and processes may die anywhere), *)
(* every bundle is whole and replays, and every report is true when it is  *)
(* made.                                                                   *)
(***************************************************************************)
EXTENDS BundleProofs

------------------------------------------------------------------------------
(* Bundles are valid *)

\* What was read entirely is a bundle when its files are those of one.
LEMMA ReadWhole ==
  ASSUME StoreInv, NEW p \in Processes, NEW q, AllRead(p), process[p].step \in {"check", "reuse"},
         \A f \in DOMAIN process[p].read : process[p].read[f] = BundleBy(world, q)[f]
  PROVE  process[p].read = BundleBy(world, q)
<1> DEFINE read == process[p].read
           b == BundleBy(world, q)
<1>1. ReadOrder \in {Files, ReadOrder}
  OBVIOUS
<1>2. DOMAIN read = FileNames
  BY ONLY <1>1, Orders, AllRead(p) DEF AllRead
<1>3. read = [f \in DOMAIN read |-> read[f]]
  BY DEF StoreInv, ProcessInv, ReadInv, Prefix
<1>4. DOMAIN b = FileNames /\ b = [f \in DOMAIN b |-> b[f]]
  BY BundleIsNotEmpty DEF BundleBy, BundleOf
<1>5. \A f \in FileNames : read[f] = b[f]
  BY <1>2
<1> HIDE DEF read, b
<1>6. read = b
  BY <1>2, <1>3, <1>4, <1>5
<1> QED BY <1>6 DEF read, b

\* The contract determines the run: a run identifier names one evidence.
LEMMA SameRun ==
  ASSUME NEW w \in Worlds, NEW p \in Processes, NEW q \in Processes,
         Executes(w.commands[p]), Executes(w.commands[q]),
         RunId(RunOf(w.commands[p]).contract) = RunId(RunOf(w.commands[q]).contract)
  PROVE  RunOf(w.commands[p]) = RunOf(w.commands[q])
<1> DEFINE c == w.commands[p]
           e == w.commands[q]
           s == c.scenario
           t == e.scenario
<1>1. RunOf(c).contract = Contract(s, c.seed) /\ RunOf(e).contract = Contract(t, e.seed)
  BY DEF RunOf, Evidence
<1>2. Contract(s, c.seed) = Contract(t, e.seed)
  BY <1>1 DEF RunId, Digest
<1>4. /\ s.scenario = t.scenario /\ s.model = t.model /\ s.pack = t.pack /\ s.clock = t.clock
      /\ s.request = t.request /\ c.seed = e.seed
  <2> DEFINE x == c.seed
             y == e.seed
  <2>1. Contract(s, x) = Contract(t, y)
    BY <1>2
  <2> HIDE DEF s, t, x, y
  <2>2. /\ s.scenario = t.scenario /\ s.model = t.model /\ s.pack = t.pack /\ s.clock = t.clock
        /\ s.request = t.request /\ x = y
    BY ONLY <2>1 DEF Contract, Digest
  <2> QED BY ONLY <2>2 DEF x, y
<1>5. /\ s = [kind |-> "scenario", scenario |-> s.scenario, model |-> s.model,
              pack |-> s.pack, clock |-> s.clock, request |-> s.request]
      /\ t = [kind |-> "scenario", scenario |-> t.scenario, model |-> t.model,
              pack |-> t.pack, clock |-> t.clock, request |-> t.request]
  BY WorldsAssumption DEF Executes
<1>6. s = t
  BY <1>4, <1>5
<1> QED BY <1>4, <1>6 DEF RunOf

\* The invariant holds of bundles that are committed, staged or found.
LEMMA InvariantIsValid == StoreInv => BundlesAreValid
<1> SUFFICES ASSUME StoreInv PROVE BundlesAreValid
  OBVIOUS
<1>1. CommittedIsWhole
  <2> SUFFICES ASSUME NEW d \in Destinations, Untouched(d), directory[d] # world.directory[d]
               PROVE  /\ IsDirectory(directory[d]) /\ DOMAIN directory[d].files = Range(Files)
                      /\ ReplayCode(directory[d].files) = 0
                      /\ <<d, directory[d].files["manifest"].run>> \in committed
    BY DEF CommittedIsWhole
  <2>1. HoldsBundle(world, committed, d, directory[d])
    BY DEF StoreInv, DiskInv, Untouched
  <2>2. PICK q \in Processes : Source(world, committed, d, q) /\ directory[d] = Directory(BundleBy(world, q))
    BY <2>1 DEF HoldsBundle
  <2>3. directory[d].kind = "directory" /\ directory[d].files = BundleBy(world, q)
    BY <2>2 DEF Directory
  <2>4. DOMAIN BundleBy(world, q) = Range(Files)
    BY DEF BundleBy, BundleOf
  <2>5. ReplayCode(BundleBy(world, q)) = 0
    BY <2>2, EvidenceAssumption DEF StoreInv, Source, BundleBy
  <2>6. <<d, BundleBy(world, q)["manifest"].run>> \in committed
    BY <2>2, BundleManifest DEF Source, Committed
  <2> QED BY <2>3, <2>4, <2>5, <2>6 DEF IsDirectory
<1>2. OwnBundleIsValid
  <2>1. ASSUME NEW p \in Processes, AllRead(p), AtStep(p, "check")
        PROVE  /\ BundleValid(process[p].read, RunId(Run(p).contract))
               /\ ReplayCode(process[p].read) = 0
    <3>1. process[p].step = "check"
      BY <2>1 DEF AtStep
    <3>2. /\ Executes(world.commands[p]) /\ world \in Worlds
          /\ \A f \in DOMAIN process[p].read : process[p].read[f] = BundleBy(world, p)[f]
      BY <3>1 DEF StoreInv, ProcessInv, StepInv, ReadInv
    <3>3. process[p].read = BundleBy(world, p)
      BY <2>1, <3>1, <3>2, ReadWhole
    <3> QED BY <3>2, <3>3, EvidenceAssumption DEF BundleBy, Run, Command
  <2>2. ASSUME NEW p \in Processes, AllRead(p), AtStep(p, "reuse"), faults = 0,
               process[p].read["manifest"].run = RunId(Run(p).contract)
        PROVE  /\ BundleValid(process[p].read, RunId(Run(p).contract))
               /\ SameEvidence(p, process[p].read["manifest"])
    <3>1. process[p].step = "reuse" /\ world \in Worlds
      BY <2>2 DEF AtStep, StoreInv
    <3>2. DOMAIN process[p].read # {}
      <4>1. ReadOrder \in {Files, ReadOrder}
        OBVIOUS
      <4>2. Range(ReadOrder) = FileNames
        BY ONLY <4>1, Orders
      <4> QED BY <2>2, <4>2 DEF AllRead, FileNames
    <3>3. Executes(world.commands[p]) /\ ReadInv(world, directory, committed, faults, p, process[p])
      BY <3>1 DEF StoreInv, ProcessInv, StepInv
    <3>4. PICK q \in Processes :
            /\ Source(world, committed, world.commands[p].destination, q)
            /\ \A f \in DOMAIN process[p].read : process[p].read[f] = BundleBy(world, q)[f]
      BY <2>2, <3>1, <3>2, <3>3 DEF ReadInv
    <3>5. process[p].read = BundleBy(world, q) /\ Executes(world.commands[q])
      BY <2>2, <3>1, <3>4, ReadWhole DEF Source
    <3>6. RunId(RunOf(world.commands[p]).contract) = RunId(RunOf(world.commands[q]).contract)
      BY <2>2, <3>5, BundleManifest DEF Run, Command
    <3>7. RunOf(world.commands[p]) = RunOf(world.commands[q])
      BY <3>1, <3>3, <3>5, <3>6, SameRun
    <3>8. BundleValid(BundleBy(world, q), RunId(RunOf(world.commands[q]).contract))
      BY <3>1, <3>5, EvidenceAssumption DEF BundleBy
    <3>9. BundleBy(world, q)["manifest"].references = References(RunOf(world.commands[q]))
      BY BundleManifest
    <3> QED BY <3>5, <3>7, <3>8, <3>9 DEF Run, Command, SameEvidence
  <2> QED BY <2>1, <2>2 DEF OwnBundleIsValid
<1>3. CleanExits
  <2>1. ASSUME NEW p \in Processes
        PROVE  ResultInv(world.commands[p], committed, process[p]) /\ StageInv(BundleBy(world, p), faults, process[p])
    BY DEF StoreInv, ProcessInv
  <2>2. ASSUME NEW p \in Processes, Command(p).kind = "run", Destination(p) # None, process[p].exit = 0
        PROVE  <<Destination(p), RunId(Run(p).contract)>> \in committed
    BY <2>1, <2>2 DEF ResultInv, Committed, Command, Destination, Run
  <2>3. ASSUME NEW p \in Processes, AtStep(p, "done"), process[p].staging # Absent
        PROVE  faults > 0
    BY <2>1, <2>3 DEF StageInv, AtStep
  <2> QED BY <2>2, <2>3 DEF CleanExits
<1> QED BY <1>1, <1>2, <1>3 DEF BundlesAreValid

\* As long as nobody edits the files of a bundle, every bundle committed is whole and
\* replays, every bundle staged or found is valid for its own run, results come after
\* commits, and nothing staged is left over without a fault (persist, run_racing).
THEOREM BundlesValid == world.edits = {} /\ Spec => []BundlesAreValid
<1>1. world.edits = {} /\ Spec => []StoreInv
  BY StoreBegins, StoreStep, PTL DEF Spec
<1> QED BY <1>1, InvariantIsValid, PTL

------------------------------------------------------------------------------
(* Reports are true *)

\* Only the process that moves changes.
LEMMA ActorMoves ==
  ASSUME NEW p \in Processes, Steps(p) \/ DiskFails(p) \/ Crash(p)
  PROVE  \E changes : Moves(p, changes)
<1>1. ASSUME NEW x, Exits(p, x) PROVE \E changes : Moves(p, changes)
  BY <1>1 DEF Exits
<1>2. ASSUME NEW x, Refuses(p, x) PROVE \E changes : Moves(p, changes)
  <2>1. Moves(p, [step |-> "cleanup"]) \/ \E y : Exits(p, y)
    BY <1>2 DEF Refuses
  <2> QED BY <1>1, <2>1
<1>3. CASE Start(p)
  BY <1>1, <1>3 DEF Start
<1>4. CASE Look(p)
  BY <1>1, <1>4 DEF Look
<1>5. CASE CreateStaging(p) \/ WriteFile(p)
  BY <1>5 DEF CreateStaging, WriteFile
<1>6. CASE ReadFile(p)
  BY <1>2, <1>6 DEF ReadFile
<1>7. CASE Reuse(p) \/ CheckStaged(p)
  BY <1>2, <1>7 DEF Reuse, CheckStaged
<1>8. CASE Commit(p)
  BY <1>8 DEF Commit
<1>9. CASE Cleanup(p) \/ DiskFails(p) \/ Crash(p)
  BY <1>1, <1>9 DEF Cleanup, DiskFails, Crash
<1>10. CASE Replay(p) \/ Truncate(p) \/ WriteResult(p)
  BY <1>1, <1>10 DEF Replay, Truncate, WriteResult
<1> QED BY <1>3, <1>4, <1>5, <1>6, <1>7, <1>8, <1>9, <1>10 DEF Steps

\* A move that does not name a field leaves it alone.
LEMMA Unnamed ==
  ASSUME Shape, NEW p \in Processes, NEW changes, Moves(p, changes), NEW f \in Fields, f \notin DOMAIN changes
  PROVE  process'[p][f] = process[p][f]
<1>1. process'[p] = Updated(process[p], changes)
  BY Moved
<1>2. DOMAIN process[p] = Fields
  BY DEF Shape
<1> QED BY <1>1, <1>2 DEF Updated

\* A bundle is reported by the steps that reuse and that commit it, and by no other.
LEMMA WhoReports ==
  ASSUME Shape, NEW p \in Processes, Steps(p) \/ DiskFails(p) \/ Crash(p), ~Reuse(p), ~Commit(p)
  PROVE  process'[p].disposition = process[p].disposition
<1>1. \A changes : Moves(p, changes) /\ "disposition" \notin DOMAIN changes
        => process'[p].disposition = process[p].disposition
  BY Unnamed DEF Fields
<1>2. ASSUME NEW x, Exits(p, x) PROVE process'[p].disposition = process[p].disposition
  BY <1>1, <1>2 DEF Exits
<1>3. ASSUME NEW x, Refuses(p, x) PROVE process'[p].disposition = process[p].disposition
  <2>1. Moves(p, [step |-> "cleanup"]) \/ \E y : Exits(p, y)
    BY <1>3 DEF Refuses
  <2> QED BY <1>1, <1>2, <2>1
<1>4. ASSUME NEW x, Moves(p, [step |-> x]) PROVE process'[p].disposition = process[p].disposition
  BY <1>1, <1>4
<1>5. ASSUME NEW x, NEW y, Moves(p, [step |-> x, staging |-> y]) \/ Moves(p, [step |-> x, read |-> y])
      PROVE  process'[p].disposition = process[p].disposition
  BY <1>1, <1>5
<1>6. ASSUME NEW x, NEW y, Moves(p, [staging |-> x, step |-> y]) \/ Moves(p, [read |-> x])
             \/ Moves(p, [step |-> "done", exit |-> x, staging |-> y])
      PROVE  process'[p].disposition = process[p].disposition
  BY <1>1, <1>6
<1>7. CASE Start(p)
  BY <1>2, <1>4, <1>7 DEF Start
<1>8. CASE Look(p)
  BY <1>2, <1>4, <1>8 DEF Look
<1>9. CASE CreateStaging(p) \/ WriteFile(p)
  BY <1>5, <1>6, <1>9 DEF CreateStaging, WriteFile
<1>10. CASE ReadFile(p)
  BY <1>3, <1>6, <1>10 DEF ReadFile
<1>11. CASE CheckStaged(p)
  BY <1>3, <1>5, <1>11 DEF CheckStaged
<1>12. CASE Cleanup(p)
  BY <1>2, <1>6, <1>12 DEF Cleanup
<1>13. CASE DiskFails(p) \/ Crash(p)
  BY <1>2, <1>5, <1>13 DEF DiskFails, Crash, Exits
<1>14. CASE Replay(p) \/ Truncate(p) \/ WriteResult(p)
  BY <1>2, <1>4, <1>14 DEF Replay, Truncate, WriteResult
<1> QED BY <1>7, <1>8, <1>9, <1>10, <1>11, <1>12, <1>13, <1>14 DEF Steps

\* While a bundle is replayed, success comes from the replay alone.
LEMMA WhoVerifies ==
  ASSUME StoreInv, NEW p \in Processes, Steps(p) \/ DiskFails(p) \/ Crash(p),
         AtStep(p, "replay"), process'[p].exit = 0
  PROVE  Replay(p) /\ ReplayCode(process[p].read) = 0
<1>1. process[p].step = "replay" /\ process[p].exit = None /\ None # 0 /\ Shape
  BY WorldsAssumption DEF AtStep, StoreInv, ProcessInv, StepInv
<1>2. ASSUME NEW x, Exits(p, x) PROVE x = 0
  <2>1. process'[p] = Updated(process[p], [step |-> "done", exit |-> x])
    BY <1>1, <1>2, Moved DEF Exits
  <2>2. process'[p].exit = x
    BY <1>1, <2>1 DEF Shape, Updated, Fields
  <2> QED BY <2>2
<1>3. ~Crash(p)
  <2>1. ~Exits(p, Killed)
    <3>1. Killed # 0
      BY DEF Killed
    <3> QED BY <1>2, <3>1
  <2> QED BY <2>1 DEF Crash, Exits
<1>4. ~Refuses(p, 40)
  BY <1>1, <1>2 DEF Refuses, AtStep
<1>5. ASSUME NEW x, Moves(p, [read |-> x]) PROVE FALSE
  <2>1. process'[p].exit = process[p].exit
    <3>1. "exit" \in Fields /\ "exit" \notin DOMAIN [read |-> x]
      BY DEF Fields
    <3> QED BY <1>1, <1>5, <3>1, Unnamed
  <2> QED BY <1>1, <2>1
<1>6. ~ReadFile(p)
  BY <1>4, <1>5 DEF ReadFile
<1>7. Replay(p)
  BY <1>1, <1>3, <1>6 DEF Steps, Start, Look, CreateStaging, WriteFile, Reuse, CheckStaged, Commit, Cleanup,
                          Truncate, WriteResult, DiskFails, AtStep
<1> QED BY <1>2, <1>7 DEF Replay

\* A replay succeeds only if the verification does.
LEMMA ReplayVerifies ==
  ASSUME NEW bytes, ReplayCode(bytes) = 0
  PROVE  ArtifactsMatch(bytes)
<1>1. AllParse(bytes)
  BY DEF ReplayCode
<1>2. ASSUME VerifyLoaded(bytes) # 0 PROVE FALSE
  BY <1>1, <1>2 DEF ReplayCode
<1>3. ASSUME ~ArtifactsMatch(bytes) PROVE FALSE
  BY <1>2, <1>3 DEF VerifyLoaded
<1> QED BY <1>3

\* What was read matches the manifest, so it is what the manifest's run produced.
LEMMA MatchedFiles ==
  ASSUME NEW bytes, NEW r, ArtifactsMatch(bytes), bytes["manifest"].references = References(r)
  PROVE  \A f \in Range(CanonicalFiles) : bytes[f] = r[f]
<1>1. ASSUME NEW f \in Range(CanonicalFiles)
      PROVE  f # "receipt" /\ \E i \in DOMAIN Artifacts : Artifacts[i] = f
  <2>1. /\ Artifacts[1] = "scenario" /\ Artifacts[2] = "contract" /\ Artifacts[3] = "output"
        /\ Artifacts[4] = "telemetry" /\ Artifacts[5] = "summary" /\ Artifacts[6] = "metrics"
        /\ DOMAIN Artifacts = 1..7
    BY DEF Artifacts, CanonicalFiles
  <2>2. f \in {"scenario", "contract", "output", "telemetry", "summary", "metrics"}
    BY BundleFiles DEF FileNames
  <2> QED BY <2>1, <2>2
<1>2. ASSUME NEW f \in Range(CanonicalFiles) PROVE References(r)[f] = r[f]
  BY DEF References, Digest
<1>3. ASSUME NEW f \in Range(CanonicalFiles) PROVE bytes[f] = bytes["manifest"].references[f]
  BY <1>1 DEF ArtifactsMatch, Digest, ReferenceOf
<1> QED BY <1>2, <1>3

\* The three reports, one step of one process at a time.
LEMMA ReportStep ==
  ASSUME StoreInv, [Next]_vars, NEW p \in Processes
  PROVE  LET read == process[p].read
             reports(d) == process[p].disposition = None /\ process'[p].disposition = d
         IN  /\ AtStep(p, "replay") /\ process'[p].exit = 0 => \E q \in Executed : Vouched(read) = Vouched(Run(q))
             /\ reports("reused") => \A f \in Range(CanonicalFiles) : read[f] = Run(p)[f]
             /\ reports("created") =>
                  \A f \in Range(CanonicalFiles) : directory'[Destination(p)].files[f] = Run(p)[f]
<1> DEFINE me == process[p]
<1>1. Shape /\ world \in Worlds /\ None # 0 /\ None # "reused" /\ None # "created"
  BY WorldsAssumption DEF StoreInv
<1>2. AtStep(p, "replay") => me.exit = None
  BY DEF AtStep, StoreInv, ProcessInv, StepInv
<1>3. CASE process'[p] = process[p]
  BY <1>1, <1>2, <1>3
<1>4. CASE process'[p] # process[p]
  <2>1. Steps(p) \/ DiskFails(p) \/ Crash(p)
    <3>1. PICK q \in Processes : Steps(q) \/ DiskFails(q) \/ Crash(q)
      BY <1>4 DEF Next, Done, vars, Others, EditBundle, RemoveBundle, MakeDirectory, Changes
    <3>2. PICK changes : Moves(q, changes)
      BY <3>1, ActorMoves
    <3>3. q = p
      BY <1>1, <1>4, <3>2, Moved
    <3> QED BY <3>1, <3>3
  <2>2. ASSUME AtStep(p, "replay"), process'[p].exit = 0
        PROVE  \E q \in Executed : Vouched(me.read) = Vouched(Run(q))
    <3>1. Replay(p) /\ ReplayCode(me.read) = 0
      BY <2>1, <2>2, WhoVerifies
    <3>2. ArtifactsMatch(me.read)
      BY <3>1, ReplayVerifies
    <3>3. PICK q \in Processes :
            /\ Source(world, committed, world.commands[p].destination, q)
            /\ me.read["manifest"] = BundleBy(world, q)["manifest"]
      BY <2>2, <3>1, ManifestRead DEF Replay, AtStep
    <3>4. q \in Executed
      BY <3>3 DEF Executed, Source, Command
    <3>5. me.read["manifest"].references = References(Run(q))
      BY ONLY <3>3, BundleManifest DEF Run, Command
    <3>6. \A f \in Range(CanonicalFiles) : me.read[f] = Run(q)[f]
      BY <3>2, <3>5, MatchedFiles
    <3>7. /\ me.read["contract"] = Run(q)["contract"] /\ me.read["output"] = Run(q)["output"]
          /\ me.read["summary"] = Run(q)["summary"] /\ me.read["scenario"] = Run(q)["scenario"]
          /\ me.read["metrics"] = Run(q)["metrics"]
      BY <3>6, BundleFiles DEF FileNames
    <3>8. Vouched(me.read) = Vouched(Run(q))
      BY ONLY <3>7 DEF Vouched
    <3> QED BY <3>4, <3>8
  <2>3. ASSUME me.disposition = None, process'[p].disposition = "reused"
        PROVE  \A f \in Range(CanonicalFiles) : me.read[f] = Run(p)[f]
    <3>1. ~Commit(p)
      <4>1. ASSUME NEW x, Moves(p, [step |-> x, disposition |-> "created", staging |-> Absent]) PROVE FALSE
        <5>0. process'[p] = Updated(me, [step |-> x, disposition |-> "created", staging |-> Absent])
          BY <1>1, <4>1, Moved
        <5>1. process'[p].disposition = "created"
          BY <1>1, <5>0 DEF Shape, Updated, Fields
        <5> QED BY <2>3, <5>1
      <4>2. ASSUME Moves(p, [step |-> "cleanup"]) PROVE FALSE
        <5>1. process'[p].disposition = me.disposition
          <6>1. "disposition" \in Fields /\ "disposition" \notin DOMAIN [step |-> "cleanup"]
            BY DEF Fields
          <6> QED BY <1>1, <4>2, <6>1, Unnamed
        <5> QED BY <1>1, <2>3, <5>1
      <4> QED BY <4>1, <4>2 DEF Commit
    <3>2. Reuse(p)
      BY <1>1, <2>1, <2>3, <3>1, WhoReports
    <3>3. ~Refuses(p, 30)
      <4>1. ASSUME NEW changes, Moves(p, changes), "disposition" \notin DOMAIN changes PROVE FALSE
        <5>1. process'[p].disposition = me.disposition
          BY <1>1, <4>1, Unnamed DEF Fields
        <5> QED BY <1>1, <2>3, <5>1
      <4>2. ~Moves(p, [step |-> "cleanup"]) /\ \A x : ~Moves(p, [step |-> "done", exit |-> x])
        BY <4>1
      <4> QED BY <4>2 DEF Refuses, Exits
    <3>4. ArtifactsMatch(me.read) /\ me.read["manifest"].references = References(Run(p))
      BY <3>2, <3>3 DEF Reuse, BundleValid, SameEvidence
    <3> QED BY <3>4, MatchedFiles
  <2>4. ASSUME me.disposition = None, process'[p].disposition = "created"
        PROVE  \A f \in Range(CanonicalFiles) : directory'[Destination(p)].files[f] = Run(p)[f]
    <3>1. ASSUME NEW changes, Moves(p, changes), "disposition" \notin DOMAIN changes PROVE FALSE
      <4>1. process'[p].disposition = me.disposition
        BY <1>1, <3>1, Unnamed DEF Fields
      <4> QED BY <1>1, <2>4, <4>1
    <3>2. ~Reuse(p)
      <4>1. ASSUME NEW x, Moves(p, [step |-> x, disposition |-> "reused", read |-> << >>]) PROVE FALSE
        <5>0. process'[p] = Updated(me, [step |-> x, disposition |-> "reused", read |-> << >>])
          BY <1>1, <4>1, Moved
        <5>1. process'[p].disposition = "reused"
          BY <1>1, <5>0 DEF Shape, Updated, Fields
        <5> QED BY <2>4, <5>1
      <4>2. ~Moves(p, [step |-> "cleanup"]) /\ \A x : ~Moves(p, [step |-> "done", exit |-> x])
        BY <3>1
      <4> QED BY <4>1, <4>2 DEF Reuse, Refuses, Exits
    <3>3. Commit(p) /\ ~Moves(p, [step |-> "cleanup"])
      BY <1>1, <2>1, <2>4, <3>1, <3>2, WhoReports
    <3>4. directory' = [directory EXCEPT ![Destination(p)] = process[p].staging] /\ me.step = "rename"
      BY <3>3 DEF Commit, AtStep
    <3>5. me.staging = Directory(BundleBy(world, p)) /\ Destination(p) \in DOMAIN directory
      BY <3>4 DEF StoreInv, ProcessInv, StepInv, StageInv, DiskInv, Destination, Command
    <3>6. directory'[Destination(p)].files = BundleBy(world, p)
      BY <3>4, <3>5, DirectoryFiles
    <3>7. \A f \in Range(CanonicalFiles) : BundleBy(world, p)[f] = Run(p)[f]
      BY BundleFiles DEF Run, Command
    <3> QED BY ONLY <3>6, <3>7
  <2> QED BY <2>2, <2>3, <2>4
<1> QED BY <1>3, <1>4

\* As long as nobody edits the files of a bundle, no report is false: VERIFIED, reused and
\* created each mean what they say of the files, though other processes commit and die and
\* bundles are removed while it is being read (replay_and_verify, persist).
THEOREM ReportsTrue == world.edits = {} /\ Spec => ReportsAreTrue
<1> DEFINE True ==
      \A p \in Processes :
        LET read == process[p].read
            reports(d) == process[p].disposition = None /\ process'[p].disposition = d
        IN  /\ AtStep(p, "replay") /\ process'[p].exit = 0 => \E q \in Executed : Vouched(read) = Vouched(Run(q))
            /\ reports("reused") => \A f \in Range(CanonicalFiles) : read[f] = Run(p)[f]
            /\ reports("created") =>
                 \A f \in Range(CanonicalFiles) : directory'[Destination(p)].files[f] = Run(p)[f]
<1>1. StoreInv /\ [Next]_vars => True
  <2> SUFFICES ASSUME StoreInv, [Next]_vars PROVE True
    OBVIOUS
  <2> QED BY ReportStep
<1>2. world.edits = {} /\ Spec => []StoreInv
  BY StoreBegins, StoreStep, PTL DEF Spec
<1> HIDE DEF True
<1>3. world.edits = {} /\ Spec => [][True]_vars
  BY <1>1, <1>2, PTL DEF Spec
<1> QED BY <1>3 DEF True, ReportsAreTrue
==============================================================================
