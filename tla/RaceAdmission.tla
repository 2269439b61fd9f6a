---------------------------- MODULE RaceAdmission ----------------------------
(***************************************************************************)
(* How a race comes to run against a catalog release.  A publisher copies  *)
(* releases over a directory file by file; a service reads the directory   *)
(* (from_release_dir), or a browser is handed a bundle (from_bundle), and  *)
(* resolves what it read to a snapshot; each entry point of the simulator  *)
(* then admits or refuses a request against that snapshot                  *)
(* (pitgun-racing-simulator catalog.rs, lib.rs and workload.rs).           *)
(*                                                                         *)
(* A request is a record: field (competitor -> driver id or "none"),       *)
(* policy (the race input passes the tuning policy), vehicle (or "none"),  *)
(* track, payload (the geometry the caller supplies: "none", "given" or    *)
(* "malformed"), selections (competitor -> component selection), fuel (0   *)
(* is no override), timeline (the instruction timeline is valid for the race),   *)
(* modes (competitors with a driving mode), sessions, profile, drivers and *)
(* parameters (what an offline experiment supplies), model (what the       *)
(* contract names), pack, release, bound (input digest is the contract's), *)
(* shaped (the signature has the shape of one) and completed (the decision *)
(* history is the envelope's).                                             *)
(***************************************************************************)
EXTENDS RacingCatalog, V3Profile

CONSTANTS Releases,   \* release name -> its documents, as published
          Updates,    \* pairs <<old, new>>: the publications explored
          Bundles,    \* the bundles a browser may be handed
          Requests,   \* entry point -> the requests made of it
          Torn        \* the bytes of a file being written: they do not parse

VARIABLES dir,          \* key -> bytes, the release directory
          publishing,   \* the release being copied over it, or "none"
          read,         \* what the loader has read so far, in order
          loading,      \* whether the loader is between two reads
          snapshot,     \* the resolved snapshot, or NoSnapshot
          run           \* the last request served and its outcome, or NoRun

vars == <<dir, publishing, read, loading, snapshot, run>>

NoSnapshot == [loaded |-> FALSE]
NoRun == [entry |-> "none"]

(***************************************************************************)
(* The release directory and its publisher.                                *)
(***************************************************************************)
Documents == <<<<"document", "catalog">>, <<"document", "release">>,
               <<"document", "simulation">>, <<"document", "presentation">>>>

Contents(b) ==
    [k \in Range(Documents) |->
        CASE k[2] = "catalog" -> b.manifest
          [] k[2] = "release" -> b.identity
          [] k[2] = "simulation" -> b.simulation
          [] k[2] = "presentation" -> b.presentation] @@ b.files

Publish(old, new) ==
    /\ publishing = "none" /\ dir = Contents(Releases[old])
    /\ publishing' = new
    /\ UNCHANGED <<dir, read, loading, snapshot, run>>

(* A file being written in place is seen torn.                             *)
BeginWrite(k) ==
    /\ publishing /= "none"
    /\ LET new == Contents(Releases[publishing])
       IN  k \in DOMAIN new /\ (k \in DOMAIN dir => dir[k] \notin {new[k], Torn})
    /\ dir' = (k :> Torn) @@ dir
    /\ UNCHANGED <<publishing, read, loading, snapshot, run>>

WriteFile(k) ==
    /\ publishing /= "none"
    /\ LET new == Contents(Releases[publishing])
       IN  k \in DOMAIN dir /\ dir[k] = Torn /\ dir' = [dir EXCEPT ![k] = new[k]]
    /\ UNCHANGED <<publishing, read, loading, snapshot, run>>

(***************************************************************************)
(* The loader.  It reads the four documents, then every file the index it  *)
(* read names; it gives up at a missing file, and at a manifest or index   *)
(* that does not parse when it needs what the document names.              *)
(***************************************************************************)
Indexed == Content[read[3]].resources
ReadAll == Len(read) >= 4 /\ Len(read) = 4 + Len(Indexed)
NextKey == IF Len(read) < 4 THEN Documents[Len(read) + 1] ELSE Indexed[Len(read) - 3].path

CanContinue ==
    /\ Len(read) = 2 => Content[read[1]].strict
    /\ Len(read) = 4 => Content[read[3]].strict

Assembled(seq) ==
    LET named == Content[seq[3]].resources
        at(p) == CHOOSE i \in DOMAIN named : named[i].path = p
    IN  [manifest |-> seq[1], identity |-> seq[2], simulation |-> seq[3], presentation |-> seq[4],
         files |-> [p \in {r.path : r \in Range(named)} |-> seq[4 + at(p)]],
         twice |-> {named[i].path : i \in {j \in DOMAIN named : at(named[j].path) /= j}}]

BeginLoad ==
    /\ ~loading /\ snapshot = NoSnapshot
    /\ loading' = TRUE /\ read' = <<>>
    /\ UNCHANGED <<dir, publishing, snapshot, run>>

ReadNext ==
    /\ loading /\ CanContinue /\ ~ReadAll
    /\ IF NextKey \in DOMAIN dir
       THEN read' = Append(read, dir[NextKey]) /\ loading' = loading
       ELSE read' = <<>> /\ loading' = FALSE
    /\ UNCHANGED <<dir, publishing, snapshot, run>>

GiveUp ==
    /\ loading /\ ~CanContinue
    /\ loading' = FALSE /\ read' = <<>>
    /\ UNCHANGED <<dir, publishing, snapshot, run>>

Resolve ==
    /\ loading /\ CanContinue /\ ReadAll
    /\ snapshot' = IF FromBytes(Assembled(read)) THEN Snapshot(Assembled(read)) ELSE NoSnapshot
    /\ loading' = FALSE /\ read' = <<>>
    /\ UNCHANGED <<dir, publishing, run>>

ReceiveBundle(b) ==
    /\ ~loading /\ snapshot = NoSnapshot
    /\ snapshot' = IF FromBytes(b) THEN Snapshot(b) ELSE NoSnapshot
    /\ UNCHANGED <<dir, publishing, read, loading, run>>

Restart ==
    /\ loading \/ snapshot /= NoSnapshot
    /\ loading' = FALSE /\ read' = <<>> /\ snapshot' = NoSnapshot /\ run' = NoRun
    /\ UNCHANGED <<dir, publishing>>

Historical == [version |-> 0, has |-> {}, valid |-> TRUE, thermal |-> "none"]

(***************************************************************************)
(* The grid: what each competitor drives.  candidate is the power-unit     *)
(* thermal profile, or NoResource; experiment says which drivers and modes *)
(* control the cars.                                                       *)
(***************************************************************************)
NoExperiment == [kind |-> "none", drivers |-> {}]

Selection(req, c) == IF c \in DOMAIN req.selections THEN req.selections[c] ELSE NoSelection

DriverGiven(experiment, req, c) == req.field[c] /= "none" /\ req.field[c] \in experiment.drivers

Controlled(profile, experiment) == profile.version >= 10 /\ experiment.kind /= "none"

EffectiveProfileOfVehicle(d, req, profile, candidate, c) ==
    LET engine == EngineId(d, req.vehicle, NoSelection)
    IN  IF candidate = NoResource THEN profile
        ELSE [profile EXCEPT !.thermal = candidate.bound[engine], !.has = @ \cup {"thermal"}]

EffectiveProfile(d, req, profile, candidate, c) ==
    LET engine == EngineId(d, req.vehicle, Selection(req, c))
    IN  IF candidate = NoResource THEN profile
        ELSE [profile EXCEPT !.thermal = candidate.bound[engine], !.has = @ \cup {"thermal"}]

ThermalFound(d, req, candidate, c) ==
    \/ candidate = NoResource
    \/ EngineId(d, req.vehicle, Selection(req, c)) \in DOMAIN candidate.bound

CompetitorResolves(d, req, profile, candidate, experiment, c) ==
    LET selection == Selection(req, c)
        installed == Installed(d, req.vehicle, selection)
    IN  /\ c \in DOMAIN req.selections => SelectionValid(selection)
        /\ InstalledExists(d, req.vehicle, selection)
        /\ Owns(d, "capability") => CapabilitiesFound(Owned(d, "capability"), installed)
        /\ ThermalFound(d, req, candidate, c)
        /\ profile = Historical \/ ProfileValid(EffectiveProfile(d, req, profile, candidate, c))
        /\ Controlled(profile, experiment) =>
              /\ DriverGiven(experiment, req, c)
              /\ experiment.kind = "static" => c \in req.modes

(* track_from_payload: a caller's geometry replaces the circuit's, which   *)
(* must still exist and keeps its pit loss.                                *)
TrackFromPayload(req) == req.payload = "given"

RaceTrack(d, req) ==
    [pitLoss |-> GetTrack(d, req.track),
     geometry |-> IF req.payload = "none" THEN GetTrack(d, req.track) ELSE "caller"]

GridResolves(d, req, profile, candidate, experiment) ==
    /\ GetTrack(d, req.track) /= NoTrack
    /\ req.payload = "none" \/ TrackFromPayload(req)
    /\ DOMAIN req.selections \subseteq DOMAIN req.field
    /\ experiment.kind = "instructions" =>
          req.timeline /\ \A c \in DOMAIN req.field : DriverGiven(experiment, req, c)
    /\ \A c \in DOMAIN req.field : CompetitorResolves(d, req, profile, candidate, experiment, c)

Grid(d, req, profile, candidate, experiment) ==
    [c \in DOMAIN req.field |->
        LET installed == Installed(d, req.vehicle, Selection(req, c))
        IN  [installed |-> installed,
             thermal |-> EffectiveProfile(d, req, profile, candidate, c).thermal,
             driver |-> IF Controlled(profile, experiment) THEN req.field[c]
                        ELSE ResolveDriver(d, req.field[c]),
             capabilities |-> IF Owns(d, "capability")
                              THEN ResolveCapabilities(Owned(d, "capability"), installed)
                              ELSE NoResource]]

(***************************************************************************)
(* Starting a race.  An outcome is Refused or what the race runs with:     *)
(* model (the name of the semantics), tuning ("default" or whose           *)
(* parameters), profile, fuel, reserve, grid and lineage.                  *)
(***************************************************************************)
Refused == [ok |-> FALSE]
NoReserve == 0

RaceReady(req) == DOMAIN req.field /= {} /\ req.policy /\ req.vehicle /= "none"

NoSelections(req) == DOMAIN req.selections = {}

Started(d, req, profile, candidate, experiment, tuning, curvature, fuel) ==
    [ok |-> TRUE, tuning |-> tuning, curvature |-> curvature, version |-> profile.version,
     fuel |-> fuel, reserve |-> NoReserve, lineage |-> NoResource, track |-> RaceTrack(d, req),
     grid |-> Grid(d, req, profile, candidate, experiment)]

(* run_race_with_catalog_and_model_response.                               *)
StartHistorical(d, req, tuning, curvature) ==
    IF /\ NoSelections(req) /\ tuning /= "refused" /\ RaceReady(req)
       /\ GridResolves(d, req, Historical, NoResource, NoExperiment)
    THEN Started(d, req, Historical, NoResource, NoExperiment, tuning, curvature, 100)
    ELSE Refused

FuelOf(req) == IF req.fuel = 0 THEN 100 ELSE req.fuel
FuelInRange(req) == 1 <= FuelOf(req) /\ FuelOf(req) <= 200

(* run_race_with_catalog_and_v3_profile and the V3 part of                 *)
(* start_incremental_..._v3_component_profile.                             *)
StartV3(d, req, profile, candidate, experiment) ==
    IF /\ ProfileValid(profile) /\ RaceReady(req) /\ FuelInRange(req)
       /\ GridResolves(d, req, profile, candidate, experiment)
    THEN Started(d, req, profile, candidate, experiment, "profile", "continuous", FuelOf(req))
    ELSE Refused

(* run_race_with_catalog_and_v3_thermal_family_profile.                    *)
StartThermal(d, req, family) ==
    IF req.vehicle /= "none" /\ NoSelections(req) /\ req.vehicle \in DOMAIN family.bound
    THEN StartV3(d, req, Profile(8, {"thermal"}, family.bound[req.vehicle]), NoResource, NoExperiment)
    ELSE Refused

StartComponents(d, req, profile, candidate, experiment) ==
    IF /\ \/ profile.version = 9 /\ experiment.kind = "none"
          \/ profile.version \in {10, 11} /\ experiment.kind /= "none"
       /\ "thermal" \notin profile.has
    THEN StartV3(d, req, profile, candidate, experiment)
    ELSE Refused

StartPowerUnit(d, req, candidate) ==
    StartComponents(d, req, Profile(9, {}, "none"), candidate, NoExperiment)

Governs(d, families) == \A f \in families : Owns(d, f)

Instructed(drivers) == [kind |-> "instructions", drivers |-> drivers]

(* start_incremental_race_with_catalog_and_v3_timeline_candidate.          *)
StartTimeline(d, req) ==
    IF /\ Supports(d.manifest, "timeline")
       /\ Governs(d, {"power-unit", "driver-control", "instructions"}) /\ DriversV2(d) /= {}
    THEN StartComponents(d, req, Profile(11, {"control"}, "none"), Owned(d, "power-unit"),
                         Instructed(DriversV2(d)))
    ELSE Refused

(* start_incremental_race_with_catalog_and_v3_fuel_contract_candidate: the *)
(* load is the catalog's and the reserve is set on the started session.    *)
StartFuel(d, req) ==
    LET contract == Owned(d, "fuel-contract")
        started == StartComponents(d, [req EXCEPT !.fuel = contract.initial],
                                   Profile(11, {"control"}, "none"), Owned(d, "power-unit"),
                                   Instructed(DriversV2(d)))
    IN  IF /\ Supports(d.manifest, "fuel") /\ req.fuel = 0
           /\ Governs(d, {"fuel-contract", "power-unit", "driver-control", "instructions"})
           /\ DriversV2(d) /= {} /\ started.ok
        THEN [started EXCEPT !.reserve = contract.reserve]
        ELSE Refused

(* resolve_catalog_tuning_response: whose parameters shape the tuning; the *)
(* caller that names no model takes the catalog's parameters as they are.  *)
TuningOf(d, model) ==
    IF ModelParameters(d) = {} THEN "default"
    ELSE LET f == The(ModelParameters(d))
         IN  IF model = "unnamed" \/ WrittenFor(f, model) THEN f.model ELSE "refused"

(* RacingWorkload::for_model and execute.                                  *)
CurvatureOf(model) == IF model = "v1" THEN "binary" ELSE "continuous"

Execute(d, model, req) ==
    CASE model = "thermal" ->
            IF Owns(d, "thermal") THEN StartThermal(d, req, Owned(d, "thermal")) ELSE Refused
      [] model = "component" ->
            IF Owns(d, "power-unit") THEN StartPowerUnit(d, req, Owned(d, "power-unit")) ELSE Refused
      [] model = "timeline" -> StartTimeline(d, req)
      [] model = "fuel" -> StartFuel(d, req)
      [] OTHER -> StartHistorical(d, req, TuningOf(d, model), CurvatureOf(model))

LineageFamilies == {"model-parameters", "thermal", "power-unit", "capability", "fuel-contract"}

(* RacingExecutionResolutionV1::from_catalog.                              *)
Lineage(d, model) ==
    LET owned == {f \in LineageFamilies : \E p \in DOMAIN d.files : p[1] = f}
    IN  IF owned = {} THEN NoResource
        ELSE [strict |-> TRUE, families |-> owned, model |-> model,
              release |-> d.identity, pack |-> d.manifest.simulation.identity]

WithLineage(outcome, lineage) == IF outcome.ok THEN [outcome EXCEPT !.lineage = lineage] ELSE Refused

ContractOf(req) == [model |-> ModelOf[req.model], version |-> "v1", pack |-> req.pack]

(***************************************************************************)
(* The entry points.                                                       *)
(***************************************************************************)
Serve(entry, req, outcome) ==
    /\ snapshot /= NoSnapshot /\ run = NoRun
    /\ run' = [entry |-> entry, request |-> req, outcome |-> outcome]
    /\ UNCHANGED <<dir, publishing, read, loading, snapshot>>

RunRace(req) ==
    Serve("race", req, StartHistorical(snapshot, req, TuningOf(snapshot, "unnamed"), "binary"))

RunSessions(req) ==
    Serve("sessions", req,
          IF req.sessions = 0 THEN Refused
          ELSE StartHistorical(snapshot, req, TuningOf(snapshot, "unnamed"), "binary"))

RunWithParameters(req) ==
    Serve("parameters", req,
          IF /\ CompatibleFor(snapshot.manifest.compatibility, ModelOf[req.model], "v1")
             /\ ParametersValid(req.parameters) /\ WrittenFor(req.parameters, req.model)
          THEN StartHistorical(snapshot, req, req.parameters.model, "continuous")
          ELSE Refused)

RunProfile(req) == Serve("profile", req, StartV3(snapshot, req, req.profile, NoResource, NoExperiment))

RunThermal(req) == Serve("thermal", req, StartThermal(snapshot, req, Reviewed["thermal"]))

RunPowerUnit(req) == Serve("power unit", req, StartPowerUnit(snapshot, req, Reviewed["power-unit"]))

RunDriverControl(req) ==
    Serve("driver control", req,
          StartComponents(snapshot, req, req.profile, Reviewed["power-unit"],
                          [kind |-> "static", drivers |-> req.drivers]))

RunDriverInstructions(req) ==
    Serve("driver instructions", req,
          StartComponents(snapshot, req, req.profile, Reviewed["power-unit"], Instructed(req.drivers)))

RunTimeline(req) == Serve("timeline", req, StartTimeline(snapshot, req))
RunFuel(req) == Serve("fuel", req, StartFuel(snapshot, req))

(* execute_authorized_race_application: the static workload runs with an   *)
(* empty timeline, and its lineage is optional.                            *)
ExecuteAuthorized(req) ==
    Serve("authorized", req,
          IF /\ ValidForRun(snapshot.manifest, ContractOf(req))
             /\ req.model \in KnownModels /\ req.bound
          THEN WithLineage(Execute(snapshot, req.model, [req EXCEPT !.timeline = TRUE]),
                           Lineage(snapshot, req.model))
          ELSE Refused)

(* start_authorized_dynamic_racing_session: the lineage is required.       *)
StartAuthorizedDynamic(req) ==
    Serve("dynamic", req,
          IF /\ req.shaped /\ req.model \in {"timeline", "fuel"}
             /\ ValidForRun(snapshot.manifest, ContractOf(req))
             /\ snapshot.identity = req.release
             /\ req.bound /\ Owns(snapshot, "instructions") /\ req.completed
             /\ Lineage(snapshot, req.model) /= NoResource
          THEN WithLineage(Execute(snapshot, req.model, req), Lineage(snapshot, req.model))
          ELSE Refused)

(* The race is over; a snapshot keeps nothing of the races it served.      *)
Return ==
    /\ run /= NoRun
    /\ run' = NoRun
    /\ UNCHANGED <<dir, publishing, read, loading, snapshot>>

Init ==
    /\ dir \in {Contents(Releases[r]) : r \in DOMAIN Releases}
    /\ publishing = "none" /\ read = <<>> /\ loading = FALSE
    /\ snapshot = NoSnapshot /\ run = NoRun

Load == BeginLoad \/ ReadNext \/ GiveUp \/ Resolve

Start ==
    \/ \E req \in Requests["race"] : RunRace(req)
    \/ \E req \in Requests["sessions"] : RunSessions(req)
    \/ \E req \in Requests["parameters"] : RunWithParameters(req)
    \/ \E req \in Requests["profile"] : RunProfile(req)
    \/ \E req \in Requests["thermal"] : RunThermal(req)
    \/ \E req \in Requests["power unit"] : RunPowerUnit(req)
    \/ \E req \in Requests["driver control"] : RunDriverControl(req)
    \/ \E req \in Requests["driver instructions"] : RunDriverInstructions(req)
    \/ \E req \in Requests["timeline"] : RunTimeline(req)
    \/ \E req \in Requests["fuel"] : RunFuel(req)
    \/ \E req \in Requests["authorized"] : ExecuteAuthorized(req)
    \/ \E req \in Requests["dynamic"] : StartAuthorizedDynamic(req)

Next ==
    \/ \E u \in Updates : Publish(u[1], u[2])
    \/ \E k \in Range(Documents) \cup Range(PathOrder) : BeginWrite(k) \/ WriteFile(k)
    \/ Load
    \/ \E b \in Bundles : ReceiveBundle(b)
    \/ Restart
    \/ Start
    \/ Return

Spec == Init /\ [][Next]_vars

(***************************************************************************)
(* Properties.                                                             *)
(***************************************************************************)
\* However a load interleaves with a publication, and whatever a bundle
\* leaves out, repeats or mixes, a snapshot that resolves is exactly one
\* published release: the identity pins the manifest, the manifest the two
\* indexes and the index every file (catalog.rs:314-483, 612-638).
SnapshotIsOneRelease ==
    snapshot /= NoSnapshot => \E r \in DOMAIN Releases : snapshot = Snapshot(Releases[r])

Selections(d) ==
    {[k \in ComponentKinds |-> CASE k = "aero" -> a [] k = "chassis" -> c [] k = "engines" -> e [] k = "tires" -> t] :
        a \in Components(d, "aero"), c \in Components(d, "chassis"),
        e \in Components(d, "engines"), t \in Components(d, "tires")}

\* A catalog that loads can be raced: every vehicle resolves with every
\* selection of components the catalog holds and with capabilities for
\* what is then installed, a driver is always found, and of the ids a
\* browser is shown every circuit whose listed id is canonical and no
\* track's own is found and shown under it, every engine and tire can be
\* installed and every component has its capabilities (lib.rs:4432-5062,
\* components.rs:141-243).
LoadedCatalogUsable ==
    LET d == snapshot
    IN  snapshot /= NoSnapshot /\ run = NoRun =>
          /\ "default" \in Drivers(d)
          /\ \A v \in Stems(d, "vehicles"), s \in {NoSelection} \cup Selections(d) :
                /\ InstalledExists(d, v, s)
                /\ Owns(d, "capability") =>
                      CapabilitiesFound(Owned(d, "capability"), Installed(d, v, s))
          /\ \A listed \in Listing(d).circuits :
                listed = Normal[listed] /\ listed \notin TrackIds(d) => GetCircuit(d, listed) = listed
          /\ \A v \in Listing(d).vehicles, e \in Listing(d).engines :
                InstalledExists(d, v, "engines" :> e)
          /\ Owns(d, "capability") =>
                {<<c.kind, c.id>> : c \in Listing(d).components}
                  = {p \in DOMAIN d.files : p[1] \in ComponentKinds}

OfflineExperiments == {"profile", "driver control", "driver instructions", "parameters"}

\* What a published workload runs with is the catalog's: no selection is
\* installed by a model that is not composed of components and none is
\* dropped by one that is; each car's thermal coefficients are those of the
\* engine actually installed in it, not of the vehicle it started from; the
\* capabilities reported are those of the same components; an instructed
\* race has only the catalog's drivers; a fuel-contract race has the
\* catalog's load and reserve whatever the request said (lib.rs:1999-2317,
\* 2451-2600).
AdmittedIsGoverned ==
    (run /= NoRun /\ run.outcome.ok) =>
      \A c \in DOMAIN run.request.field :
        LET car == run.outcome.grid[c]
            chosen == Selection(run.request, c)
        IN  /\ \A k \in DOMAIN chosen : car.installed[k] = chosen[k]
            /\ run.outcome.version < 9 /\ run.entry \notin OfflineExperiments =>
                  car.installed = Vehicle(snapshot, run.request.vehicle)
            /\ run.outcome.version >= 9 /\ run.entry /= "profile" =>
                  car.thermal = Reviewed["power-unit"].bound[car.installed["engines"]]
            /\ Owns(snapshot, "capability") => car.capabilities.installed = car.installed
            /\ run.outcome.version >= 10 /\ run.entry \notin OfflineExperiments =>
                  car.driver \in DriversV2(snapshot)
            /\ run.entry = "fuel" \/ (run.entry \in {"authorized", "dynamic"} /\ run.request.model = "fuel") =>
                  /\ run.outcome.fuel = Owned(snapshot, "fuel-contract").initial
                  /\ run.outcome.reserve = Owned(snapshot, "fuel-contract").reserve

Used(outcome, model) ==
    (IF outcome.tuning \in KnownModels THEN {"model-parameters"} ELSE {})
      \cup (IF outcome.version = 8 THEN {"thermal"} ELSE {})
      \cup (IF outcome.version >= 9 THEN {"power-unit"} ELSE {})
      \cup (IF outcome.version >= 9 THEN {"capability"} ELSE {})
      \cup (IF model = "fuel" THEN {"fuel-contract"} ELSE {})

\* The lineage an authorised run carries names the release and pack that
\* were authorised and every governed resource the physics used, and the
\* parameters used were written for the authorised model
\* (evidence.rs:92-127, lib.rs:3739-3793, 4069-4175).
LineageAccountsForRun ==
    (run /= NoRun /\ run.outcome.ok /\ run.entry \in {"authorized", "dynamic"}) =>
      LET used == Used(run.outcome, run.request.model)
          lineage == run.outcome.lineage
      IN  /\ run.outcome.tuning \in KnownModels => run.outcome.tuning = run.request.model
          /\ used /= {} => /\ lineage.strict /\ used \subseteq lineage.families
                           /\ lineage.pack = run.request.pack
                           /\ run.entry = "dynamic" => lineage.release = run.request.release

\* A catalog in use is one release, whole, and everything it offers can be raced.
CatalogIsWhole == SnapshotIsOneRelease /\ LoadedCatalogUsable

\* An admitted run uses what the catalog governs and its lineage says so.
RunIsGoverned == AdmittedIsGoverned /\ LineageAccountsForRun
=============================================================================
