---------------------------- MODULE RacingCatalog ----------------------------
(***************************************************************************)
(* The physical catalog a validated release resolves to (EmbeddedCatalog   *)
(* in pitgun-racing-simulator lib.rs): what each resource file contributes,*)
(* how the presentation index is laid over it, the reference checks, and   *)
(* the lookups a race makes.                                               *)
(*                                                                         *)
(* Before that, the immutable catalog release: a manifest, its release     *)
(* identity, the simulation and presentation indexes and the resource      *)
(* files, and the checks RacingCatalogSnapshot::from_bytes makes before    *)
(* any of it is used (pitgun-contract catalog.rs, pitgun-racing-contract   *)
(* catalog.rs, pitgun-racing-simulator catalog.rs).                        *)
(*                                                                         *)
(* A resource file is represented by the digest of its bytes, a document   *)
(* by the digest of its canonical form: equal digests are equal contents,  *)
(* and Content gives what parsing yields.  The documents of a release are  *)
(* a record b of such digests: manifest, identity, simulation,             *)
(* presentation, files (path -> bytes) and twice (the paths supplied more  *)
(* than once); the snapshot d they resolve to holds them parsed.  A        *)
(* resource id or path is a pair <<category, name>>; a path that is not    *)
(* under simulation/ has the category "outside".  Content whose field      *)
(* strict is FALSE is what the strict JSON parser or the schema refuses;   *)
(* valid stands for the ranges of the numbers in it.  Text order, on which *)
(* the canonical-order checks rest, is the order of the two constant       *)
(* sequences.                                                              *)
(***************************************************************************)
EXTENDS Naturals, Sequences, FiniteSets, Functions, SequencesExt

------------------------------------------------------------------------------
(* The release *)

CONSTANTS Content,        \* digest -> the parsed content of the bytes it digests
          NameOrder,      \* the plain names in use, in text order
          PathOrder,      \* the <<category, name>> pairs in use, in text order
          KnownModels,    \* the model names this build links
          ModelOf,        \* model name -> its exact identity [id, version, digest]
          Reviewed        \* thermal profile kind -> the one content this build accepts

Rank(order, x) == CHOOSE i \in DOMAIN order : order[i] = x
StrictlyOrdered(order, s) ==
    \A i \in 1 .. Len(s) - 1 : Rank(order, s[i]) < Rank(order, s[i + 1])

(***************************************************************************)
(* pitgun-contract: the manifest.                                          *)
(***************************************************************************)
PackValid(pack) == pack.identity.digest = pack.index

CompatibilityValid(c) ==
    /\ c.contracts /= <<>>
    /\ \A i \in 1 .. Len(c.contracts) - 1 : c.contracts[i] /= c.contracts[i + 1]
    /\ c.models /= <<>>
    /\ StrictlyOrdered(NameOrder, [i \in DOMAIN c.models |-> c.models[i].id])
    /\ \A i \in DOMAIN c.models : c.models[i].versions /= {}

CompatibleFor(c, model, contractVersion) ==
    /\ CompatibilityValid(c)
    /\ contractVersion \in Range(c.contracts)
    /\ \E m \in Range(c.models) : m.id = model.id /\ model.version \in m.versions

ManifestValid(m) ==
    PackValid(m.simulation) /\ PackValid(m.presentation) /\ CompatibilityValid(m.compatibility)

ReleaseIdentity(manifest) ==
    [id |-> Content[manifest].id, version |-> Content[manifest].version, digest |-> manifest]

IdentityVerified(manifest, identity) ==
    ManifestValid(Content[manifest]) /\ ReleaseIdentity(manifest) = identity

ValidForRun(m, contract) ==
    /\ ManifestValid(m)
    /\ CompatibleFor(m.compatibility, contract.model, contract.version)
    /\ m.simulation.identity = contract.pack

Supports(m, name) == CompatibleFor(m.compatibility, ModelOf[name], "v1")

KnownCompatibility(m) == \E name \in KnownModels : Supports(m, name)

(***************************************************************************)
(* pitgun-racing-contract: the two indexes.                                *)
(***************************************************************************)
Field(s, f) == [i \in DOMAIN s |-> s[i][f]]

SimulationIndexValid(index) ==
    /\ index.resources /= <<>>
    /\ StrictlyOrdered(PathOrder, Field(index.resources, "id"))
    /\ StrictlyOrdered(PathOrder, Field(index.resources, "path"))
    /\ \A r \in Range(index.resources) : r.path[1] /= "outside"

PresentationIndexValid(index) ==
    /\ StrictlyOrdered(NameOrder, Field(index.circuits, "source"))
    /\ StrictlyOrdered(NameOrder, Field(index.drivers, "id"))
    /\ \A i \in DOMAIN index.circuits : index.circuits[i].complete
    /\ \A i \in DOMAIN index.drivers : index.drivers[i].complete

(***************************************************************************)
(* The resources a catalog owns for its models.  GovernedOne is the scheme *)
(* the five single-resource families share: at most one entry carries the  *)
(* family's id or its path, that entry carries both, and the family is     *)
(* present exactly when a model that needs it is supported.                *)
(***************************************************************************)
Governed(family) == <<family, "governed">>

Entry(index, family) ==
    {i \in DOMAIN index.resources :
        index.resources[i].id = Governed(family) \/ index.resources[i].path = Governed(family)}

Entries(index, family) ==
    {i \in DOMAIN index.resources :
        index.resources[i].id[1] = family \/ index.resources[i].path[1] = family}

The(set) == CHOOSE x \in set : TRUE
IdAt(index, i) == index.resources[i].id
PathAt(index, i) == index.resources[i].path

Placed(index, i, family) == IdAt(index, i) = Governed(family) /\ PathAt(index, i) = Governed(family)

GovernedOne(index, family, required) ==
    LET found == Entry(index, family)
    IN  IF found = {} THEN ~required
        ELSE required /\ Cardinality(found) = 1 /\ Placed(index, The(found), family)

ComponentModels == {"component", "timeline", "fuel"}
SupportsOneOf(m, names) == \E name \in names : Supports(m, name)

(* from_exact_json: the one candidate this build reviewed, field by field. *)
ExactThermalFamily(f) == f = Reviewed["thermal"]
ExactPowerUnitThermal(f) == f = Reviewed["power-unit"]

ThermalFamilyResolves(m, index, files) ==
    /\ GovernedOne(index, "thermal", Supports(m, "thermal"))
    /\ \A i \in Entry(index, "thermal") : ExactThermalFamily(files[PathAt(index, i)])

PowerUnitThermalResolves(m, index, files) ==
    /\ GovernedOne(index, "power-unit", SupportsOneOf(m, ComponentModels))
    /\ \A i \in Entry(index, "power-unit") : ExactPowerUnitThermal(files[PathAt(index, i)])

FuelContractValid(f) ==
    /\ f.strict /\ f.valid
    /\ 1 <= f.initial /\ f.initial <= 200
    /\ 0 <= f.reserve /\ f.reserve < f.initial

FuelContractResolves(m, index, files) ==
    /\ GovernedOne(index, "fuel-contract", Supports(m, "fuel"))
    /\ \A i \in Entry(index, "fuel-contract") : FuelContractValid(files[PathAt(index, i)])

ComponentKinds == {"aero", "chassis", "engines", "tires"}

(* ComponentCapabilityProfileV1::validate_against: the profile defines     *)
(* exactly the components the index holds.                                 *)
CapabilityValidAgainst(profile, expected) ==
    /\ profile.components /= {}
    /\ profile.canonical
    /\ {<<c.kind, c.id>> : c \in profile.components} = expected

CapabilitiesResolve(m, index, files) ==
    /\ GovernedOne(index, "capability", SupportsOneOf(m, ComponentModels))
    /\ \A i \in Entry(index, "capability") :
          LET f == files[PathAt(index, i)]
          IN  f.strict /\ CapabilityValidAgainst(f, {p \in DOMAIN files : p[1] \in ComponentKinds})

InstructionProfileValid(f) == f.strict /\ f.valid
ControlProfileValid(f) == f.strict /\ f.valid
DriverResourceValid(f, name) == f.strict /\ f.valid /\ f.id = name

InstructionProfileResolves(index, files) ==
    LET found == Entry(index, "instructions")
    IN  /\ Cardinality(found) <= 1
        /\ \A i \in found :
              Placed(index, i, "instructions") /\ InstructionProfileValid(files[PathAt(index, i)])

(* One driver-control profile exactly when there are V2 drivers, and every *)
(* V2 driver file names the driver its id and its path name.               *)
DriverControlResolves(index, files) ==
    LET profile == Entry(index, "driver-control")
        drivers == Entries(index, "drivers-v2")
    IN  /\ Cardinality(profile) <= 1
        /\ (profile = {}) = (drivers = {})
        /\ \A i \in profile :
              Placed(index, i, "driver-control") /\ ControlProfileValid(files[PathAt(index, i)])
        /\ \A i \in drivers :
              /\ IdAt(index, i)[1] = "drivers-v2" /\ PathAt(index, i) = IdAt(index, i)
              /\ DriverResourceValid(files[PathAt(index, i)], IdAt(index, i)[2])

(* RacingModelParametersV1::validate and validate_for_model.               *)
ParametersValid(f) == f.strict /\ f.valid
WrittenFor(f, model) == f.model = model

ModelParametersResolve(m, index, files) ==
    LET found == Entries(index, "model-parameters")
    IN  /\ Cardinality(found) <= 1
        /\ \A i \in found :
              LET f == files[PathAt(index, i)]
              IN  /\ IdAt(index, i)[1] = "model-parameters" /\ PathAt(index, i) = IdAt(index, i)
                  /\ ParametersValid(f) /\ f.id = IdAt(index, i)
                  /\ WrittenFor(f, "v2") /\ Supports(m, "v2")

(* RacingCatalogSnapshot::from_bytes, on the documents b as bytes: every   *)
(* document is bound to the release identity by a chain of digests, and no *)
(* file is missing or left over.                                           *)
IndexedBy(b) == Content[b.simulation].resources

DigestsOfModels(b) ==
    \A i \in DOMAIN IndexedBy(b) :
        \/ IndexedBy(b)[i].path[1] \in ComponentKinds
        \/ b.files[IndexedBy(b)[i].path] = IndexedBy(b)[i].digest

DigestsMatch(b) ==
    \A i \in DOMAIN IndexedBy(b) : b.files[IndexedBy(b)[i].path] = IndexedBy(b)[i].digest

Supplied(b) ==
    /\ b.twice = {}
    /\ \A i \in DOMAIN IndexedBy(b) :
          LET r == IndexedBy(b)[i]
          IN  r.media = "application/json" /\ r.path \in DOMAIN b.files /\ Content[b.files[r.path]].strict
    /\ DigestsMatch(b)
    /\ DOMAIN b.files = {IndexedBy(b)[i].path : i \in DOMAIN IndexedBy(b)}

DocumentsBound(b) ==
    LET m == Content[b.manifest]
        index == Content[b.simulation]
        presentation == Content[b.presentation]
    IN  /\ m.strict /\ ManifestValid(m) /\ KnownCompatibility(m)
        /\ Content[b.identity].strict /\ IdentityVerified(b.manifest, Content[b.identity].value)
        /\ index.strict /\ SimulationIndexValid(index)
        /\ b.simulation = m.simulation.index
        /\ presentation.strict /\ PresentationIndexValid(presentation)
        /\ b.presentation = m.presentation.index
        /\ Supplied(b)

(* What the snapshot retains, parsed.                                      *)
Snapshot(b) ==
    [manifest |-> Content[b.manifest], identity |-> Content[b.identity].value,
     index |-> Content[b.simulation], presentation |-> Content[b.presentation],
     files |-> [p \in DOMAIN b.files |-> Content[b.files[p]]]]

ResourcesResolve(d) ==
    /\ ModelParametersResolve(d.manifest, d.index, d.files)
    /\ ThermalFamilyResolves(d.manifest, d.index, d.files)
    /\ PowerUnitThermalResolves(d.manifest, d.index, d.files)
    /\ CapabilitiesResolve(d.manifest, d.index, d.files)
    /\ InstructionProfileResolves(d.index, d.files)
    /\ DriverControlResolves(d.index, d.files)
    /\ FuelContractResolves(d.manifest, d.index, d.files)

(* The resource a resolved snapshot exposes for a family, or NoResource.   *)
NoResource == [strict |-> FALSE]
Owns(d, family) == Governed(family) \in DOMAIN d.files
Owned(d, family) == IF Owns(d, family) THEN d.files[Governed(family)] ELSE NoResource
ModelParameters(d) == {d.files[p] : p \in {q \in DOMAIN d.files : q[1] = "model-parameters"}}
DriversV2(d) == {p[2] : p \in {q \in DOMAIN d.files : q[1] = "drivers-v2"}}

------------------------------------------------------------------------------
(* The physical catalog *)

CONSTANTS Normal,   \* normalize_track_id, on the circuit names in use
          Slug      \* browser_track_id, on the circuit file names in use

Stems(d, category) == {p[2] : p \in {q \in DOMAIN d.files : q[1] = category}}

(***************************************************************************)
(* apply_file, one resource: its category must be known, and the           *)
(* categories with a parser must parse.  The governed categories were      *)
(* checked by the snapshot and are only acknowledged here.                 *)
(***************************************************************************)
Acknowledged == {"thermal", "power-unit", "capability", "instructions", "driver-control",
                 "drivers-v2", "fuel-contract"}

PartParses(f) == f.valid                     \* parse_aero, parse_chassis, parse_tire
EngineParses(f) == f.valid
CircuitParses(f) == f.valid
VehicleParses(f) == f.valid /\ {"aero", "chassis", "engines"} \subseteq DOMAIN f.parts

ApplyFile(path, f) ==
    \/ path[1] \in Acknowledged
    \/ path[1] \in {"aero", "chassis", "tires"} /\ PartParses(f)
    \/ path[1] = "engines" /\ EngineParses(f)
    \/ path[1] = "vehicles" /\ VehicleParses(f)
    \/ path[1] = "drivers"
    \/ path[1] = "circuits" /\ CircuitParses(f)
    \/ path[1] = "policies" /\ f.valid
    \/ path[1] = "model-parameters" /\ ParametersValid(f)

Components(d, kind) == Stems(d, kind)

(* A vehicle file may leave its tire out: it is then "medium".             *)
ParseVehicle(f) ==
    [k \in ComponentKinds |-> IF k \in DOMAIN f.parts THEN f.parts[k] ELSE "medium"]

Vehicle(d, v) == ParseVehicle(d.files[<<"vehicles", v>>])

IdOrStem(d, p) == IF "id" \in DOMAIN d.files[p] THEN d.files[p].id ELSE p[2]

(* A driver file without aggressiveness is skipped; the others are keyed   *)
(* by the id they carry, and a later file replaces an earlier one.         *)
Drivers(d) ==
    {IdOrStem(d, p) : p \in {q \in DOMAIN d.files : q[1] = "drivers" /\ d.files[q].legacy}}

(* Circuits are keyed by the normalised id they carry; of two files with   *)
(* one id the later path stays.                                            *)
TrackIdOf(d, p) == Normal[IdOrStem(d, p)]
CircuitFiles(d, id) == {p \in DOMAIN d.files : p[1] = "circuits" /\ TrackIdOf(d, p) = id}
TrackIds(d) == {TrackIdOf(d, p) : p \in {q \in DOMAIN d.files : q[1] = "circuits"}}
TrackFile(d, id) ==
    CHOOSE p \in CircuitFiles(d, id) : \A q \in CircuitFiles(d, id) : Rank(PathOrder, q) <= Rank(PathOrder, p)
BrowserIds(d) == [id \in TrackIds(d) |-> Slug[TrackFile(d, id)[2]]]

(***************************************************************************)
(* apply_presentation: each entry in turn is matched to the first track    *)
(* that still carries its normalised browser id, must name that track's    *)
(* model id, and gives the track the entry's own id.                       *)
(***************************************************************************)
FirstWith(browser, name) ==
    LET hits == {t \in DOMAIN browser : browser[t] = name}
    IN  CHOOSE t \in hits : \A u \in hits : Rank(NameOrder, t) <= Rank(NameOrder, u)

ApplyCircuit(state, entry) ==
    LET name == Normal[entry.id]
        found == state.ok /\ \E t \in DOMAIN state.browser : state.browser[t] = name
        track == FirstWith(state.browser, name)
    IN  IF found /\ track = Normal[entry.model]
        THEN [state EXCEPT !.browser[track] = entry.id]
        ELSE [state EXCEPT !.ok = FALSE]

PresentedCircuits(d) ==
    FoldLeft(ApplyCircuit, [ok |-> TRUE, browser |-> BrowserIds(d)], d.presentation.circuits)

ApplyPresentation(d) ==
    /\ Len(d.presentation.circuits) = Cardinality(TrackIds(d))
    /\ Len(d.presentation.drivers) = Cardinality(Drivers(d))
    /\ PresentedCircuits(d).ok
    /\ \A i \in DOMAIN d.presentation.drivers : d.presentation.drivers[i].id \in Drivers(d)

CatalogValid(d) ==
    /\ "default" \in Drivers(d)
    /\ \A v \in Stems(d, "vehicles"), k \in ComponentKinds : Vehicle(d, v)[k] \in Components(d, k)

FromSnapshot(d) ==
    /\ \A p \in DOMAIN d.files : ApplyFile(p, d.files[p])
    /\ ApplyPresentation(d)
    /\ CatalogValid(d)

(* RacingCatalogSnapshot::from_bytes as a whole.                           *)
FromBytes(b) == DocumentsBound(b) /\ ResourcesResolve(Snapshot(b)) /\ FromSnapshot(Snapshot(b))

(***************************************************************************)
(* Lookups.                                                                *)
(***************************************************************************)
NoTrack == "no track"
GetTrack(d, name) ==
    LET id == Normal[name]
        browser == PresentedCircuits(d).browser
    IN  IF id \in TrackIds(d) THEN id
        ELSE IF \E t \in DOMAIN browser : browser[t] = id THEN FirstWith(browser, id)
        ELSE NoTrack

(* catalog_snapshot_with_catalog: what a browser is shown to choose from.  *)
Listing(d) ==
    [circuits |-> Range(PresentedCircuits(d).browser),
     engines |-> Stems(d, "engines"), vehicles |-> Stems(d, "vehicles"), tires |-> Stems(d, "tires"),
     drivers |-> Drivers(d) \ {"default"},
     components |-> IF Owns(d, "capability") THEN Owned(d, "capability").components ELSE {}]

(* get_circuit_with_catalog shows the circuit found under its listed id.   *)
GetCircuit(d, name) ==
    LET t == GetTrack(d, name) IN IF t = NoTrack THEN NoTrack ELSE PresentedCircuits(d).browser[t]

(* A selection is a function from some of the component kinds to the ids   *)
(* that replace the baseline's; "padded" is an id that is not trimmed.     *)
SelectionValid(selection) ==
    DOMAIN selection /= {} /\ \A k \in DOMAIN selection : selection[k] /= "padded"

NoSelection == [k \in {} |-> k]

Installed(d, v, selection) ==
    [k \in ComponentKinds |-> IF k \in DOMAIN selection THEN selection[k] ELSE Vehicle(d, v)[k]]

InstalledExists(d, v, selection) ==
    /\ v \in Stems(d, "vehicles")
    /\ \A k \in ComponentKinds : Installed(d, v, selection)[k] \in Components(d, k)

EngineId(d, v, selection) ==
    IF "engines" \in DOMAIN selection THEN selection["engines"] ELSE Vehicle(d, v)["engines"]

ResolveDriver(d, id) == IF id \in Drivers(d) THEN id ELSE "default"

(***************************************************************************)
(* ComponentCapabilityProfileV1::resolve.                                  *)
(***************************************************************************)
Capabilities == {"downforce", "gear ratio", "turbo", "deployment", "recovery"}
RequiredKind(c) == IF c = "downforce" THEN "aero" ELSE "engines"

Definitions(profile, installed) ==
    {c \in profile.components : installed[c.kind] = c.id}

CapabilitiesFound(profile, installed) ==
    \A k \in ComponentKinds : \E c \in Definitions(profile, installed) : c.kind = k

ResolveCapabilities(profile, installed) ==
    LET supported == UNION {c.capabilities : c \in Definitions(profile, installed)}
    IN  [installed |-> installed,
         supported |-> supported,
         unavailable |-> [c \in Capabilities \ supported |-> installed[RequiredKind(c)]]]
==============================================================================
