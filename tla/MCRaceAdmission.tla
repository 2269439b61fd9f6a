--------------------------- MODULE MCRaceAdmission ---------------------------
(***************************************************************************)
(* Small releases of every published generation, releases with one         *)
(* semantic defect each, bundles with one transport fault each, and the    *)
(* requests that tell the entry points apart; and, as behaviours of their  *)
(* own, cars of three kinds tuned under every version of the V3 profile,   *)
(* with up to two points and any sliders.                                  *)
(***************************************************************************)
EXTENDS RaceAdmission

VARIABLES part,         \* whether this behaviour is about admission or the garage
          car, tuning   \* the garage's


TheNameOrder == <<"B", "BA", "BB", "TA", "TB", "b-a", "d1", "default", "racing", "racing-v3", "s1", "s2">>

ThePathOrder ==
    <<<<"aero", "a1">>, <<"aero", "a2">>, <<"capability", "governed">>, <<"chassis", "c1">>,
      <<"circuits", "a">>, <<"circuits", "b">>, <<"driver-control", "governed">>,
      <<"drivers", "d1">>, <<"drivers", "default">>, <<"drivers-v2", "d1">>,
      <<"engines", "e1">>, <<"engines", "e2">>, <<"fuel-contract", "governed">>,
      <<"instructions", "governed">>, <<"model-parameters", "p">>, <<"power-unit", "governed">>,
      <<"thermal", "governed">>, <<"tires", "medium">>, <<"vehicles", "v1">>>>

(* A function or sequence written out, so that TLC evaluates it once.      *)
Tabulated(f) == f @@ [x \in {} |-> x]
Listed(s) == s \o <<>>

(* The digest of a file's bytes, or of a document of a release, by name.   *)
Sum(x, y) == x \o "/" \o y

TheKnownModels == {"v1", "v2", "thermal", "component", "timeline", "fuel"}
TheModelOf == Tabulated([m \in TheKnownModels |->
                [id |-> IF m \in {"v1", "v2"} THEN "racing" ELSE "racing-v3", version |-> m, digest |-> m]])
TheReviewed ==
    ("thermal" :> [strict |-> TRUE, valid |-> TRUE, bound |-> ("v1" :> "modern")])
      @@ ("power-unit" :> [strict |-> TRUE, valid |-> TRUE,
                           bound |-> ("e1" :> "modern") @@ ("e2" :> "hybrid")])

TheNormal ==
    Tabulated([n \in {"B", "BA", "BB", "TA", "TB", "b-a", "b", "unknown"} |->
                 CASE n = "b-a" -> "BA" [] n = "b" -> "B" [] OTHER -> n])
TheSlug == ("a" :> "BA") @@ ("b" :> "BB")

(***************************************************************************)
(* Building a release from its files.                                      *)
(***************************************************************************)
Part == [strict |-> TRUE, valid |-> TRUE]
Driver(id) == [strict |-> TRUE, valid |-> TRUE, legacy |-> TRUE, id |-> id]
Circuit(id) == [strict |-> TRUE, valid |-> TRUE, id |-> id]
V1 == [strict |-> TRUE, valid |-> TRUE,
       parts |-> ("aero" :> "a1") @@ ("chassis" :> "c1") @@ ("engines" :> "e1")]

BaseFiles ==
    [p \in {<<"aero", "a1">>, <<"chassis", "c1">>, <<"engines", "e1">>, <<"tires", "medium">>,
            <<"vehicles", "v1">>, <<"drivers", "default">>, <<"circuits", "a">>} |-> Sum(p[1], p[2])] @@ [x \in {} |-> x]

Capable(kind, id) ==
    [kind |-> kind, id |-> id,
     capabilities |-> CASE kind = "aero" -> {"downforce"}
                        [] id = "e1" -> {"gear ratio"}
                        [] id = "e2" -> {"gear ratio", "deployment", "recovery"}
                        [] OTHER -> {}]
CapabilityFile(ids) ==
    [strict |-> TRUE, canonical |-> TRUE, components |-> {Capable(p[1], p[2]) : p \in ids}]
AllParts == {<<"aero", "a1">>, <<"aero", "a2">>, <<"chassis", "c1">>, <<"engines", "e1">>,
             <<"engines", "e2">>, <<"tires", "medium">>}

Plus(files, paths) == files @@ [p \in paths |-> Sum(p[1], p[2])]
ComponentFiles ==
    Plus(BaseFiles, {<<"aero", "a2">>, <<"engines", "e2">>, Governed("power-unit"), Governed("capability")})
DriverPaths == {Governed("driver-control"), Governed("instructions"), <<"drivers-v2", "d1">>}
FuelFiles == Plus(ComponentFiles, DriverPaths \cup {Governed("fuel-contract")})
ParameterFiles == Plus(BaseFiles, {<<"model-parameters", "p">>})
TwoFiles == Plus(BaseFiles, {<<"circuits", "b">>, <<"drivers", "d1">>})
Without(files, path) == Tabulated([p \in DOMAIN files \ {path} |-> files[p]])

Fuel(reserve) == [strict |-> TRUE, valid |-> TRUE, initial |-> 60, reserve |-> reserve]
Parameters(model) == [strict |-> TRUE, valid |-> TRUE, id |-> <<"model-parameters", "p">>, model |-> model]

(* What the resource files hold, other editions of a file included.        *)
Same ==
    {<<"aero", "a1">>, <<"aero", "a2">>, <<"chassis", "c1">>, <<"engines", "e1">>, <<"engines", "e2">>,
     <<"tires", "medium">>, Governed("driver-control"), Governed("instructions")}
FileContent ==
    [x \in {Sum(p[1], p[2]) : p \in Same} |-> Part]
      @@ ("engines/e1 tuned" :> [strict |-> TRUE, valid |-> TRUE, torque |-> "raised"])
      @@ ("vehicles/v1" :> V1)
      @@ ("drivers/default" :> Driver("default")) @@ ("drivers/d1" :> Driver("d1"))
      @@ ("circuits/a" :> Circuit("TA")) @@ ("circuits/b" :> Part)
      @@ ("drivers-v2/d1" :> [strict |-> TRUE, valid |-> TRUE, id |-> "d1"])
      @@ ("thermal/governed" :> TheReviewed["thermal"])
      @@ ("power-unit/governed" :> TheReviewed["power-unit"])
      @@ ("capability/governed" :> CapabilityFile(AllParts))
      @@ ("capability/without e2" :> CapabilityFile(AllParts \ {<<"engines", "e2">>}))
      @@ ("fuel-contract/governed" :> Fuel(5)) @@ ("fuel-contract/no margin" :> Fuel(60))
      @@ ("model-parameters/p" :> Parameters("v2")) @@ ("model-parameters/for v1" :> Parameters("v1"))

(* release name -> [version, models, files, circuits, drivers].            *)
Published(version, models, files, circuits, drivers) ==
    [version |-> version, models |-> models, files |-> files, circuits |-> circuits, drivers |-> drivers]
One == <<<<"BA", "TA">>>>
Two == <<<<"BA", "TA">>, <<"BB", "B">>>>
Catalogs ==
    [v1 |-> Published("1.0", {"v1"}, BaseFiles, One, <<"default">>),
     v1tuned |-> Published("1.0", {"v1"}, [BaseFiles EXCEPT ![<<"engines", "e1">>] = "engines/e1 tuned"],
                           One, <<"default">>),
     v2 |-> Published("1.2", {"v1", "v2"}, ParameterFiles, One, <<"default">>),
     rawId |-> Published("1.0", {"v1"}, BaseFiles, <<<<"b-a", "TA">>>>, <<"default">>),
     two |-> Published("1.1", {"v1"}, TwoFiles, Two, <<"d1", "default">>),
     thermal |-> Published("1.5", {"thermal"}, Plus(BaseFiles, {Governed("thermal")}), One, <<"default">>),
     component |-> Published("1.6", {"component"}, ComponentFiles, One, <<"default">>),
     timeline |-> Published("1.8", {"timeline", "component"}, Plus(ComponentFiles, DriverPaths), One, <<"default">>),
     fuel |-> Published("1.9", {"fuel", "timeline"}, FuelFiles, One, <<"default">>),
     driverless |-> Published("1.8", {"timeline"}, ComponentFiles, One, <<"default">>),
     noDefault |-> Published("1.0", {"v1"}, [BaseFiles EXCEPT ![<<"drivers", "default">>] = "drivers/d1"],
                             One, <<"d1">>),
     noTire |-> Published("1.0", {"v1"}, Without(BaseFiles, <<"tires", "medium">>), One, <<"default">>),
     undefinedPart |-> Published("1.6", {"component"},
                                 [ComponentFiles EXCEPT ![Governed("capability")] = "capability/without e2"],
                                 One, <<"default">>),
     otherModel |-> Published("1.2", {"v1", "v2"},
                              [ParameterFiles EXCEPT ![<<"model-parameters", "p">>] = "model-parameters/for v1"],
                              One, <<"default">>),
     unpresented |-> Published("1.1", {"v1"}, TwoFiles, One, <<"d1", "default">>),
     noMargin |-> Published("1.9", {"fuel"},
                            [FuelFiles EXCEPT ![Governed("fuel-contract")] = "fuel-contract/no margin"],
                            One, <<"default">>),
     ungoverned |-> Published("1.5", {"thermal"}, BaseFiles, One, <<"default">>)]

IndexOf(files) ==
    LET paths == SelectSeq(ThePathOrder, LAMBDA p : p \in DOMAIN files)
    IN  [strict |-> TRUE,
         resources |-> Listed([i \in DOMAIN paths |->
             [id |-> paths[i], path |-> paths[i], media |-> "application/json", digest |-> files[paths[i]]]])]

PresentationOf(c) ==
    [strict |-> TRUE,
     circuits |-> Listed([i \in DOMAIN c.circuits |->
        [source |-> IF i = 1 THEN "s1" ELSE "s2", id |-> c.circuits[i][1], model |-> c.circuits[i][2],
         complete |-> TRUE]]),
     drivers |-> Listed([i \in DOMAIN c.drivers |-> [id |-> c.drivers[i], complete |-> TRUE]])]

ManifestOf(name, c) ==
    LET ofId(id) == {m \in c.models : TheModelOf[m].id = id}
        entry(id) == IF ofId(id) = {} THEN <<>> ELSE <<[id |-> id, versions |-> ofId(id)]>>
        pack(n) == [identity |-> [id |-> n, version |-> c.version, digest |-> Sum(name, n)], index |-> Sum(name, n)]
    IN  [strict |-> TRUE, id |-> "racing-catalog", version |-> c.version,
         compatibility |-> [contracts |-> <<"v1">>, models |-> entry("racing") \o entry("racing-v3")],
         simulation |-> pack("simulation"), presentation |-> pack("presentation")]

TheTorn == "torn"
Unparsed == [strict |-> FALSE, resources |-> <<>>]

Of(n) == [manifest |-> Sum(n, "manifest"), identity |-> Sum(n, "identity"), simulation |-> Sum(n, "simulation"),
          presentation |-> Sum(n, "presentation"), files |-> Catalogs[n].files, twice |-> {}]
TheReleases == Tabulated([n \in DOMAIN Catalogs |-> Of(n)])

DocumentsOf(n) ==
    (Of(n).manifest :> ManifestOf(n, Catalogs[n])) @@ (Of(n).simulation :> IndexOf(Catalogs[n].files))
      @@ (Of(n).presentation :> PresentationOf(Catalogs[n]))
      @@ (Of(n).identity :> [strict |-> TRUE, value |-> [id |-> "racing-catalog", version |-> Catalogs[n].version,
                                                         digest |-> Of(n).manifest]])

Names == <<"v1", "v1tuned", "v2", "rawId", "two", "thermal", "component", "timeline", "fuel", "driverless", "noDefault",
           "noTire", "undefinedPart", "otherModel", "unpresented", "noMargin", "ungoverned">>
TheContent ==
    FoldLeft(LAMBDA all, n : all @@ DocumentsOf(n), FileContent @@ (TheTorn :> Unparsed), Names)

TheUpdates == {<<"v1", "v1tuned">>, <<"component", "undefinedPart">>}

TheBundles ==
    LET r == TheReleases["component"]
    IN  {r, [r EXCEPT !.files = Without(@, <<"engines", "e2">>)],
         [r EXCEPT !.files = Plus(@, {<<"drivers", "d1">>})],
         [r EXCEPT !.twice = {<<"engines", "e1">>}],
         [r EXCEPT !.identity = "timeline/identity"],
         [r EXCEPT !.simulation = "undefinedPart/simulation", !.files = TheReleases["undefinedPart"].files],
         [r EXCEPT !.presentation = "rawId/presentation"],
         [r EXCEPT !.manifest = TheTorn]}

(***************************************************************************)
(* Requests: one that every entry point can serve, and variations.         *)
(***************************************************************************)
Base(model, release) ==
    [field |-> ("player" :> "d1") @@ ("rival" :> "d1"),
     policy |-> TRUE, vehicle |-> "v1", track |-> "BA", payload |-> "none", selections |-> [c \in {} |-> c],
     fuel |-> 0, timeline |-> TRUE, modes |-> {"player", "rival"}, sessions |-> 1,
     profile |-> Profile(11, {"control"}, "none"), drivers |-> {"d1"}, parameters |-> Parameters("v2"),
     model |-> model, pack |-> TheContent[Sum(release, "manifest")].simulation.identity,
     release |-> TheContent[Sum(release, "identity")].value,
     bound |-> TRUE, shaped |-> TRUE, completed |-> TRUE]

Select(kind, id) == [c \in {"rival"} |-> [k \in {kind} |-> id]]

(* What any race can get wrong, and what only an authorised one can.       *)
Common(base) ==
    {base, [base EXCEPT !.selections = Select("engines", "e2")],
     [base EXCEPT !.field = [c \in {"player", "rival"} |-> IF c = "player" THEN "d1" ELSE "none"]],
     [base EXCEPT !.fuel = 80], [base EXCEPT !.track = "unknown"],
     [base EXCEPT !.payload = "given"], [base EXCEPT !.payload = "malformed"]}
Selecting(base) ==
    {[base EXCEPT !.selections = Select("aero", "a2")], [base EXCEPT !.selections = Select("engines", "e3")],
     [base EXCEPT !.selections = [c \in {"rival"} |-> NoSelection]],
     [base EXCEPT !.selections = [c \in {"stranger"} |-> [k \in {"engines"} |-> "e2"]]]}
Authorized(base) == {base, [base EXCEPT !.bound = FALSE], [base EXCEPT !.selections = Select("engines", "e2")]}

Plain == Base("v1", "v1")
TheRequests == Tabulated(
    [entry \in {"race", "sessions", "parameters", "profile", "thermal", "power unit", "driver control",
                "driver instructions", "timeline", "fuel", "authorized", "dynamic"} |->
       CASE entry = "race" -> Common(Plain) \cup {[Plain EXCEPT !.vehicle = "none"], [Plain EXCEPT !.field = [c \in {} |-> c]]}
         [] entry = "sessions" -> {Plain, [Plain EXCEPT !.sessions = 0]}
         [] entry = "parameters" -> {Plain, Base("v2", "v2"), [Base("v2", "v2") EXCEPT !.parameters = Parameters("v1")]}
         [] entry = "profile" -> {[Plain EXCEPT !.profile = Profile(7, {}, "none")],
                                  [Plain EXCEPT !.profile = Profile(8, {"thermal"}, "classic"),
                                                !.selections = Select("engines", "e2")]}
         [] entry = "thermal" -> Common(Plain)
         [] entry = "power unit" -> Common(Plain) \cup Selecting(Plain)
         [] entry \in {"driver control", "driver instructions"} ->
              {[Plain EXCEPT !.profile = p, !.modes = m] :
                 p \in {Profile(9, {}, "none"), Profile(10, {"control"}, "none"),
                        Profile(10, {"control", "control override"}, "none"),
                        Profile(11, {"control", "thermal"}, "classic")},
                 m \in {{"player", "rival"}, {"player"}}}
         [] entry \in {"timeline", "fuel"} ->
              Common(Plain) \cup {[Plain EXCEPT !.timeline = FALSE], [Plain EXCEPT !.fuel = 300]}
         [] entry = "authorized" ->
              UNION {Authorized(Base(m[1], m[2])) :
                 m \in {<<"v1", "v1">>, <<"v1", "v2">>, <<"v2", "v2">>, <<"thermal", "thermal">>,
                        <<"component", "component">>, <<"timeline", "fuel">>, <<"fuel", "fuel">>}}
         [] entry = "dynamic" ->
              UNION {Authorized(b) \cup {[b EXCEPT !.shaped = FALSE], [b EXCEPT !.completed = FALSE]} :
                 b \in {Base("timeline", "timeline"), Base("fuel", "fuel"), Base("component", "component"),
                        [Base("timeline", "fuel") EXCEPT !.release = Base("fuel", "timeline").release]}}])

(***************************************************************************)
(* The garage: a modern car, one without downforce, one whose engine turns *)
(* exactly at the shift point and one that never reaches it.               *)
(***************************************************************************)
Modern ==
    [mu0 |-> 2, torque |-> 3, pcool |-> 2, kcool |-> 1, cth |-> 2, heat |-> 1, soft |-> 110, derate |-> 1,
     cdx |-> 1, cdz |-> 2, clx |-> 2, clz |-> 3, gears |-> <<<<6, 1>>, <<3, 1>>>>, wheel |-> 2,
     nmax |-> 24, idle |-> 4, up |-> 22, down |-> 12, sound |-> TRUE]
Vintage == [Modern EXCEPT !.clx = 0, !.clz = 0, !.nmax = 22]
TooSlow == [Modern EXCEPT !.nmax = 21, !.up = 0]

TheResponse ==
    ("aero gain" :> 1) @@ ("drag base" :> 8) @@ ("drag gain" :> 3) @@ ("downforce base" :> 7)
      @@ ("downforce gain" :> 5) @@ ("straight" :> 9) @@ ("corner" :> 11) @@ ("grip gain" :> 1)
      @@ ("cooling base" :> 7) @@ ("cooling gain" :> 5) @@ ("torque gain" :> 1)
      @@ ("gear base" :> 11) @@ ("gear reduction" :> 2)
TheAero == [min |-> 7, max |-> 12, base |-> 8, induced |-> 2, gain |-> 1, reduction |-> 1]
TheThermal == [capacity |-> 10, heat |-> 10, static |-> 11, speed |-> 9, slope |-> 10, offset |-> -5, floor |-> 2,
               shape |-> "smooth", knee |-> 5, drag |-> 1]

Versioned(version) ==
    (CASE version <= 1 -> {} [] version = 2 -> {"aero"} [] version = 3 -> {"aero", "development"}
       [] version \in {4, 5} -> Resolutions [] version = 6 -> Resolutions \cup {"fuel mass"} [] OTHER -> DefaultResources)
      \cup (IF version \in {8, 10} THEN {"thermal"} ELSE {}) \cup (IF version >= 10 THEN {"control"} ELSE {})

GarageProfile(version) ==
    [version |-> version, has |-> Versioned(version), valid |-> TRUE, response |-> TheResponse, aero |-> TheAero,
     development |-> [without |-> 9, atCap |-> 10, torque |-> 1, coolBase |-> 7, coolGain |-> 5],
     transmission |-> [min |-> 8, max |-> 10, fraction |-> 9], cooling |-> TheThermal,
     control |-> [cornering |-> 97, braking |-> 96, traction |-> 98, error |-> 2], overrides |-> [k \in {} |-> 0]]

GarageProfiles ==
    {GarageProfile(version) : version \in 0..11}
      \cup {[GarageProfile(7) EXCEPT !.overrides = [k \in {"efficiency"} |-> 9]],
            [GarageProfile(3) EXCEPT !.overrides = [k \in {"drag"} |-> 50]],
            [GarageProfile(9) EXCEPT !.overrides = [k \in {"upshift"} |-> 20]],
            [GarageProfile(9) EXCEPT !.has = @ \cup {"control override"}],
            [GarageProfile(5) EXCEPT !.aero.max = 7], [GarageProfile(4) EXCEPT !.transmission.min = 3],
            [GarageProfile(8) EXCEPT !.cooling.shape = "linear"], [GarageProfile(3) EXCEPT !.development.atCap = 11],
            [GarageProfile(0) EXCEPT !.response["gear reduction"] = 11]}

TheCars ==
    [vehicle : {Modern}, profile : GarageProfiles]
      \cup [vehicle : {Vintage}, profile : {GarageProfile(version) : version \in {0, 1, 2, 5, 8}}]
      \cup [vehicle : {TooSlow}, profile : {GarageProfile(0), GarageProfile(7),
                                           [GarageProfile(9) EXCEPT !.overrides = [k \in {"upshift"} |-> 20]]}]

Garage == INSTANCE VehicleResolution WITH
    Cap <- 1, Full <- 1, Cars <- TheCars, MaxPoints <- 2, MinSlide <- -1, MaxSlide <- 2

Idle == /\ dir = Contents(Releases["v1"]) /\ publishing = "none" /\ read = <<>> /\ loading = FALSE
        /\ snapshot = NoSnapshot /\ run = NoRun

MCInit ==
    \/ part = "admission" /\ Init /\ car = "none" /\ tuning = "none"
    \/ part = "garage" /\ Idle /\ Garage!Init

(* Development points spent on all axes.                                   *)
Spent(t) == FoldFunctionOnSet(+, 0, t, Garage!Axes)

MCNext ==
    \/ part = "admission" /\ Next /\ UNCHANGED <<part, car, tuning>>
    \/ /\ part = "garage" /\ Garage!Next /\ UNCHANGED <<vars, part>>
       /\ Spent(tuning') <= 2

MCSpec == MCInit /\ [][MCNext]_<<vars, part, car, tuning>>

(* ActsWhereItShould of VehicleResolution, of every step in the garage: a  *)
(* point or a slider changes exactly the quantities its axis stands for    *)
(* under the profile of the car, and nothing beyond the cap.               *)
TuningActsWhereItShould == [][part = "garage" => Garage!ActsWhereItShould]_<<car, tuning>>

(* ResolvedAsDocumented of VehicleResolution, for the garage's behaviours: *)
(* the first profile is the historical response, a transmission resource   *)
(* gives the top speed asked for, and a governed sound car is accepted.    *)
ResolvedAsDocumented == part = "garage" => Garage!ResolvedAsDocumented

(* Named through a LET, each is evaluated once.                           *)
MCNameOrder == LET x == TheNameOrder IN x
MCPathOrder == LET x == ThePathOrder IN x
MCKnownModels == LET x == TheKnownModels IN x
MCModelOf == LET x == TheModelOf IN x
MCReviewed == LET x == TheReviewed IN x
MCNormal == LET x == TheNormal IN x
MCSlug == LET x == TheSlug IN x
MCContent == LET x == TheContent IN x
MCReleases == LET x == TheReleases IN x
MCUpdates == LET x == TheUpdates IN x
MCBundles == LET x == TheBundles IN x
MCRequests == LET x == TheRequests IN x
MCTorn == LET x == TheTorn IN x
=============================================================================
