--------------------------- MODULE AuthorityService ---------------------------
(***************************************************************************)
(* The authority's handlers as operators on its state s: the policy it     *)
(* loaded and the one it names, its model and catalog, its signing key and *)
(* its configuration.  A request is accepted or refused as a whole; the    *)
(* documents it then issues are built from the accepted request.           *)
(*                                                                         *)
(* A catalog is a record: release, pack, models (the compatible ones),     *)
(* circuits (track -> number of segments), parts (the governed component   *)
(* ids by kind, or None), instructions (the instruction profile, or None)  *)
(* and lineage (whether it describes its execution lineage).               *)
(***************************************************************************)
EXTENDS TuningPolicy, RunAuthorization

CONSTANTS MillisPerSecond,   \* 1_000
          TimeMax            \* the greatest i64

CarIds(race) == {race.cars[k].id : k \in DOMAIN race.cars}

\* The canonical input: the caller's, its race normalised under the loaded policy.
CanonicalInput(policy, input) == [input EXCEPT !.race = NormalizeRace(policy, input.race)]

\* validate_governed_component_selection; a selection maps kinds to component ids, and
\* the id "" is a blank one.
SelectionGoverned(parts, selection) ==
  /\ DOMAIN selection # {}
  /\ \A kind \in DOMAIN selection : selection[kind] # "" /\ selection[kind] \in parts[kind]

\* validate_governed_component_selections.
SelectionsGoverned(catalog, input) ==
  DOMAIN input.parts # {} =>
    /\ catalog # None /\ catalog.parts # None
    /\ \A id \in DOMAIN input.parts :
          id \in CarIds(input.race) /\ SelectionGoverned(catalog.parts, input.parts[id])

\* resolve_data_pack: a release of the loaded catalog, or a bare pack where allowed.
PackResolves(s, release, pack) ==
  \/ release # None /\ pack = None /\ s.catalog # None /\ release = s.catalog.release
  \/ release = None /\ pack # None /\ s.catalogFree

PackOf(s, release, pack) == IF release # None THEN s.catalog.pack ELSE pack

\* CatalogReleaseManifestV1::validate_for_run.
ValidForRun(catalog, contract) == contract.pack = catalog.pack /\ contract.model \in catalog.models

\* The contract prepare_racing_run builds.
PreparedContract(s, request, scenario) ==
  [scenario |-> scenario, model |-> s.model, pack |-> PackOf(s, request.release, request.pack),
   seed |-> request.seed, clock |-> ClockOf(request.input.hz),
   input |-> Digest(CanonicalInput(s.policy, request.input))]

\* prepare_racing_run, its refusals.
Prepares(s, request, scenario) ==
  /\ request.input.era >= 0
  /\ HzValid(request.input.hz)
  /\ RaceAccepted(s.policy, request.input.race, request.input.era)
  /\ SelectionsGoverned(s.catalog, CanonicalInput(s.policy, request.input))
  /\ PackResolves(s, request.release, request.pack)
  /\ s.catalog # None /\ request.release # None =>
        ValidForRun(s.catalog, PreparedContract(s, request, scenario))

\* milliseconds, add_seconds and authorization_validity: checked arithmetic.
ValidityFits(s, now) ==
  /\ s.ttl * MillisPerSecond <= TimeMax /\ s.grace * MillisPerSecond <= TimeMax
  /\ now + s.ttl * MillisPerSecond <= TimeMax
Validity(s, now) ==
  [issued |-> now, expires |-> now + s.ttl * MillisPerSecond, grace |-> s.grace * MillisPerSecond]

Signed(s, authorization) == [authorization |-> authorization, signature |-> Sign(s.key, authorization)]

Authorization(s, request, scenario, execution, envelope, now, nonce) ==
  LET contract == PreparedContract(s, request, scenario)
  IN  [nonce |-> nonce, subject |-> request.subject, execution |-> execution,
       audience |-> s.audience, contract |-> contract, runId |-> RunId(contract),
       envelope |-> envelope, policy |-> Digest(s.named), keyId |-> s.keyId,
       validity |-> Validity(s, now)]

RunScenario == "racing.run"
AttemptScenario == "racing.dynamic-session"

\* build_signed_racing_run_authorization.  Signing validates the authorization first.
IssuesRun(s, request, now) ==
  /\ s.key # None
  /\ Prepares(s, request, RunScenario)
  /\ ValidityFits(s, now) /\ ValidityValid(Validity(s, now))

RunResponse(s, request, now, nonce) ==
  [signed |-> Signed(s, Authorization(s, request, RunScenario, None, None, now, nonce)),
   input |-> CanonicalInput(s.policy, request.input), envelope |-> None,
   release |-> request.release]

\* resolved_segment_count: the caller's geometry, or the circuit's; 0 is a refusal.
SegmentCount(catalog, input) ==
  IF input.geometry # None THEN input.geometry.segments
  ELSE IF input.race.track \in DOMAIN catalog.circuits THEN catalog.circuits[input.race.track]
  ELSE 0

SortedIds(ids) ==
  LET n == Cardinality(ids)
  IN  CHOOSE seq \in [1..n -> ids] : \A i, k \in 1..n : i < k => seq[i] < seq[k]

\* The decision envelope of build_signed_racing_run_attempt_authorization.  Competitors
\* with one id twice are sorted side by side, which EnvelopeValid refuses.
EnvelopeFor(s, request) ==
  LET input == CanonicalInput(s.policy, request.input)
      profile == s.catalog.instructions
  IN  [input |-> Digest(input), profile |-> profile.id,
       modes |-> <<"manage", "balanced", "attack">>,
       granularity |-> profile.granularity, maxEvents |-> profile.maxEvents,
       competitors |-> IF Cardinality(CarIds(input.race)) = Len(input.race.cars)
                       THEN SortedIds(CarIds(input.race)) ELSE <<0>>,
       laps |-> input.race.laps, segments |-> SegmentCount(s.catalog, input)]

\* build_signed_racing_run_attempt_authorization, its refusals.
IssuesAttempt(s, request, now) ==
  /\ s.key # None
  /\ Prepares(s, request, AttemptScenario)
  /\ s.catalog # None /\ s.catalog.instructions # None
  /\ EnvelopeValid(EnvelopeFor(s, request), PreparedContract(s, request, AttemptScenario),
                   s.catalog.instructions)
  /\ ValidityFits(s, now) /\ ValidityValid(Validity(s, now))

AttemptResponse(s, request, now, nonce) ==
  LET envelope == EnvelopeFor(s, request)
  IN  [signed |-> Signed(s, Authorization(s, request, AttemptScenario, request.execution,
                                          Digest(envelope), now, nonce)),
       input |-> CanonicalInput(s.policy, request.input), envelope |-> envelope,
       release |-> request.release]

------------------------------------------------------------------------------
(* The simulation contract: a tuning by itself *)

\* u64 to i64 by its bits: what is beyond TimeMax turns negative.
AsSigned(x) == IF x > TimeMax THEN x - 2 * (TimeMax + 1) ELSE x
Saturated(x, max) == IF x > max THEN max ELSE x

\* The expiry of build_signed_simulation_contract, whose arithmetic is not checked.
ContractExpiry(s, now) ==
  Saturated(now + AsSigned(Saturated(s.ttl * MillisPerSecond, 2 * TimeMax + 1)), TimeMax)

ContractContext(request) ==
  [era |-> request.era, levels |-> request.levels, upgrades |-> request.upgrades \ {""},
   parameters |-> <<>>]

\* build_signed_simulation_contract, its refusals; the level key "" is a blank one.
IssuesContract(s, request) ==
  /\ s.key # None
  /\ "" \notin DOMAIN request.levels
  /\ RequestAccepted(s.policy, ContractContext(request), request.parameters)
  /\ ConstraintsHold(s.policy, ContractContext(request), Canonical(s.policy, request.parameters))

ContractResponse(s, request, now) ==
  LET contract == [policy |-> Digest(s.policy), issued |-> now, expires |-> ContractExpiry(s, now),
                   era |-> request.era, levels |-> request.levels,
                   upgrades |-> request.upgrades \ {""},
                   parameters |-> Canonical(s.policy, request.parameters),
                   constraints |-> {s.policy.constraints[k].name : k \in DOMAIN s.policy.constraints}]
  IN  [contract |-> contract, signature |-> Sign(s.key, contract)]
==============================================================================
