------------------------------ MODULE TrustChain ------------------------------
(***************************************************************************)
(* The hosted trust chain: an authority that authorizes runs under a       *)
(* tuning policy, clients that execute what they were authorized to, and a *)
(* verifier that replays what is submitted to it.  Both services restart   *)
(* with other configurations, the policy file they share is published      *)
(* anew while they run or start, and results of two runs can be mixed up.  *)
(*                                                                         *)
(* A world fixes what may vary in a behaviour: the policies published, the *)
(* configurations the services are deployed with, the catalogs clients     *)
(* hold, the requests (by client and endpoint) and instruction timelines,  *)
(* and how long the clock runs.                                            *)
(***************************************************************************)
EXTENDS AuthorityService

CONSTANTS Clients, EmbeddedPolicy, Worlds,
          RuleHolds(_, _, _)   \* what a rule is meant to say

VARIABLES world,       \* one of Worlds
          now,         \* the wall clock both services read
          file,        \* the content of the policy file
          authority,   \* the authority process
          verifier,    \* the verifier process
          work         \* what each client is doing

vars == <<world, now, file, authority, verifier, work>>

Down == [phase |-> "down"]
Idle == [phase |-> "idle"]

Init ==
  /\ world \in Worlds /\ now = 0 /\ file \in world.policies
  /\ authority = Down /\ verifier = Down
  /\ work = [c \in Clients |-> Idle]

Publish(policy) ==
  /\ file # policy /\ file' = policy
  /\ UNCHANGED <<world, now, authority, verifier, work>>

Tick == now < world.maxTime /\ now' = now + 1 /\ UNCHANGED <<world, file, authority, verifier, work>>

------------------------------------------------------------------------------
(* The authority process *)

\* main, up to load_tuning_policy: the process ends when the policy is not valid.
LoadPolicy(deployment) ==
  /\ authority = Down
  /\ ValidateStatic(file)
  /\ authority' = [phase |-> "loading", policy |-> file, deployment |-> deployment]
  /\ UNCHANGED <<world, now, file, verifier, work>>

\* The rest of main: the file is read once more for the identity authorizations name,
\* and a model the catalog does not support ends the process.
NamePolicy ==
  /\ authority.phase = "loading"
  /\ LET d == authority.deployment
     IN  authority' = IF d.catalog # None /\ d.model \notin d.catalog.models THEN Down
                      ELSE [phase |-> "up"] @@ [policy |-> authority.policy, named |-> file] @@ d
  /\ UNCHANGED <<world, now, file, verifier, work>>

StopAuthority ==
  /\ authority.phase = "up" /\ authority' = Down
  /\ UNCHANGED <<world, now, file, verifier, work>>

\* What a handler reads of the process.
ServiceState == [f \in DOMAIN authority \ {"phase"} |-> authority[f]]

\* create_racing_run_authorization.
RequestRun(c, request) ==
  /\ authority.phase = "up" /\ work[c] = Idle
  /\ work' = [work EXCEPT ![c] =
        IF IssuesRun(ServiceState, request, now)
        THEN [phase |-> "authorized", kind |-> "run", issuer |-> ServiceState,
              response |-> RunResponse(ServiceState, request, now, c)]
        ELSE [phase |-> "refused"]]
  /\ UNCHANGED <<world, now, file, authority, verifier>>

\* create_racing_run_attempt_authorization.
RequestAttempt(c, request) ==
  /\ authority.phase = "up" /\ work[c] = Idle
  /\ work' = [work EXCEPT ![c] =
        IF IssuesAttempt(ServiceState, request, now)
        THEN [phase |-> "authorized", kind |-> "attempt", issuer |-> ServiceState,
              response |-> AttemptResponse(ServiceState, request, now, c)]
        ELSE [phase |-> "refused"]]
  /\ UNCHANGED <<world, now, file, authority, verifier>>

\* create_simulation_contract.
RequestContract(c, request) ==
  /\ authority.phase = "up" /\ work[c] = Idle
  /\ work' = [work EXCEPT ![c] =
        IF IssuesContract(ServiceState, request)
        THEN [phase |-> "contracted", issuer |-> ServiceState,
              response |-> ContractResponse(ServiceState, request, now)]
        ELSE [phase |-> "refused"]]
  /\ UNCHANGED <<world, now, file, authority, verifier>>

------------------------------------------------------------------------------
(* Execution.  What a race computes is a function of what it runs with, so *)
(* the output is that: a record of the race, the model, the data and the   *)
(* instructions.                                                           *)

EraOf(input) == IF input.era < 0 THEN 0 ELSE input.era

\* Every entry point of the simulator normalises the race once more, under the policy
\* embedded in the build, and needs a field and a circuit of the catalog.
RaceRuns(catalog, input) ==
  /\ RaceAccepted(EmbeddedPolicy, input.race, EraOf(input))
  /\ input.race.cars # <<>>
  /\ input.race.track \in DOMAIN catalog.circuits

\* The timeline candidate: it needs an instruction profile and a valid timeline, and
\* components the catalog governs.
TimelineRuns(catalog, input, events) ==
  /\ "timeline" \in catalog.models /\ catalog.instructions # None
  /\ RaceRuns(catalog, input)
  /\ SelectionsGoverned(catalog, input)
  /\ TimelineValid(events, catalog.instructions, CarIds(input.race), input.race.laps,
                   SegmentCount(catalog, input))

\* RacingWorkload::execute: a historical model refuses component selections.
WorkloadRuns(model, catalog, input) ==
  IF model = "timeline" THEN TimelineRuns(catalog, input, <<>>)
  ELSE RaceRuns(catalog, input) /\ DOMAIN input.parts = {}

RaceOutput(model, catalog, contract, input, events) ==
  [race |-> NormalizeRace(EmbeddedPolicy, input.race), hz |-> input.hz, geometry |-> input.geometry,
   parts |-> input.parts, model |-> model, pack |-> catalog.pack, seed |-> contract.seed,
   events |-> events]

\* RacingRunEvidenceV1::from_race_output, its telemetry summary.
TelemetryOf(output) == <<"telemetry", output>>

\* RacingExecutionResolutionV1::from_catalog.
Resolution(catalog, model) == IF catalog.lineage THEN <<catalog.release, model>> ELSE None

\* execute_linked's checks.
Links(model, contract, input) == model = contract.model /\ Digest(input) = contract.input

\* execute_authorized_race_application, its refusals.
RunExecutes(response, catalog) ==
  LET a == response.signed.authorization
  IN  /\ IntegrityValid(a)
      /\ ValidForRun(catalog, a.contract)
      /\ Links(a.contract.model, a.contract, response.input)
      /\ WorkloadRuns(a.contract.model, catalog, response.input)

RunSubmission(c, response, catalog) ==
  LET a == response.signed.authorization
      output == RaceOutput(a.contract.model, catalog, a.contract, response.input, <<>>)
  IN  [signed |-> response.signed, input |-> response.input, envelope |-> None, completed |-> None,
       receipt |-> Receipt(a.contract, c, output, TelemetryOf(output)),
       output |-> output, telemetry |-> TelemetryOf(output),
       resolution |-> Resolution(catalog, a.contract.model)]

Execute(c, catalog) ==
  /\ work[c].phase = "authorized" /\ work[c].kind = "run"
  /\ work' = [work EXCEPT ![c] =
        IF RunExecutes(work[c].response, catalog)
        THEN [work[c] EXCEPT !.phase = "raced"]
             @@ [submission |-> RunSubmission(c, work[c].response, catalog), catalog |-> catalog]
        ELSE [phase |-> "refused"]]
  /\ UNCHANGED <<world, now, file, authority, verifier>>

\* The completed input of an attempt that applied these events.
CompletedInput(response, profile, events) ==
  [input |-> response.signed.authorization.contract.input, profile |-> profile.id,
   initialMode |-> profile.defaultMode, competitors |-> response.envelope.competitors,
   events |-> events]

\* start_authorized_dynamic_racing_session, its refusals.
AttemptExecutes(response, catalog, events) ==
  LET a == response.signed.authorization
      completed == CompletedInput(response, catalog.instructions, events)
  IN  /\ IntegrityValid(a)
      /\ a.contract.model = "timeline"
      /\ ValidForRun(catalog, a.contract)
      /\ catalog.release = response.release
      /\ Digest(response.input) = a.contract.input
      /\ catalog.instructions # None
      /\ AttemptCompletes(a, response.envelope, completed, catalog.instructions)
      /\ TimelineRuns(catalog, response.input, events)
      /\ Resolution(catalog, a.contract.model) # None

\* finalize_authorized_dynamic_race_application.
AttemptSubmission(response, catalog, events) ==
  LET a == response.signed.authorization
      completed == CompletedInput(response, catalog.instructions, events)
      final == FinalContract(a.contract, completed)
      output == RaceOutput(a.contract.model, catalog, a.contract, response.input, events)
  IN  [signed |-> response.signed, input |-> response.input, envelope |-> response.envelope,
       completed |-> completed,
       receipt |-> Receipt(final, a.execution, output, TelemetryOf(output)),
       output |-> output, telemetry |-> TelemetryOf(output),
       resolution |-> Resolution(catalog, a.contract.model)]

ExecuteAttempt(c, catalog, events) ==
  /\ work[c].phase = "authorized" /\ work[c].kind = "attempt"
  /\ work' = [work EXCEPT ![c] =
        IF AttemptExecutes(work[c].response, catalog, events)
        THEN [work[c] EXCEPT !.phase = "raced"]
             @@ [submission |-> AttemptSubmission(work[c].response, catalog, events),
                 catalog |-> catalog]
        ELSE [phase |-> "refused"]]
  /\ UNCHANGED <<world, now, file, authority, verifier>>

------------------------------------------------------------------------------
(* The verifier process *)

\* load_state: one key, the policy the file names, and for runs and attempts a model
\* with its catalog, dropped when the two do not fit.
StartVerifier(d) ==
  /\ verifier = Down
  /\ verifier' = [phase |-> "up", policy |-> Digest(file), audience |-> d.audience,
                  keys |-> IF d.key = None THEN <<>> ELSE (d.keyId :> d.key),
                  model |-> d.model,
                  catalog |-> [kind \in DOMAIN d.catalog |->
                                 IF d.catalog[kind] # None /\ d.model[kind] \in d.catalog[kind].models
                                 THEN d.catalog[kind] ELSE None]]
  /\ UNCHANGED <<world, now, file, authority, work>>

StopVerifier ==
  /\ verifier.phase = "up" /\ verifier' = Down
  /\ UNCHANGED <<world, now, file, authority, work>>

\* has_supported_contract_shape and has_supported_dynamic_contract_shape.
ShapeSupported(contract, input, scenario) ==
  /\ contract.scenario = scenario
  /\ HzValid(input.hz) /\ contract.clock = ClockOf(input.hz)

Fails(condition, reason) == [fails |-> condition, status |-> "rejected", reason |-> reason]
Waits(condition, reason) == [fails |-> condition, status |-> "pending", reason |-> reason]

\* The first check that fails decides; when none does the submission is verified.
FirstFailure(checks) ==
  LET failing == {k \in DOMAIN checks : checks[k].fails}
      first == CHOOSE k \in failing : \A i \in failing : k <= i
  IN  IF failing = {} THEN [status |-> "verified", reason |-> "none"]
      ELSE [status |-> checks[first].status, reason |-> checks[first].reason]

\* The checks verify and verify_attempt share, up to the resources.
CommonChecks(sub, kind, scenario, catalog) ==
  LET a == sub.signed.authorization
      refusal == SubmissionRefusal(verifier.keys, sub.signed, verifier.audience, now)
  IN  << Fails(refusal # "none", refusal),
         Fails(~ShapeSupported(a.contract, sub.input, scenario), "invalid_authorization"),
         Fails(a.contract.model # verifier.model[kind], "unknown_model"),
         Fails(a.policy # verifier.policy, "unknown_policy"),
         Waits(catalog = None, "catalog_unavailable"),
         Fails(catalog # None /\ ~ValidForRun(catalog, a.contract), "unknown_data_pack"),
         Fails(catalog # None /\ sub.resolution # Resolution(catalog, a.contract.model),
               "artifact_digest_mismatch"),
         Fails(Digest(sub.input) # a.contract.input, "artifact_digest_mismatch") >>

EvidenceChecks(sub) ==
  << Fails(sub.receipt.output # Digest(sub.output), "output_mismatch"),
     Fails(sub.receipt.telemetry # Digest(sub.telemetry), "telemetry_mismatch") >>

\* The comparison with the replay, whose output is made of the submitted input.
ReplayChecks(sub, catalog, runs, events) ==
  LET a == sub.signed.authorization
      replay == RaceOutput(a.contract.model, catalog, a.contract, sub.input, events)
  IN  << Fails(catalog # None /\ ~runs, "replay_mismatch"),
         Fails(catalog # None /\ sub.output # replay, "output_mismatch"),
         Fails(catalog # None /\ sub.telemetry # TelemetryOf(replay), "telemetry_mismatch") >>

\* RacingVerifier::verify.
VerifyRun(sub) ==
  LET a == sub.signed.authorization
      catalog == verifier.catalog["run"]
  IN  FirstFailure(
        CommonChecks(sub, "run", RunScenario, catalog)
        \o << Fails(~ReceiptVerifies(a.contract, sub.receipt) \/ sub.receipt.runId # a.runId,
                    "receipt_mismatch") >>
        \o EvidenceChecks(sub)
        \o ReplayChecks(sub, catalog,
                        catalog # None /\ Links(verifier.model["run"], a.contract, sub.input)
                        /\ WorkloadRuns(a.contract.model, catalog, sub.input), <<>>))

\* RacingVerifier::verify_attempt.
VerifyAttempt(sub) ==
  LET a == sub.signed.authorization
      catalog == verifier.catalog["attempt"]
      governed == catalog # None /\ catalog.instructions # None
      final == FinalContract(a.contract, sub.completed)
  IN  FirstFailure(
        CommonChecks(sub, "attempt", AttemptScenario, catalog)
        \o << Fails(~governed, "unknown_data_pack"),
              Fails(governed /\ ~AttemptCompletes(a, sub.envelope, sub.completed, catalog.instructions),
                    "invalid_authorization"),
              Fails(~CompletedReceiptValid(a, final, sub.receipt), "receipt_mismatch") >>
        \o EvidenceChecks(sub)
        \o ReplayChecks(sub, catalog,
                        catalog # None /\ TimelineRuns(catalog, sub.input, sub.completed.events),
                        sub.completed.events))

\* A submission put together from what up to three clients hold: the authorization and
\* its envelope of one, the input and completed input of another, the evidence of a third.
Assembled(a, i, e) ==
  [work[e].submission EXCEPT !.signed = work[a].submission.signed,
                             !.envelope = work[a].submission.envelope,
                             !.input = work[i].submission.input,
                             !.completed = work[i].submission.completed]

Raced(c, kind) == work[c].phase \in {"raced", "judged"} /\ work[c].kind = kind

\* The verification endpoints; the client keeps the verdict.
Judge(c, i, e) ==
  /\ verifier.phase = "up" /\ work[c].phase = "raced"
  /\ \A d \in {i, e} : Raced(d, work[c].kind)
  /\ LET sub == Assembled(c, i, e)
         verdict == IF work[c].kind = "run" THEN VerifyRun(sub) ELSE VerifyAttempt(sub)
     IN  work' = [work EXCEPT ![c] = [work[c] EXCEPT !.phase = "judged"]
                     @@ [judged |-> sub, verdict |-> verdict, judge |-> verifier, at |-> now]]
  /\ UNCHANGED <<world, now, file, authority, verifier>>

Next ==
  \/ \E policy \in world.policies : Publish(policy)
  \/ Tick
  \/ \E d \in world.authorities : LoadPolicy(d)
  \/ NamePolicy
  \/ StopAuthority
  \/ \E c \in Clients : \E r \in world.requests[c].run : RequestRun(c, r)
  \/ \E c \in Clients : \E r \in world.requests[c].attempt : RequestAttempt(c, r)
  \/ \E c \in Clients : \E r \in world.requests[c].contract : RequestContract(c, r)
  \/ \E c \in Clients, catalog \in world.catalogs : Execute(c, catalog)
  \/ \E c \in Clients, catalog \in world.catalogs, events \in world.timelines : ExecuteAttempt(c, catalog, events)
  \/ \E d \in world.verifiers : StartVerifier(d)
  \/ StopVerifier
  \/ \E c, i, e \in Clients : Judge(c, i, e)

TrustSpec == Init /\ [][Next]_vars

------------------------------------------------------------------------------
(* Properties *)

Issued(c) == work[c].phase \in {"authorized", "raced", "judged"}

\* In range, and on the grid of steps or at the range's end.
WithinSpec(spec, value) ==
  IF spec.type = "float"
  THEN /\ value[1] = "num" /\ spec.min <= value[2] /\ value[2] <= spec.max
       /\ (value[2] - spec.min) % spec.step = 0 \/ value[2] = spec.max
  ELSE \E k \in DOMAIN spec.values : value = <<"str", spec.values[k]>>

\* A canonical tuning under a policy, read from what the policy is meant to say: a
\* requested parameter is unlocked, every value is one of its specification, and every
\* constraint holds.
TuningWithin(policy, ctx, canonical, requested) ==
  /\ \A path \in Paths(policy) : WithinSpec(SpecOf(policy, path), canonical[path[1]][path[2]])
  /\ \A path \in requested :
        SpecOf(policy, path).unlock # <<>> => RuleHolds(SpecOf(policy, path).unlock, ctx, canonical)
  /\ \A k \in DOMAIN policy.constraints : RuleHolds(policy.constraints[k].rule, ctx, canonical)

CarWithin(policy, car, era) ==
  LET s == CHOOSE s \in TuningSubsystems(policy) : TRUE
      others == Canonical(policy, [x \in {} |-> x])
  IN  TuningWithin(policy, BudgetContext(car.budget, era),
                   [others EXCEPT ![s] = car.tuning @@ others[s]], {<<s, n>> : n \in TuningFields})

\* Whatever a client asks for, the tuning of every car in an authorized input, and the
\* parameters of every simulation contract, satisfy the policy as its rules are meant:
\* the parser, the evaluator, the quantisation and the order of the handler's checks let
\* nothing else be signed.
IssuedWithinPolicy ==
  /\ \A c \in Clients : Issued(c) =>
        LET input == work[c].response.input
        IN  \A k \in DOMAIN input.race.cars :
               CarWithin(work[c].issuer.policy, input.race.cars[k], input.era)
  /\ \A c \in Clients : work[c].phase = "contracted" =>
        LET contract == work[c].response.contract
        IN  TuningWithin(work[c].issuer.policy,
                         [era |-> contract.era, levels |-> contract.levels,
                          upgrades |-> contract.upgrades, parameters |-> <<>>],
                         contract.parameters, {})

\* A run is raced as it was authorized: where the authority's policy is the one embedded
\* in the simulator, normalising the canonical input again changes nothing, so the cars
\* on track have the tuning whose digest was signed.
RacedAsAuthorized ==
  \A c \in Clients : work[c].phase \in {"raced", "judged"} /\ work[c].issuer.policy = EmbeddedPolicy =>
     work[c].submission.output.race = work[c].response.input.race

\* A verified result was authorized: the authority signed it with the key the verifier
\* trusts under that id, for this input and these circumstances; the submission came in
\* time; the output is the one this input, seed, model and data give; and an attempt kept
\* to the envelope, the execution id and the event limit it was given.
VerifiedWasAuthorized ==
  \A c \in Clients : work[c].phase = "judged" /\ work[c].verdict.status = "verified" =>
     LET sub == work[c].judged
         a == sub.signed.authorization
         kind == work[c].kind
     IN  /\ \E d \in Clients :
              /\ Issued(d) /\ work[d].response.signed = sub.signed
              /\ work[d].response.input = sub.input /\ work[d].response.envelope = sub.envelope
              /\ work[d].issuer.key = work[c].judge.keys[a.keyId]
              /\ Digest(work[d].issuer.named) = work[c].judge.policy
         /\ a.validity.issued <= work[c].at
         /\ work[c].at <= a.validity.expires + a.validity.grace
         /\ sub.output.seed = a.contract.seed /\ sub.output.model = a.contract.model
         /\ sub.output.pack = a.contract.pack
         /\ sub.output.race = NormalizeRace(EmbeddedPolicy, sub.input.race)
         /\ kind = "attempt" =>
              /\ sub.receipt.execution = a.execution
              /\ sub.output.events = sub.completed.events
              /\ Len(sub.output.events) <= sub.envelope.maxEvents
              /\ \A k \in DOMAIN sub.output.events :
                    /\ sub.output.events[k].competitor \in CarIds(sub.input.race)
                    /\ sub.output.events[k].at.lap < sub.input.race.laps

\* The verifier that judged runs the configuration the run was issued and executed under.
Aligned(c) ==
  LET s == work[c].issuer
      v == work[c].judge
      kind == work[c].kind
  IN  /\ v.keys = (s.keyId :> s.key) /\ v.audience = s.audience
      /\ v.policy = Digest(s.named)
      /\ v.model[kind] = s.model /\ v.catalog[kind] = work[c].catalog

\* An honest run verifies: a submission that no other run was mixed into, sent before the
\* end of the grace to a verifier with the key, audience, policy, model and catalog the
\* run was issued and executed under, is neither refused nor left pending.
HonestRunVerifies ==
  \A c \in Clients :
     (work[c].phase = "judged" /\ work[c].judged = work[c].submission /\ Aligned(c)
      /\ work[c].at <= work[c].response.signed.authorization.validity.expires
                       + work[c].response.signed.authorization.validity.grace)
     => work[c].verdict.status = "verified"

\* What is signed satisfies the policy, and what is signed is what is raced.
RacedWithinPolicy == IssuedWithinPolicy /\ RacedAsAuthorized
==============================================================================
