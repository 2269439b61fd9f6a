----------------------------- MODULE MCTrustChain -----------------------------
(***************************************************************************)
(* Two clients, two policies and an invalid one, two releases of the       *)
(* catalog, and deployments of the services that agree or disagree on key, *)
(* model and catalog.                                                      *)
(***************************************************************************)
EXTENDS TrustChain

CONSTANTS c1, c2

Id(name) == <<"ident", name>>
Num(n) == <<"num", n>>
Str(s) == <<"str", s>>
T(kind) == <<kind>>
Param(name) == <<Id("parameters"), T("."), Id("gameplay"), T("."), Id(name)>>

\* era >= 1
EraRule == <<Id("era"), T(">="), Num(1)>>
\* parameters.gameplay.aero + parameters.gameplay.slider <= budget_lvl
BudgetRule == Param("aero") \o <<T("+")>> \o Param("slider") \o <<T("<="), Id("budget_lvl")>>
\* if era < 2 or parameters.gameplay.aero - parameters.gameplay.slider + 1 > 3
\*    and not has_upgrade("wing") then parameters.gameplay.aero <= 4
WingRule ==
  <<T("if"), Id("era"), T("<"), Num(2), T("or")>> \o Param("aero") \o <<T("-")>> \o Param("slider")
  \o <<T("+"), Num(1), T(">"), Num(3), T("and"), T("not"),
       Id("has_upgrade"), T("("), Str("wing"), T(")"), T("then")>> \o Param("aero") \o <<T("<="), Num(4)>>
\* abs(-parameters.gameplay.slider) != 4 or era > 1 and budget_lvl >= 4
SliderRule ==
  <<Id("abs"), T("("), T("-")>> \o Param("slider")
  \o <<T(")"), T("!="), Num(4), T("or"), Id("era"), T(">"), Num(1), T("and"),
       Id("budget_lvl"), T(">="), Num(4)>>
\* parameters.gameplay.slider and era: names and arities are right, types are not.
IllTypedRule == Param("slider") \o <<T("and"), Id("era")>>

\* What the rules are meant to say.
MCRuleHolds(rule, ctx, p) ==
  LET aero == p["gameplay"]["aero"][2]
      slider == p["gameplay"]["slider"][2]
      budget == IF "budget_lvl" \in DOMAIN ctx.levels THEN ctx.levels["budget_lvl"] ELSE 0
  IN  CASE rule = EraRule -> ctx.era >= 1
        [] rule = BudgetRule -> aero + slider <= budget
        [] rule = WingRule ->
             ctx.era < 2 \/ ((aero - slider) + 1 > 3 /\ "wing" \notin ctx.upgrades) => aero <= 4
        [] rule = SliderRule -> slider # 4 \/ (ctx.era > 1 /\ budget >= 4)
        [] OTHER -> FALSE

Float(min, max, step, default, unlock) ==
  [type |-> "float", min |-> min, max |-> max, step |-> step, default |-> default, unlock |-> unlock]
Enum(values, default, unlock) ==
  [type |-> "enum", values |-> values, default |-> default, unlock |-> unlock]

Gameplay(aero, slider) == [gameplay |-> [aero |-> aero, slider |-> slider]]

PolicyA ==
  [current |-> TRUE,
   parameters |-> Gameplay(Float(0, 5, 2, 0, EraRule), Float(0, 4, 1, 2, <<>>))
                  @@ [paint |-> [tone |-> Enum(<<"red", "blue">>, "red", EraRule)]],
   constraints |-> <<[name |-> "budget", rule |-> BudgetRule], [name |-> "wing", rule |-> WingRule],
                     [name |-> "slider", rule |-> SliderRule]>>]
\* The same with a wider range, coarser steps and no rule about the wing.
PolicyB ==
  [PolicyA EXCEPT !.parameters = Gameplay(Float(1, 7, 3, 1, EraRule), Float(0, 4, 2, 2, <<>>)),
                  !.constraints = <<[name |-> "budget", rule |-> BudgetRule]>>]
IllTyped == [PolicyA EXCEPT !.constraints = <<[name |-> "typed", rule |-> IllTypedRule]>>]
Invalid == [PolicyA EXCEPT !.constraints = <<[name |-> "budget", rule |-> Tail(BudgetRule)]>>]

Empty == [x \in {} |-> x]

Profile == [id |-> "instructions-1", granularity |-> "lap_start", maxEvents |-> 1,
            defaultMode |-> "balanced"]
Released ==
  [release |-> "release-1", pack |-> "pack-1", models |-> {"timeline"}, circuits |-> [monza |-> 2],
   parts |-> [engine |-> {"e1"}, aero |-> {"a1"}], instructions |-> Profile, lineage |-> TRUE]
Historic ==
  [release |-> "release-0", pack |-> "pack-0", models |-> {"classic"}, circuits |-> [monza |-> 2],
   parts |-> None, instructions |-> None, lineage |-> FALSE]
\* The next release has the same data and another instruction profile.
Next2 == [Released EXCEPT !.release = "release-2", !.pack = "pack-2", !.instructions.maxEvents = 2,
                          !.instructions.id = "instructions-2"]
Authority(key, model, catalog) ==
  [key |-> key, keyId |-> "signing-1", audience |-> "verifier", model |-> model, catalog |-> catalog,
   ttl |-> 1, grace |-> 1, catalogFree |-> catalog = None]
VerifierOf(key, catalog) ==
  [key |-> key, keyId |-> "signing-1", audience |-> "verifier",
   model |-> [run |-> "classic", attempt |-> "timeline"],
   catalog |-> [run |-> Historic, attempt |-> catalog]]
Car(id, aero, slider, budget) ==
  [id |-> id, tuning |-> [aero |-> aero, slider |-> slider], budget |-> budget]
Input(era, hz, laps, track, cars) ==
  [era |-> era, hz |-> hz, geometry |-> None, parts |-> Empty,
   race |-> [laps |-> laps, track |-> track, cars |-> cars]]
Plain == Input(1, 4, 2, "monza", <<Car(1, Num(1), Num(1), 20)>>)
Field == Input(2, 4, 1, "monza", <<Car(2, Num(9), Num(1), 13), Car(1, Num(2), Num(4), 13)>>)

Inputs ==
  {Plain, Field,
   Input(1, 4, 1, "monza", <<Car(1, Num(5), Num(0), 11)>>),
   Input(1, 4, 1, "monza", <<Car(1, Num(3), Num(3), 14)>>),
   Input(2, 4, 1, "monza", <<Car(1, Num(0), Num(4), 7)>>),
   Input(2, 4, 1, "monza", <<Car(1, Num(0), Num(4), 9)>>),
   Input(1, 4, 1, "monza", <<Car(1, Num(2), Num(1), 5)>>),
   Input(0, 4, 1, "monza", <<Car(1, Num(1), Num(1), 8)>>),
   Input(-1, 4, 1, "monza", <<Car(1, Num(1), Num(1), 8)>>),
   Input(1, 4, 1, "monza", <<Car(1, <<"null">>, Num(1), 8)>>),
   Input(1, 4, 1, "monza", <<Car(1, Num(1), Num(1), -1)>>),
   Input(1, 4, 1, "monza", <<Car(1, Num(0), Num(1), 8), Car(1, Num(0), Num(1), 8)>>),
   Input(1, 3, 1, "monza", <<Car(1, Num(1), Num(1), 8)>>),
   Input(1, 4, 0, "monza", <<Car(1, Num(1), Num(1), 8)>>),
   Input(1, 4, 101, "monza", <<Car(1, Num(1), Num(1), 8)>>),
   Input(1, 4, 1, "", <<Car(1, Num(1), Num(1), 8)>>),
   Input(1, 4, 1, "nowhere", <<Car(1, Num(0), Num(1), 8)>>),
   Input(1, 4, 1, "monza", <<>>),
   [Plain EXCEPT !.geometry = [segments |-> 3], !.parts = (1 :> [engine |-> "e1"])],
   [Plain EXCEPT !.parts = (1 :> [engine |-> "e9"])],
   [Plain EXCEPT !.parts = (7 :> [engine |-> "e1"])],
   [Plain EXCEPT !.parts = (1 :> Empty)]}

Requests(c, inputs, release, pack) ==
  {[subject |-> "driver", seed |-> IF c = c1 THEN 7 ELSE 8, execution |-> <<"execution", c>>,
    input |-> input, release |-> release, pack |-> pack] : input \in inputs}

Event(sequence, lap, mode) ==
  [sequence |-> sequence, competitor |-> 1, at |-> [lap |-> lap, segment |-> 0], mode |-> mode]
Timelines == {<<>>, <<Event(0, 1, "attack")>>, <<Event(0, 2, "manage")>>,
                 <<Event(0, 1, "attack"), Event(1, 1, "manage")>>}

ContractRequest(era, levels, upgrades, parameters) ==
  [era |-> era, levels |-> levels, upgrades |-> upgrades, parameters |-> parameters]
ContractRequests ==
  {ContractRequest(2, [budget_lvl |-> 9], {"wing", ""}, [gameplay |-> [aero |-> Num(5), slider |-> Num(0)]]),
   ContractRequest(1, [budget_lvl |-> 9], {"wing"}, [gameplay |-> [aero |-> Num(5)]]),
   ContractRequest(0, [budget_lvl |-> 9], {}, [gameplay |-> [slider |-> Num(1)]]),
   ContractRequest(1, [budget_lvl |-> 9], {}, [paint |-> [tone |-> Str("blue")]]),
   ContractRequest(0, [budget_lvl |-> 9], {}, [paint |-> [tone |-> Str("blue")]]),
   ContractRequest(1, [budget_lvl |-> 9], {}, [paint |-> [tone |-> Str("green")]]),
   ContractRequest(1, [budget_lvl |-> 9], {}, [paint |-> [shade |-> Str("red")]]),
   ContractRequest(1, ("" :> 9), {}, Empty)}

Deployed == Authority("k1", "timeline", Released)
OldDeployed == Authority("k1", "classic", Historic)
Judging == VerifierOf("k1", Released)
NoRequests == [run |-> {}, attempt |-> {}, contract |-> {}]

\* Everything a client can ask for, of an authority of each kind.
AskWorld(deployment) ==
  [policies |-> {PolicyA, PolicyB, IllTyped, Invalid}, authorities |-> {deployment},
   verifiers |-> {}, catalogs |-> {Released, Historic}, timelines |-> {<<>>}, maxTime |-> 0,
   requests |-> (c1 :> [run |-> Requests(c1, Inputs, "release-1", None)
                               \cup Requests(c1, {Plain}, None, "pack-0")
                               \cup Requests(c1, {Plain}, "release-0", None)
                               \cup Requests(c1, {Plain}, None, None)
                               \cup Requests(c1, {Plain}, "release-1", "pack-1"),
                        attempt |-> Requests(c1, Inputs, "release-1", None),
                        contract |-> ContractRequests])
                @@ (c2 :> NoRequests)]
\* Two runs or two attempts whose results are mixed.
MixWorld ==
  [policies |-> {PolicyA}, authorities |-> {Deployed, OldDeployed}, verifiers |-> {Judging},
   catalogs |-> {Released, Historic, Next2}, timelines |-> Timelines, maxTime |-> 0,
   requests |-> [c \in {c1, c2} |->
                   [run |-> Requests(c, {Plain}, "release-0", None),
                    attempt |-> Requests(c, {Plain, Field}, "release-1", None), contract |-> {}]]]
\* Late and timely submissions.
ClockWorld ==
  [MixWorld EXCEPT !.maxTime = 3, !.timelines = {<<>>}, !.catalogs = {Released, Historic},
                   !.requests[c2] = NoRequests]
\* Services redeployed with another policy, and with another key or another model and
\* catalog.
RotationWorld(deployment, judges) ==
  [policies |-> {PolicyA, PolicyB}, authorities |-> {Deployed, deployment},
   verifiers |-> {Judging} \cup judges,
   catalogs |-> {Released, Historic}, timelines |-> {<<>>, <<Event(0, 1, "attack")>>}, maxTime |-> 0,
   requests |-> (c1 :> [run |-> Requests(c1, {Plain}, "release-0", None)
                               \cup Requests(c1, {Plain}, "release-1", None),
                        attempt |-> Requests(c1, {Plain}, "release-1", None), contract |-> {}])
                @@ (c2 :> NoRequests)]

TheWorlds ==
  {AskWorld(d) : d \in {Deployed, OldDeployed, Authority("k1", "classic", None),
                        Authority("k1", "classic", Released), Authority(None, "timeline", Released)}}
  \cup {MixWorld, ClockWorld,
        RotationWorld(Authority("k2", "timeline", Released), {VerifierOf("k2", Next2)}),
        RotationWorld(OldDeployed, {VerifierOf("k1", Historic),
                                    [Judging EXCEPT !.model["run"] = "timeline",
                                                    !.catalog["run"] = Released]})}
MCWorlds == LET x == TheWorlds IN x

TheEmbeddedPolicy == PolicyA
MCEmbeddedPolicy == LET x == TheEmbeddedPolicy IN x
==============================================================================
