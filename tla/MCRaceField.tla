----------------------------- MODULE MCRaceField -----------------------------
(* Requests that between them reach every path of RaceField. *)
EXTENDS RaceField

Stint(laps, tire) == [laps |-> laps, tire |-> tire]

Strategy(stints, pits) == [stints |-> stints, pits |-> pits, given |-> TRUE]

Traits(exploitation, consistency, tires) ==
  [exploitation |-> exploitation, consistency |-> consistency, tires |-> tires]

Competitor(id, player, strategy) ==
  [id |-> id, player |-> player, strategy |-> strategy, traits |-> Traits(2, 2, 2)]

At(n, segment) == [lap |-> n, segment |-> segment]

Event(k, id, at, mode) == [sequence |-> k, competitor |-> id, at |-> at, mode |-> mode]

Base ==
  [model |-> "v3", laps |-> 3, segments |-> 2, fuel |-> 5, reserve |-> 1, loss |-> 2, pits |-> {},
   control |-> [commitment |-> [manage |-> 1, balanced |-> 2, attack |-> 4], floor |-> 2, span |-> 2,
                baseError |-> 0, errorGain |-> 1, exponent |-> 1, workloadGain |-> 40],
   events |-> << >>, profile |-> [maxEvents |-> 3, granularity |-> "lap_start"],
   field |-> <<Competitor(2, TRUE, NoStrategy), Competitor(1, FALSE, NoStrategy)>>]

With(strategy) ==
  <<Competitor(2, TRUE, strategy), Competitor(1, FALSE, Strategy(<<Stint(1, "hard"), Stint(2, "soft")>>, {}))>>

Two == Strategy(<<Stint(2, "hard"), Stint(1, "soft")>>, {2, 3})

Three == Strategy(<<Stint(1, "soft"), Stint(1, "hard"), Stint(1, "soft")>>, {})

One == Strategy(<<Stint(2, "hard")>>, {})

Events == {Event(0, 2, At(1, 0), "attack"), Event(0, 1, At(1, 0), "manage"),
           Event(1, 2, At(1, 0), "manage"), Event(1, 2, At(2, 0), "manage"),
           Event(1, 2, At(1, 1), "balanced"), Event(1, 2, At(0, 1), "attack"),
           Event(1, 1, At(1, 0), "attack")}

Timelines == {<<e>> : e \in Events} \union {<<e, f>> : e, f \in Events}

\* The timelines raced over three laps as well as over two.
Longer == {<<Event(0, 2, At(1, 0), "attack")>>,
           <<Event(0, 1, At(1, 0), "manage"), Event(1, 2, At(2, 0), "manage")>>}

JobsSmall ==
  {[Base EXCEPT !.field = With(s)] : s \in {Two, Three}}
  \union {[Base EXCEPT !.pits = {0, 1, 3, 7}],
          [Base EXCEPT !.laps = 2, !.field = With(One)],
          [Base EXCEPT !.laps = 2, !.pits = {1},
                       !.field = <<Competitor(2, TRUE, One), Competitor(1, FALSE, NoStrategy)>>],
          [Base EXCEPT !.laps = 0],
          [Base EXCEPT !.model = "compatibility", !.laps = 0],
          [Base EXCEPT !.model = "compatibility", !.field = With(Two)]}
  \union {[Base EXCEPT !.events = t] : t \in Longer}
  \union {[Base EXCEPT !.laps = 2, !.events = t, !.profile.granularity = g] :
            t \in Timelines, g \in {"lap_start", "segment_boundary"}}

\* Drivers and control profiles at and just beyond the limits of the contract.
Drivers == {Traits(0, 4, 4), Traits(4, 0, 0), Traits(0, 0, 0), Traits(5, 4, 4)}

Controls ==
  {[Base.control EXCEPT !.baseError = b, !.errorGain = g, !.span = s] : b, g \in 0..1, s \in 1..3}
  \union {[Base.control EXCEPT !.commitment["attack"] = 2], [Base.control EXCEPT !.workloadGain = 41]}

JobsControls ==
  {[Base EXCEPT !.laps = 2, !.events = <<Event(0, 2, At(1, 0), "attack")>>, !.control = c,
                !.field = <<[Competitor(2, TRUE, NoStrategy) EXCEPT !.traits = d],
                            Competitor(1, FALSE, NoStrategy)>>] : c \in Controls, d \in Drivers}

JobsAll == JobsSmall \union JobsControls

RatiosSmall == <<6, 3, 2>>
==============================================================================
