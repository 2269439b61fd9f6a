------------------------- MODULE DriverInstructions -------------------------
(***************************************************************************)
(* Driver instructions: the timeline contract, the schedule resolved from  *)
(* it for one competitor, and the physical controls a driver, a mode and a *)
(* control profile give.  Competitor ids are numbers, so that they have    *)
(* the code's lexical order.  Real coefficients are in units of 1/Unit.    *)
(***************************************************************************)
EXTENDS Integers, Sequences, FiniteSets

CONSTANTS Unit,        \* what a coefficient of 1.0 is written as
          EventLimit   \* the greatest max_events_per_session a profile may set (4096)

ASSUME UnitAssumption == Unit \in Nat \ {0}

Modes == {"manage", "balanced", "attack"}

\* The boundaries' derived order: lap first, then segment.
Before(a, b) == a.lap < b.lap \/ (a.lap = b.lap /\ a.segment < b.segment)

\* RacingDriverInstructionProfileV1::validate.
ProfileValid(profile) == profile.maxEvents \in 1..EventLimit

\* One event of the loop in validate_for_session, by itself.
EventValid(event, k, profile, competitors, laps, segments) ==
  /\ event.sequence = k - 1
  /\ event.competitor \in competitors
  /\ event.at.lap < laps /\ event.at.segment < segments
  /\ ~(event.at.lap = 0 /\ event.at.segment = 0)
  /\ profile.granularity = "lap_start" => event.at.segment = 0

\* The comparison with the event before: boundary, then competitor, never equal.
InCanonicalOrder(earlier, event) ==
  \/ Before(earlier.at, event.at)
  \/ earlier.at = event.at /\ earlier.competitor < event.competitor

\* RacingDriverInstructionTimelineV1::validate_for_session.
TimelineValid(events, profile, competitors, laps, segments) ==
  /\ ProfileValid(profile)
  /\ competitors # {} /\ laps > 0 /\ segments > 0
  /\ Len(events) <= profile.maxEvents
  /\ \A k \in DOMAIN events : EventValid(events[k], k, profile, competitors, laps, segments)
  /\ \A k \in 1..(Len(events) - 1) : InCanonicalOrder(events[k], events[k + 1])

\* A finite set of numbers in ascending order.
InOrder(S) ==
  [k \in 1..Cardinality(S) |-> CHOOSE n \in S : Cardinality({m \in S : m <= n}) = k]

\* V3DriverInstructionExperimentV1::resolve_competitor and the solver's schedule made
\* of it in new_v3: the competitor's events in timeline order, without the baseline.
\* The segment of the boundary is dropped.
ScheduleOf(events, competitor) ==
  LET mine == InOrder({k \in DOMAIN events : events[k].competitor = competitor})
  IN  [k \in DOMAIN mine |-> [lap |-> events[mine[k]].at.lap, mode |-> events[mine[k]].mode]]

AtLeastOne(n) == IF n < 1 THEN 1 ELSE n

\* validate_driver_control_schedule_v3, by lap index; the controls of an entry are
\* checked by ControlsValid.
ScheduleValid(schedule, laps) ==
  /\ \A k \in DOMAIN schedule : schedule[k].lap > 0 /\ schedule[k].lap < AtLeastOne(laps)
  /\ \A k \in 1..(Len(schedule) - 1) : schedule[k].lap < schedule[k + 1].lap

------------------------------------------------------------------------------
(* The physical controls *)

Fraction(x) == 0 <= x /\ x <= Unit

\* RacingDriverResourceV2::validate, its traits.
TraitsValid(traits) ==
  Fraction(traits.exploitation) /\ Fraction(traits.consistency) /\ Fraction(traits.tires)

\* validate_utilization; one response stands for each of the three force channels,
\* which are validated and resolved alike.
UtilizationValid(p) ==
  /\ 2 * p.floor >= Unit /\ p.floor <= Unit
  /\ p.span >= 0 /\ p.floor + p.span <= Unit

\* RacingDriverControlProfileV1::validate.
ControlProfileValid(p) ==
  /\ \A mode \in Modes : Fraction(p.commitment[mode])
  /\ p.commitment["manage"] < p.commitment["balanced"]
  /\ p.commitment["balanced"] < p.commitment["attack"]
  /\ UtilizationValid(p)
  /\ p.baseError >= 0 /\ p.errorGain >= 0
  /\ 4 * (p.baseError + p.errorGain) <= Unit
  /\ p.exponent \in 1..4
  /\ p.workloadGain >= 0 /\ p.workloadGain <= 10 * Unit

Power(x, n) == LET P[k \in 0..n] == IF k = 0 THEN 1 ELSE x * P[k - 1] IN P[n]

\* resolve_v3_driver_control_v1, in integer arithmetic rounded down.
ResolveControl(traits, mode, p) ==
  LET c == p.commitment[mode]
      error == p.baseError + (p.errorGain * Power(c, p.exponent) * (Unit - traits.consistency))
                             \div (Power(Unit, p.exponent) * Unit)
  IN  [utilization |-> p.floor + (p.span * traits.exploitation * c) \div (Unit * Unit),
       error |-> error,
       workload |-> Unit + (p.workloadGain * c * error * (Unit - traits.tires))
                           \div (Unit * Unit * Unit)]

\* validate_driver_control_v3 and validate_driver_correction_workload_v3.
ControlsValid(control) ==
  /\ 2 * control.utilization >= Unit /\ control.utilization <= Unit
  /\ control.error >= 0 /\ 4 * control.error <= Unit
  /\ control.workload >= Unit /\ 2 * control.workload <= 7 * Unit
==============================================================================
