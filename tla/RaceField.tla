------------------------------ MODULE RaceField ------------------------------
(****************************************************************************)
(* A racing session of the simulator over its field: what new_v3 and the    *)
(* historical path resolve from a request before the solver runs, advance() *)
(* from lap boundary to lap boundary, and the final classification.  The    *)
(* player's car is the kernel of RaceKernel; of a rival only the lap times  *)
(* matter, and they are any of RivalTimes.  Competitor ids are numbers and  *)
(* a job lists the competitors in field order.  Times are in quarters of a  *)
(* millisecond, the pit loss in milliseconds.                               *)
(*                                                                          *)
(* First, how a competitor's strategy becomes a tire for every lap, the     *)
(* laps it pits on, the pit plan of the solver and the lap times of the     *)
(* standings.  Lap numbers count from 1; tire_by_lap is the code's vector,  *)
(* so its entry for lap n is the one at index n - 1.                        *)
(****************************************************************************)
EXTENDS RaceKernel, DriverInstructions

------------------------------------------------------------------------------
(* Stint plans *)

CONSTANTS Compounds,    \* tire ids the catalog knows
          LapMax        \* u16::MAX of the lap counters

\* No plan: the error of a resolution.
NoPlan == [tires |-> << >>, pits |-> {}]

\* sanitize_pit_laps; the sorted, deduplicated vector as a set.
SanitizePitLaps(raw, total) ==
  IF total <= 1 THEN {} ELSE {n \in raw : 0 < n /\ n < total}

\* Laps driven when stint k ends, in saturating u16 arithmetic.
StintEnd(stints, k) ==
  LET Sum[j \in 0..k] ==
        IF j = 0 THEN 0
        ELSE IF Sum[j - 1] + stints[j].laps > LapMax THEN LapMax
        ELSE Sum[j - 1] + stints[j].laps
  IN  Sum[k]

\* The tires of the stints laid end to end, one entry a lap.
TireByLap(stints) ==
  LET Laid[k \in 0..Len(stints)] ==
        IF k = 0 THEN << >> ELSE Laid[k - 1] \o [n \in 1..stints[k].laps |-> stints[k].tire]
  IN  Laid[Len(stints)]

\* The stops between stints; the last stint has none.
StintPits(stints, total) ==
  {n \in {StintEnd(stints, k) : k \in 1..(Len(stints) - 1)} : 0 < n /\ n < total}

\* resolve_explicit_stint_plan.  A stint without a tire has tire "".
ExplicitPlanFails(strategy, total) ==
  \/ strategy.stints = << >>
  \/ \E k \in DOMAIN strategy.stints :
       strategy.stints[k].tire = "" \/ strategy.stints[k].laps = 0
  \/ StintEnd(strategy.stints, Len(strategy.stints)) # total
  \/ LET declared == SanitizePitLaps(strategy.pits, total)
     IN  declared # {} /\ declared # StintPits(strategy.stints, total)

\* resolve_stint_plan.  NoStrategy is a competitor without stint_strategy; only the
\* player then follows the request's pit laps, always back onto the default tire.
NoStrategy == [stints |-> << >>, pits |-> {}, given |-> FALSE]

ResolveStintPlan(competitor, total, defaultTire, playerPits) ==
  LET strategy == competitor.strategy IN
  IF strategy.given
  THEN IF ExplicitPlanFails(strategy, total) THEN NoPlan
       ELSE [tires |-> TireByLap(strategy.stints), pits |-> StintPits(strategy.stints, total)]
  ELSE [tires |-> [n \in 1..total |-> defaultTire],
        pits |-> IF competitor.player THEN SanitizePitLaps(playerPits, total) ELSE {}]

\* build_pit_plan: after lap n the car leaves on the tire of lap n + 1.
PitPlanFails(plan) ==
  \E n \in plan.pits : n + 1 > Len(plan.tires) \/ plan.tires[n + 1] \notin Compounds

\* MUTANT of BuildPitPlan: the stop fits the tire of the lap that just ended.
BuildPitPlanOld(plan) ==
  LET laps == InOrder(plan.pits)
  IN  [k \in DOMAIN laps |-> [lap |-> laps[k], tire |-> plan.tires[laps[k]]]]

BuildPitPlan(plan) ==
  LET laps == InOrder(plan.pits)
  IN  [k \in DOMAIN laps |-> [lap |-> laps[k], tire |-> plan.tires[laps[k] + 1]]]

\* Time is counted in quarters of a millisecond; round() is half away from zero.
Round(quarters) == (quarters + 2) \div 4

AtLeast(x, bound) == IF x < bound THEN bound ELSE x

\* MUTANT of LapTimesMs: the laps into and out of a stop are both charged.
LapTimesMsTwice(times, plan, lossMs) ==
  [n \in DOMAIN times |->
     AtLeast(Round(times[n]), 1) + (IF {n - 1, n} \intersect plan.pits # {} THEN lossMs ELSE 0)]

\* lap_times_ms: the standings' lap times, with the pit loss on the lap it follows.
LapTimesMs(times, plan, lossMs) ==
  [n \in DOMAIN times |->
     AtLeast(Round(times[n]), 1) + (IF n \in plan.pits THEN lossMs ELSE 0)]

------------------------------------------------------------------------------
(* The field *)

CONSTANTS Jobs,          \* requests
          RivalTimes,    \* lap times of a rival
          DefaultTire,   \* vehicle.default_tire_id
          ShiftTime,     \* shift duration
          FrameTick      \* 1 / telemetry_hz

\* A segment and a rival's lap take a measurable time.
ASSUME FieldAssumption ==
  /\ LapMax \in Nat \ {0} /\ ShiftTime \in Nat /\ FrameTick \in Nat \ {0} /\ DefaultTire \in STRING
  /\ Segment > 0 /\ \A v \in Speeds : v <= Segment
  /\ RivalTimes \subseteq Nat /\ \A t \in RivalTimes : t >= 2

\* The shape of a request: its integers are unsigned, those of the profile may have any
\* sign, and a lap counter has the width of LapMax.
Strategies ==
  [stints : Seq([laps : 0..LapMax, tire : STRING]), pits : SUBSET Nat, given : BOOLEAN]

Entrants ==
  [id : Nat, player : BOOLEAN, strategy : Strategies,
   traits : [exploitation : Int, consistency : Int, tires : Int]]

Instructions ==
  [sequence : Nat, competitor : Nat, at : [lap : Nat, segment : Nat], mode : Modes]

ControlProfiles ==
  [commitment : [Modes -> Int], floor : Int, span : Int, baseError : Int, errorGain : Int,
   exponent : Int, workloadGain : Int]

Races ==
  [model : {"v3", "compatibility"}, laps : 0..LapMax, segments : Nat, fuel : Nat, reserve : Nat,
   loss : Nat, pits : SUBSET Nat, control : ControlProfiles, events : Seq(Instructions),
   profile : [maxEvents : Nat, granularity : {"lap_start", "segment_boundary"}],
   field : Seq(Entrants)]

\* The competitors' ids are their own and the player is among them.
ASSUME JobsAssumption ==
  /\ Jobs \subseteq Races
  /\ \A j \in Jobs :
       /\ \E k \in DOMAIN j.field : j.field[k].player
       /\ \A k, l \in DOMAIN j.field : j.field[k].id = j.field[l].id => k = l

VARIABLES
  job,
  phase,      \* "rejected", "running", "failed", "completed"
  polling,    \* advance() is running
  rivals,     \* lap times of the rivals
  grids, events, frames,    \* what the progress records carried
  output      \* the classification

fieldVars == <<job, phase, polling, rivals, grids, events, frames, output>>
vars == <<kernelVars, fieldVars>>

------------------------------------------------------------------------------
(* Resolving a request *)

Ids(j) == {j.field[k].id : k \in DOMAIN j.field}

Seat(j, id) == CHOOSE k \in DOMAIN j.field : j.field[k].id = id

Player(j) == CHOOSE id \in Ids(j) : j.field[Seat(j, id)].player

Rivals(j) == Ids(j) \ {Player(j)}

Plan(j, id) ==
  ResolveStintPlan(j.field[Seat(j, id)], j.laps, DefaultTire, SanitizePitLaps(j.pits, j.laps))

PlanFails(j, id) ==
  LET strategy == j.field[Seat(j, id)].strategy
  IN  strategy.given /\ ExplicitPlanFails(strategy, j.laps)

\* resolve_competitor, for the baseline and for each of the competitor's instructions.
ControlsOf(j, id) ==
  {ResolveControl(j.field[Seat(j, id)].traits, mode, j.control) :
     mode \in {"balanced"} \union {ScheduleOf(j.events, id)[k].mode : k \in DOMAIN ScheduleOf(j.events, id)}}

\* The checks of new_v3 in the order in which they are made; the last two are the solver's.
V3Rejects(j) ==
  \/ j.events # << >> /\ ~TimelineValid(j.events, j.profile, Ids(j), j.laps, j.segments)
  \/ \E id \in Ids(j) :
       \/ j.events # << >>
          /\ ~(TraitsValid(j.field[Seat(j, id)].traits) /\ ControlProfileValid(j.control))
       \/ PlanFails(j, id) \/ Plan(j, id).tires = << >>
       \/ Plan(j, id).tires[1] \notin Compounds
       \/ PitPlanFails(Plan(j, id))
       \/ ~ScheduleValid(ScheduleOf(j.events, id), j.laps)
       \/ j.events # << >> /\ \E control \in ControlsOf(j, id) : ~ControlsValid(control)

\* The historical path has no instructions and does not read the first stint's tire.
HistoricalRejects(j) ==
  \E id \in Ids(j) : PlanFails(j, id) \/ PitPlanFails(Plan(j, id))

Rejects(j) == IF j.model = "v3" THEN V3Rejects(j) ELSE HistoricalRejects(j)

\* The solver request made for the player.
RequestOf(j) ==
  LET plan == Plan(j, Player(j)) IN
  [laps |-> j.laps, model |-> j.model, fuel |-> j.fuel, fuelModel |-> j.model = "v3",
   tire |-> IF j.model = "v3" /\ plan.tires # << >> THEN plan.tires[1] ELSE DefaultTire,
   stops |-> IF Rejects(j) THEN << >> ELSE BuildPitPlan(plan),
   penalty |-> 4 * j.loss, shift |-> ShiftTime, mode |-> "balanced",
   schedule |-> IF j.model = "v3" THEN ScheduleOf(j.events, Player(j)) ELSE << >>]

Init ==
  \E j \in Jobs :
    /\ job = j
    /\ phase = IF Rejects(j) THEN "rejected" ELSE "running"
    /\ polling = FALSE
    /\ rivals = [id \in Rivals(j) |-> << >>]
    /\ grids = << >> /\ events = << >> /\ frames = << >> /\ output = << >>
    /\ KernelInit(RequestOf(j))

------------------------------------------------------------------------------
(* advance *)

\* A competitor's cumulative time at the line, service included.
Cumulative(times, plan, loss) ==
  Total(times) + 4 * loss * Cardinality(plan.pits \intersect DOMAIN times)

\* Ranks by time, then by id.
Position(ms, id) ==
  1 + Cardinality({other \in DOMAIN ms :
                     ms[other] < ms[id] \/ (ms[other] = ms[id] /\ other < id)})

\* The player's frames of one lap: resampled on the lap's clock, moved to the race's.
FramesOf(time, offset, first) ==
  [k \in 1..((time + FrameTick - 1) \div FrameTick) |->
     [sequence |-> first + k - 1, time |-> offset + (k - 1) * FrameTick]]

\* The events of one competitor at a boundary.
EventsOf(id, n) ==
  <<[type |-> "lap", id |-> id, lap |-> n]>>
  \o (IF n \in Plan(job, id).pits THEN <<[type |-> "pit", id |-> id, lap |-> n]>> ELSE << >>)
  \o (IF \E k \in DOMAIN ScheduleOf(job.events, id) : ScheduleOf(job.events, id)[k].lap + 1 = n
      THEN <<[type |-> "instruction", id |-> id, lap |-> n]>> ELSE << >>)

\* The events of the whole field, in its order.
BoundaryEvents(n) ==
  LET Told[k \in 0..Len(job.field)] ==
        IF k = 0 THEN << >> ELSE Told[k - 1] \o EventsOf(job.field[k].id, n)
  IN  Told[Len(job.field)]

Poll ==
  /\ phase = "running" /\ ~polling
  /\ polling' = TRUE
  /\ IF pc = "yielded" THEN Resume ELSE UNCHANGED kernelVars
  /\ UNCHANGED <<job, phase, rivals, grids, events, frames, output>>

KernelStep == polling /\ KernelNext /\ UNCHANGED fieldVars

\* cumulative_time_s of the player's lap record.
PlayerTime == car.clock

\* Every solver has yielded this lap: the records of the boundary.
LapBoundary ==
  /\ polling /\ pc = "yielded"
  /\ polling' = FALSE
  /\ \E time \in [Rivals(job) -> RivalTimes] :
       LET laps == [id \in Rivals(job) |-> Append(rivals[id], time[id])]
           ms == [id \in Ids(job) |->
                    Round(IF id = Player(job) THEN PlayerTime
                          ELSE Cumulative(laps[id], Plan(job, id), job.loss))]
       IN  /\ rivals' = laps
           /\ grids' = Append(grids, [lap |-> lap, ms |-> ms,
                                      position |-> [id \in Ids(job) |-> Position(ms, id)]])
  /\ frames' = frames \o FramesOf(driven[lap].time,
                                  IF lap = 1 THEN 0 ELSE driven[lap - 1].after.clock,
                                  Len(frames))
  /\ events' = events \o BoundaryEvents(lap)
  /\ UNCHANGED <<kernelVars, job, phase, output>>

\* finalize_output: totals of rounded laps, a stable sort of the field by them.
Classification(times) ==
  LET total == [id \in Ids(job) |-> Total(LapTimesMs(times[id], Plan(job, id), job.loss))]
      ahead(id) == {other \in Ids(job) :
                      \/ total[other] < total[id]
                      \/ total[other] = total[id] /\ Seat(job, other) < Seat(job, id)}
      pits == Plan(job, Player(job)).pits
  IN  <<[total |-> total,
         position |-> [id \in Ids(job) |-> 1 + Cardinality(ahead(id))],
         pits |-> IF pits = {} THEN SanitizePitLaps(job.pits, job.laps) ELSE pits]>>

PlayerLaps == [n \in DOMAIN driven |-> driven[n].time]

TimesWith(laps) ==
  [id \in Ids(job) |-> IF id = Player(job) THEN PlayerLaps ELSE laps[id]]

\* The poll after the last lap.  The fuel reserve is checked on a finished race.
Finish ==
  /\ polling /\ pc = "done" /\ job.model = "v3"
  /\ polling' = FALSE
  /\ IF car.fuel < job.reserve
     THEN phase' = "failed" /\ UNCHANGED output
     ELSE phase' = "completed" /\ output' = Classification(TimesWith(rivals))
  /\ UNCHANGED <<kernelVars, job, rivals, grids, events, frames>>

\* run_single_session on a historical model: one competitor after the other, no records.
HistoricalFinish ==
  /\ polling /\ pc = "done" /\ job.model = "compatibility"
  /\ polling' = FALSE /\ phase' = "completed"
  /\ \E laps \in [Rivals(job) -> [1..LapCount -> RivalTimes]] :
       rivals' = laps /\ output' = Classification(TimesWith(laps))
  /\ UNCHANGED <<kernelVars, job, grids, events, frames>>

\* A solver's error ends the advance, and every later one: its kernel is complete.
AdvanceFails ==
  /\ polling /\ pc = "failed"
  /\ polling' = FALSE /\ phase' = "failed"
  /\ UNCHANGED <<kernelVars, job, rivals, grids, events, frames, output>>

Next == Poll \/ KernelStep \/ LapBoundary \/ Finish \/ HistoricalFinish \/ AdvanceFails

Spec == Init /\ [][Next]_vars

------------------------------------------------------------------------------
(* Properties *)

\* Every lap is driven on the compound the stint plan names for it, which is the one
\* the car carries, with the wear of the laps since that compound was fitted.  The
\* historical models start on the vehicle's own tire and follow the plan from the
\* first stop on.
TiresFollowPlan ==
  phase # "rejected" =>
    /\ TireOfLap
    /\ \A n \in DOMAIN driven :
         \/ n \in DOMAIN Plan(job, Player(job)).tires
            /\ driven[n].tire = Plan(job, Player(job)).tires[n]
         \/ job.model = "compatibility" /\ driven[n].tire = DefaultTire
            /\ \A pit \in Plan(job, Player(job)).pits : n <= pit

\* The standings charge each lap and each stop as the grid did: a competitor's final
\* time is the one of the last grid but for the rounding of its laps, so nobody moves
\* between the last grid and the classification who was not within that rounding.  The
\* pit laps of the output are the stops that were made, but for a player whose
\* strategy has no stop, for whom the request's own pit laps are echoed.
ClassificationFollowsGrid ==
  phase = "completed" /\ job.model = "v3" =>
    LET last == grids[Len(grids)]
        slack == job.laps + 1
    IN  /\ \A id \in Ids(job) :
             2 * (output[1].total[id] - last.ms[id]) \in (0 - slack)..slack
        /\ \A a, b \in Ids(job) :
             last.position[a] < last.position[b] /\ last.ms[b] - last.ms[a] > slack
               => output[1].position[a] < output[1].position[b]
        /\ \/ output[1].pits = {n \in DOMAIN driven : Stops(n) # {}}
           \/ /\ job.field[Seat(job, Player(job))].strategy.given
              /\ Plan(job, Player(job)).pits = {}

\* The player's frames are numbered without a gap and their times increase over the
\* whole race, stops included, although each lap is resampled on a clock of its own.
FramesInOrder ==
  \A k \in DOMAIN frames :
    /\ frames[k].sequence = k - 1
    /\ k > 1 => frames[k - 1].time < frames[k].time

\* Every lap is driven in the mode of the last instruction due by then, an instruction
\* event is reported at the end of the laps that changed the player's mode and of no
\* lap without an applied instruction, and a pit event after the laps with a service.
InstructionsTakeEffect ==
  phase # "rejected" =>
    /\ ModeOfLap
    /\ \A n \in DOMAIN grids :
         LET told(type) == \E k \in DOMAIN events :
                             events[k] = [type |-> type, id |-> Player(job), lap |-> n]
             before == IF n = 1 THEN request.mode ELSE driven[n - 1].mode
         IN  /\ before # driven[n].mode => told("instruction")
             /\ told("instruction") => \E k \in DOMAIN totals.applied :
                                         totals.applied[k].lap + 1 = n
             /\ told("pit") <=> driven[n].after.gear = None

\* A timeline that is valid at lap granularity, resolved with a valid control profile and
\* valid drivers, gives every competitor a schedule and physical controls the solver
\* accepts: no session is refused for the order, the laps or the effect of its
\* instructions, although contract and solver state their limits independently.
InstructionsAccepted ==
  job.profile.granularity = "lap_start"
    /\ TimelineValid(job.events, job.profile, Ids(job), job.laps, job.segments)
  => \A id \in Ids(job) :
       /\ ScheduleValid(ScheduleOf(job.events, id), job.laps)
       /\ ControlProfileValid(job.control) /\ TraitsValid(job.field[Seat(job, id)].traits)
            => \A control \in ControlsOf(job, id) : ControlsValid(control)

\* The driver instructions of a valid timeline are accepted, and each takes effect from
\* the lap it is due and is reported then.
InstructionsHonoured == InstructionsAccepted /\ InstructionsTakeEffect

\* What the session hands out follows the race that was driven: the classification its
\* grids, the telemetry frames its time.
ResultsFollowRace == ClassificationFollowsGrid /\ FramesInOrder
==============================================================================
