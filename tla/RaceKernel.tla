----------------------------- MODULE RaceKernel -----------------------------
(****************************************************************************)
(* The lap loops of the racing solver for one competitor: the compatibility *)
(* kernel, and the resolved V3 kernel, which computes every lap Coupling    *)
(* times, keeps the last pass only and yields the lap to its session.       *)
(*                                                                          *)
(* Forces, heat and grip are left to choice: the speed the car reaches at a *)
(* sample, the wear a segment adds and the fuel a lap burns are any of      *)
(* small sets.                                                              *)
(* What is exact is the control around them: gears and shift timing, which  *)
(* tire and which driver controls a lap is driven with, service at the      *)
(* stops, and what is carried from sample to sample and from lap to lap.    *)
(* The samples 0..n-1 of the code are 1..Samples.                           *)
(****************************************************************************)
EXTENDS Integers, Sequences, FiniteSets

CONSTANTS Samples, Segment,     \* samples of the track and the distance between two
          Speeds,               \* speeds the forces may give at a sample
          Ratios,               \* engine.gear_ratios
          RpmIdle, RpmMax,      \* engine.n_idle, engine.n_max; the torque curve's ends
          RpmDown, RpmUp,       \* mechanical.downshift_rpm, upshift_rpm
          Coupling,             \* V3_TIRE_COUPLING_ITERATIONS
          Burns, WearSteps,     \* fuel of a lap, wear of a segment
          WearMax,              \* wear 1.0
          Noises                \* driver bonus and noise of a compatibility lap

ASSUME KernelAssumption ==
  /\ Samples \in Nat /\ Samples >= 3 /\ Segment \in Nat /\ Coupling \in Nat \ {0}
  /\ Speeds \subseteq Nat /\ Burns \subseteq Nat /\ WearSteps \subseteq Nat /\ WearMax \in Nat
  /\ Noises \subseteq Int
  /\ Ratios \in Seq(Nat) /\ Len(Ratios) > 0 /\ RpmDown < RpmUp /\ RpmUp <= RpmMax

VARIABLES
  request,   \* the solver's request, as far as the loops read it
  pc,        \* "lap", "sample", "yielded", "done", "failed"
  lap, pass,
  trace,     \* the vectors and accumulators of the pass in progress
  car,       \* what a lap hands to the next
  totals,    \* the accumulators of the whole run
  driven     \* the laps that were computed, in order

kernelVars == <<request, pc, lap, pass, trace, car, totals, driven>>

None == -1

Safe(v) == IF v < 1 THEN 1 ELSE v

Least(a, b) == IF a < b THEN a ELSE b

Greatest(a, b) == IF a < b THEN b ELSE a

LapCount == Greatest(request.laps, 1)

Total(times) == LET S[k \in 0..Len(times)] == IF k = 0 THEN 0 ELSE S[k - 1] + times[k]
                IN  S[Len(times)]

------------------------------------------------------------------------------
(* Gears *)

\* rpm_from_speed_gear.
Rpm(v, gear) == v * Ratios[gear]

\* power_kw_from_rpm: no power at or outside the ends of the torque curve.
PowerAt(rpm) == IF rpm <= RpmIdle \/ rpm >= RpmMax THEN 0 ELSE rpm

\* best_power_at_speed: the first gear of greatest power, gear 1 when none has any.
BestGear(v) ==
  LET p(g) == PowerAt(Rpm(v, g))
      best == {g \in DOMAIN Ratios : p(g) > 0 /\ \A h \in DOMAIN Ratios :
                                       p(h) < p(g) \/ (p(h) = p(g) /\ g <= h)}
  IN  IF best = {} THEN 1 ELSE CHOOSE g \in best : TRUE

\* select_sequential_gear_v3.
SelectGear(v, gear, available) ==
  LET rpm == Rpm(v, gear) IN
  IF ~available THEN gear
  ELSE IF rpm >= RpmUp /\ gear < Len(Ratios) THEN gear + 1
  ELSE IF rpm <= RpmDown /\ gear > 1 THEN gear - 1
  ELSE gear

\* The compatibility kernel keeps a gear that is in range and gives the power the
\* car was found to use, and otherwise jumps to the best one.
GearsAllowed(v, gear) ==
  IF RpmIdle <= Rpm(v, gear) /\ Rpm(v, gear) <= RpmMax THEN {gear, BestGear(v)}
  ELSE {BestGear(v)}

------------------------------------------------------------------------------
(* Laps *)

\* tire_for_lap: the last stop before the lap decides, the vehicle's tire without one.
TireForLap(fitted, stops, n) ==
  LET gone == {k \in DOMAIN stops : stops[k].lap < n}
  IN  IF gone = {} THEN fitted
      ELSE stops[CHOOSE k \in gone : \A j \in gone : j <= k].tire

\* The state at the line before lap 1.  speed and gear are the code's Options.
NewCar(r) == [fuel |-> r.fuel, wear |-> 0, tire |-> r.tire, speed |-> None, gear |-> None,
              left |-> 0, mode |-> r.mode, cursor |-> 0, clock |-> 0]

NewTotals == [shifts |-> 0, interrupted |-> 0, asked |-> 0, applied |-> << >>]

KernelInit(r) ==
  /\ request = r
  /\ pc = "lap" /\ lap = 1 /\ pass = 1
  /\ trace = << >>
  /\ car = NewCar(r)
  /\ totals = [NewTotals EXCEPT !.applied = IF r.schedule = << >> THEN << >>
                                            ELSE <<[lap |-> 0, mode |-> r.mode]>>]
  /\ driven = << >>

\* A pass starts from what the lap before left, whatever earlier passes computed.  The
\* car enters at the speed it left with, or slower; after a stop it stands in first.
NewTraces(c) ==
  {[v |-> <<v>>, gear |-> <<IF c.gear = None THEN 1 ELSE c.gear>>, left |-> c.left,
    shifts |-> 0, interrupted |-> 0, wear |-> c.wear, asked |-> 0] :
      v \in IF c.speed = None THEN {0} ELSE {v \in Speeds : v <= c.speed}}

\* MUTANT of ScheduleDue: an entry overtaken by the lap counter is applied late.
ScheduleDueLate(c, n) ==
  c.cursor < Len(request.schedule) /\ request.schedule[c.cursor + 1].lap < n - 1

\* The next entry of the control schedule takes effect at the start of this lap.
ScheduleDue(c, n) ==
  c.cursor < Len(request.schedule) /\ request.schedule[c.cursor + 1].lap = n - 1

StartLap ==
  /\ pc = "lap" /\ lap <= LapCount
  /\ LET due == ScheduleDue(car, lap)
         entry == request.schedule[car.cursor + 1]
     IN  /\ car' = IF due THEN [car EXCEPT !.mode = entry.mode, !.cursor = @ + 1] ELSE car
         /\ totals' = IF due THEN [totals EXCEPT !.applied = Append(@, entry)] ELSE totals
  /\ trace' \in NewTraces(car')
  /\ pass' = 1 /\ pc' = "sample"
  /\ UNCHANGED <<request, lap, driven>>

Sample == Len(trace.v)   \* the sample the pass stands at

\* The tire part of a sample: wear is capped, the wear asked for is not.
Wear(t, step) == [t EXCEPT !.wear = Least(@ + step, WearMax), !.asked = @ + step]

\* One sample of the V3 kernel's forward pass.
V3Sample ==
  /\ pc = "sample" /\ request.model = "v3" /\ Sample < Samples
  /\ LET v == Safe(trace.v[Sample])
         dt == Segment \div v
         gear == SelectGear(v, trace.gear[Sample], trace.left = 0)
         shifted == gear # trace.gear[Sample]
         left == IF shifted THEN request.shift ELSE trace.left
     IN  \E next \in Speeds, step \in WearSteps :
           trace' = Wear([trace EXCEPT
                            !.v = Append(@, next),
                            !.gear = Append([@ EXCEPT ![Sample] = gear], gear),
                            !.left = Greatest(left - dt, 0),
                            !.shifts = @ + (IF shifted THEN 1 ELSE 0),
                            !.interrupted = @ + Least(left, dt)], step)
  /\ UNCHANGED <<request, pc, lap, pass, car, totals, driven>>

\* One sample of the compatibility kernel: the first keeps the gear the lap began with.
CompatibilitySample ==
  /\ pc = "sample" /\ request.model = "compatibility" /\ Sample < Samples
  /\ LET v == Safe(trace.v[Sample])
         gears == IF Sample = 1 THEN {trace.gear[1]} ELSE GearsAllowed(v, trace.gear[Sample - 1])
     IN  \E next \in Speeds, gear \in gears, step \in WearSteps :
           trace' = Wear([trace EXCEPT !.v = Append(@, next),
                                       !.gear = Append([@ EXCEPT ![Sample] = gear], gear)], step)
  /\ UNCHANGED <<request, pc, lap, pass, car, totals, driven>>

\* The accumulators of a pass are added to those of the run.
Added(t) == [totals EXCEPT !.shifts = @ + t.shifts, !.interrupted = @ + t.interrupted,
                           !.asked = @ + t.asked]

\* MUTANT of NextPass: the shifts of every pass are counted.
NextPassAdding ==
  /\ pc = "sample" /\ request.model = "v3" /\ Sample = Samples /\ pass < Coupling
  /\ trace' \in NewTraces(car) /\ pass' = pass + 1
  /\ totals' = [totals EXCEPT !.shifts = @ + trace.shifts]
  /\ UNCHANGED <<request, pc, lap, car, driven>>

\* A pass that is not the last leaves only its tire references behind.
NextPass ==
  /\ pc = "sample" /\ request.model = "v3" /\ Sample = Samples /\ pass < Coupling
  /\ trace' \in NewTraces(car) /\ pass' = pass + 1
  /\ UNCHANGED <<request, pc, lap, car, totals, driven>>

\* Trapezoidal lap time of the final speeds.
LapTime(v) ==
  LET T[k \in 1..Samples] ==
        IF k = 1 THEN 0 ELSE T[k - 1] + (2 * Segment) \div (Safe(v[k]) + Safe(v[k - 1]))
  IN  T[Samples]

\* The stop taken after this lap; `find` takes the first one listed for it.
Stops(n) == {k \in DOMAIN request.stops : request.stops[k].lap = n}

\* Service: fresh tires, a standing start in first gear, no shift under way.
Serviced(c, n) ==
  IF Stops(n) = {} THEN c
  ELSE [c EXCEPT !.tire = request.stops[CHOOSE k \in Stops(n) : \A j \in Stops(n) : k <= j].tire,
                 !.wear = 0,
                 !.clock = @ + request.penalty, !.speed = None, !.gear = None, !.left = 0]

\* The car at the line after a lap that took `time` and burnt `burn`.
AtTheLine(time, burn) ==
  Serviced([car EXCEPT !.fuel = Greatest(@ - burn, 0), !.wear = trace.wear,
                       !.speed = trace.v[Samples], !.gear = trace.gear[Samples],
                       !.left = trace.left, !.clock = @ + time], lap)

LapRecord(time, burn) ==
  [lap |-> lap, time |-> time, burn |-> burn, asked |-> trace.asked,
   tire |-> TireForLap(car.tire, request.stops, lap), fitted |-> car.tire,
   worn |-> car.wear, mode |-> car.mode, entered |-> car.gear, left |-> car.left,
   gear |-> trace.gear, after |-> AtTheLine(time, burn)]

\* The end of the last pass in the V3 kernel, up to the yield.
V3CloseLap ==
  /\ pc = "sample" /\ request.model = "v3" /\ Sample = Samples /\ pass = Coupling
  /\ \E burn \in Burns :
       LET time == LapTime(trace.v) IN
       IF request.fuelModel /\ burn > car.fuel
       THEN pc' = "failed" /\ UNCHANGED <<car, driven>>
       ELSE /\ pc' = "yielded"
            /\ car' = AtTheLine(time, burn)
            /\ driven' = Append(driven, LapRecord(time, burn))
  /\ totals' = Added(trace)
  /\ UNCHANGED <<request, lap, pass, trace>>

\* The end of a compatibility lap; it goes on with the next one by itself.
CompatibilityCloseLap ==
  /\ pc = "sample" /\ request.model = "compatibility" /\ Sample = Samples
  /\ \E burn \in Burns, noise \in Noises :
       LET time == Greatest(LapTime(trace.v) + noise, 1) IN
       /\ car' = AtTheLine(time, burn)
       /\ driven' = Append(driven, LapRecord(time, burn))
  /\ lap' = lap + 1
  /\ pc' = IF lap = LapCount THEN "done" ELSE "lap"
  /\ UNCHANGED <<request, pass, trace, totals>>

\* The session polls a kernel that has yielded: it goes on, or gives its result.
Resume ==
  /\ pc = "yielded"
  /\ pc' = IF lap = LapCount THEN "done" ELSE "lap"
  /\ lap' = lap + 1
  /\ UNCHANGED <<request, pass, trace, car, totals, driven>>

KernelNext ==
  \/ StartLap \/ V3Sample \/ CompatibilitySample \/ NextPass
  \/ V3CloseLap \/ CompatibilityCloseLap

------------------------------------------------------------------------------
(* Properties *)

SumOver(f(_), first) ==
  Total([k \in DOMAIN driven |-> IF k < first THEN 0 ELSE f(driven[k])])

\* Each lap is driven on the tire the car carries, although the two are looked up in
\* different ways; a lap starts with the wear the last one left, none after a service;
\* and the wear of the tire is what the laps since the last service have asked for,
\* capped at full wear, however often each lap was computed.
TireOfLap ==
  /\ \A n \in DOMAIN driven :
       /\ driven[n].tire = driven[n].fitted
       /\ driven[n].worn = IF n = 1 \/ Stops(n - 1) # {} THEN 0 ELSE driven[n - 1].after.wear
  /\ LET served == {0} \union {n \in DOMAIN driven : Stops(n) # {}}
         last == CHOOSE n \in served : \A k \in served : k <= n
     IN  car.wear = Least(SumOver(LAMBDA d : d.asked, last + 1), WearMax)
  /\ pc # "failed" /\ request.model = "v3" => totals.asked = SumOver(LAMBDA d : d.asked, 1)

\* Changes of gear in one lap of the V3 kernel, the one at its first sample included.
Entered(d) == IF d.entered = None THEN 1 ELSE d.entered

GearBefore(d, k) == IF k = 1 THEN Entered(d) ELSE d.gear[k - 1]

Changes(d) == Cardinality({k \in 1..Samples : d.gear[k] # GearBefore(d, k)})

\* The V3 gearbox is sequential from the first sample of the race to the last: no two
\* neighbouring samples, also across the line, differ by more than a gear, except that
\* a stop puts the car in first.  The shift count of the result is the number of those
\* changes, although every lap is computed several times, and the time lost to shifts
\* is a whole shift for each of them but for what is still to run or a stop cut off.
ShiftsAccounted ==
  request.model = "v3" /\ pc # "failed" =>
    /\ \A n \in DOMAIN driven : \A k \in 1..Samples :
         driven[n].gear[k] - GearBefore(driven[n], k) \in {-1, 0, 1}
    /\ \A n \in 2..Len(driven) :
         Entered(driven[n]) = IF Stops(n - 1) = {} THEN driven[n - 1].gear[Samples] ELSE 1
    /\ totals.shifts = SumOver(Changes, 1)
    /\ totals.interrupted + car.left <= totals.shifts * request.shift
    /\ (\A n \in DOMAIN driven : Stops(n) = {}) =>
         totals.interrupted + car.left = totals.shifts * request.shift

\* Every lap is driven in the mode of the last schedule entry that is due by then, and
\* the result lists the baseline and exactly the entries that took effect.
ModeOfLap ==
  LET due(n) == {k \in DOMAIN request.schedule : request.schedule[k].lap < n}
      latest(n) == CHOOSE k \in due(n) : \A j \in due(n) :
                     request.schedule[j].lap <= request.schedule[k].lap
  IN  /\ \A n \in DOMAIN driven :
           driven[n].mode = IF due(n) = {} THEN request.mode
                            ELSE request.schedule[latest(n)].mode
      /\ pc = "done" /\ request.schedule # << >> =>
           totals.applied = <<[lap |-> 0, mode |-> request.mode]>> \o request.schedule
==============================================================================
