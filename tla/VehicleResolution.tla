-------------------------- MODULE VehicleResolution --------------------------
(***************************************************************************)
(* How a car of the catalog, its development points and its setup sliders  *)
(* become the vehicle the solver integrates: apply_tuning_with_response    *)
(* for the historical models (pitgun-racing-solver), and the profiles of   *)
(* the V3 candidates with the mechanical envelope and the driver controls  *)
(* (pitgun-racing-simulator), up to the solver's own admission checks.     *)
(*                                                                         *)
(* A vehicle is a function from its quantities to whole numbers and its    *)
(* gears to ratios <<numerator, denominator>>, each quantity in a unit of  *)
(* its own; a torque curve is scaled as one quantity, and sound says that  *)
(* what no resolution touches is in range.  Points count to Cap, sliders   *)
(* to Full.  A coefficient is a whole number of tenths.  A profile is that *)
(* of V3Profile with the coefficients themselves and the mechanical        *)
(* overrides; version 0 stands for the historical models.                  *)
(***************************************************************************)
EXTENDS V3Profile, Sequences, TLC

CONSTANTS Cap,       \* development_points_cap
          Full,      \* the slider position the code calls 1.0
          Cars,      \* the pairs [vehicle, profile] explored
          MaxPoints, \* bound on the points spent on an axis
          MinSlide, MaxSlide   \* bounds on the positions asked of a slider

VARIABLES car,      \* the catalog vehicle and the profile it is raced under
          tuning    \* axis -> points spent, control -> position asked for

vars == <<car, tuning>>

Axes == {"aero", "chassis", "cooling", "engine"}
Controls == {"downforce", "gearing", "aggression"}

Clamp(x, lo, hi) == IF x < lo THEN lo ELSE IF x > hi THEN hi ELSE x
Points(t, axis) == Clamp(t[axis], 0, Cap)
Slider(t, control) == Clamp(t[control], 0, Full)

(* A multiplier base + gain * share of the points, or of the slider.       *)
Developed(base, gain, t, axis) == base * Cap + gain * Points(t, axis)
Set(base, gain, t, control) == base * Full + gain * Slider(t, control)

Positive(f, names) == \A n \in names : f[n] > 0
NotNegative(f, names) == \A n \in names : f[n] >= 0

ResponseValid(r) ==
    /\ Cap > 0
    /\ Positive(r, {"drag base", "downforce base", "straight", "corner", "cooling base", "gear base"})
    /\ NotNegative(r, {"aero gain", "drag gain", "downforce gain", "grip gain", "cooling gain",
                       "torque gain", "gear reduction"})
    /\ r["gear base"] - r["gear reduction"] > 0

(***************************************************************************)
(* The historical response, and the transcription of it on the simulator's *)
(* side of the V3 boundary.                                                *)
(***************************************************************************)
Gears(v, num, den) == [v EXCEPT !.gears = [i \in DOMAIN @ |-> <<@[i][1] * num, @[i][2] * den>>]]

ApplyTuning(v, t, r) ==
    LET aero == Developed(10, r["aero gain"], t, "aero")
        drag == Set(r["drag base"], r["drag gain"], t, "downforce")
        downforce == Set(r["downforce base"], r["downforce gain"], t, "downforce")
        cooling == Developed(r["cooling base"], r["cooling gain"], t, "cooling")
    IN  Gears([v EXCEPT !.cdx = @ * aero * drag * r["straight"],
                        !.cdz = @ * aero * drag * r["corner"],
                        !.clx = @ * aero * downforce * r["straight"],
                        !.clz = @ * aero * downforce * r["corner"],
                        !.mu0 = @ * Developed(10, r["grip gain"], t, "chassis"),
                        !.torque = @ * Developed(10, r["torque gain"], t, "engine"),
                        !.pcool = @ * cooling, !.kcool = @ * cooling],
              Set(r["gear base"], -r["gear reduction"], t, "gearing"), 10 * Full)

ResolvePhysical(v, t, r) ==
    LET gain == 10 * Cap + r["aero gain"] * Points(t, "aero")
        setup == Slider(t, "downforce")
        drag == gain * (r["drag base"] * Full + r["drag gain"] * setup)
        downforce == gain * (r["downforce base"] * Full + r["downforce gain"] * setup)
        cooling == r["cooling base"] * Cap + r["cooling gain"] * Points(t, "cooling")
    IN  Gears([v EXCEPT !.cdx = @ * drag * r["straight"], !.cdz = @ * drag * r["corner"],
                        !.clx = @ * downforce * r["straight"], !.clz = @ * downforce * r["corner"],
                        !.mu0 = @ * (10 * Cap + r["grip gain"] * Points(t, "chassis")),
                        !.torque = @ * (10 * Cap + r["torque gain"] * Points(t, "engine")),
                        !.pcool = @ * cooling, !.kcool = @ * cooling],
              r["gear base"] * Full - r["gear reduction"] * Slider(t, "gearing"), 10 * Full)

(***************************************************************************)
(* The resolution resources of a V3 profile.                               *)
(***************************************************************************)
AeroValid(a) ==
    /\ 0 < a.min /\ a.min < a.max /\ a.max <= 20 /\ a.base > 0
    /\ a.induced \in 0..20 /\ a.gain \in 0..5 /\ a.reduction \in 0..5

DevelopmentValidUncapped(d) ==
    /\ 0 < d.without /\ d.without <= d.atCap
    /\ d.torque \in 0..5 /\ d.coolBase > 0 /\ d.coolGain \in 0..20

DevelopmentValid(d) ==
    /\ 0 < d.without /\ d.without <= d.atCap /\ d.atCap <= 10
    /\ d.torque \in 0..5 /\ d.coolBase > 0 /\ d.coolGain \in 0..20

TransmissionValid(x) == 4 <= x.min /\ x.min < x.max /\ x.max <= 15 /\ x.fraction \in 5..10

ThermalValid(h) ==
    /\ \A k \in {"capacity", "heat", "static", "speed", "slope"} : h[k] \in 1..40
    /\ h.offset \in (-50)..50 /\ h.floor \in 1..10
    /\ IF h.shape = "linear" THEN h.knee = 0 ELSE h.knee \in 1..50
    /\ h.drag \in 0..5

ResourceValid(p, kind) ==
    kind \in p.has => CASE kind = "aero" -> AeroValid(p.aero)
                        [] kind = "development" -> DevelopmentValid(p.development)
                        [] kind = "transmission" -> TransmissionValid(p.transmission)
                        [] kind = "thermal" -> ThermalValid(p.cooling)
                        [] OTHER -> TRUE

Governs(p) ==
    ResponseValid(p.response)
      /\ ProfileValid([p EXCEPT !.valid = \A kind \in p.has : ResourceValid(p, kind)])

(* Development, from the catalog's vehicle and not from the one resolved   *)
(* so far: tire friction is the catalog's again.                           *)
ResolveDevelopmentOnTop(v, resolved, t, d) ==
    LET cooling == Developed(d.coolBase, d.coolGain, t, "cooling")
    IN  [resolved EXCEPT !.torque = v.torque * Developed(10, d.torque, t, "engine"),
                         !.pcool = v.pcool * cooling, !.kcool = v.kcool * cooling]

ResolveDevelopment(v, resolved, t, d) ==
    LET cooling == Developed(d.coolBase, d.coolGain, t, "cooling")
    IN  [resolved EXCEPT !.mu0 = v.mu0,
                         !.torque = v.torque * Developed(10, d.torque, t, "engine"),
                         !.pcool = v.pcool * cooling, !.kcool = v.kcool * cooling]

ApplyThermal(resolved, h) ==
    [resolved EXCEPT !.cth = @ * h.capacity, !.heat = @ * h.heat, !.pcool = @ * h.static,
                     !.kcool = @ * h.speed, !.soft = @ + h.offset, !.derate = @ * h.slope]

AcceptsZeroDownforce(p) == p.version >= 5

AreasValid(p, drag, downforce) ==
    drag > 0 /\ (IF AcceptsZeroDownforce(p) THEN downforce >= 0 ELSE downforce > 0)

(* One fixed drag and one fixed downforce area; the drag of a setup grows  *)
(* with the square of the downforce it adds.                               *)
FixedDownforce(v, t, a) ==
    (v.clx + v.clz) * Set(a.min, a.max - a.min, t, "downforce") * Developed(10, a.gain, t, "aero")

FixedDrag(v, t, p) ==
    LET a == p.aero
        added == (v.clx + v.clz) * (a.max - a.min) * Slider(t, "downforce")
    IN  ((v.cdx + v.cdz) * a.base + a.induced * added * added) * Developed(10, -a.reduction, t, "aero")
          + (IF "thermal" \in p.has THEN p.cooling.drag * Points(t, "cooling") ELSE 0)

TargetTopSpeed(x, t) == Set(x.min, x.max - x.min, t, "gearing")

(* resolve_v3_transmission_gear_ratios: every ratio by the one factor that *)
(* turns the top gear at the chosen share of n_max at the target speed.    *)
TransmissionResolves(v) == v.wheel > 0 /\ v.nmax > 0 /\ v.gears /= <<>>

TransmissionGears(v, t, x) ==
    LET top == v.gears[Len(v.gears)]
    IN  [i \in DOMAIN v.gears |->
            <<v.gears[i][1] * x.fraction * v.nmax * v.wheel * Full * top[2],
              v.gears[i][2] * 10 * TargetTopSpeed(x, t) * top[1]>>]

Refused == [ok |-> FALSE]

(* resolve_v3_physical_vehicle_with_profile.                               *)
ResolveWithProfile(v, t, p) ==
    LET base == ResolvePhysical(v, t, p.response)
        developed == IF "development" \in p.has THEN ResolveDevelopment(v, base, t, p.development) ELSE base
        cooled == IF "thermal" \in p.has THEN ApplyThermal(developed, p.cooling) ELSE developed
        drag == FixedDrag(v, t, p)
        downforce == FixedDownforce(v, t, p.aero)
        fixed == [cooled EXCEPT !.cdx = drag, !.cdz = drag, !.clx = downforce, !.clz = downforce]
    IN  CASE ~Governs(p) -> Refused
          [] "aero" \notin p.has -> [ok |-> TRUE, vehicle |-> cooled]
          [] ~AreasValid(p, v.cdx + v.cdz, v.clx + v.clz) \/ ~AreasValid(p, drag, downforce) -> Refused
          [] "transmission" \notin p.has -> [ok |-> TRUE, vehicle |-> fixed]
          [] ~TransmissionResolves(v) -> Refused
          [] OTHER -> [ok |-> TRUE, vehicle |-> [fixed EXCEPT !.gears = TransmissionGears(v, t, p.transmission)]]

(***************************************************************************)
(* The mechanical envelope, the driver and the solver's admission.         *)
(***************************************************************************)
Whole == 10 * Cap

DefaultMechanical ==
    [brake |-> 18, upshift |-> 22, downshift |-> 11, duration |-> 5, power |-> 0, driveline |-> 95,
     efficiency |-> Whole, drag |-> 1, downforce |-> 3]

ResolveMechanical(resolved, t, p) ==
    LET areas == [DefaultMechanical EXCEPT !.drag = resolved.cdx + resolved.cdz,
                                           !.downforce = resolved.clx + resolved.clz]
        d == p.development
    IN  p.overrides @@
          (IF "development" \in p.has
           THEN [areas EXCEPT !.efficiency = Developed(d.without, d.atCap - d.without, t, "chassis")]
           ELSE areas)

DriverEffects(t) ==
    [wear |-> Set(92, 26, t, "aggression"), noise |-> Set(20, 60, t, "aggression"),
     bonus |-> Set(-20, -70, t, "aggression")]

DriverControl(t) ==
    [cornering |-> Set(94, 5, t, "aggression"), braking |-> Set(93, 6, t, "aggression"),
     traction |-> Set(95, 4, t, "aggression"), error |-> Set(4, -3, t, "aggression")]

(* A driver resolved from the catalog's traits comes first, then the       *)
(* profile's override, then the aggressiveness of the request's driver.    *)
Controls3(t, p) == IF p.version >= 10 \/ "control override" \in p.has THEN p.control ELSE DriverControl(t)

VehicleAccepted(v) ==
    /\ v.sound
    /\ Positive(v, {"wheel", "mu0", "idle", "nmax", "cth"})
    /\ NotNegative(v, {"cdx", "cdz", "clx", "clz", "torque", "up", "down", "heat", "pcool", "kcool", "derate"})
    /\ v.gears /= <<>> /\ \A i \in DOMAIN v.gears : v.gears[i][1] > 0
    /\ v.idle < v.nmax
    /\ v.up > 0 => v.down <= v.up /\ v.up <= v.nmax

MechanicalAccepted(m, v) ==
    /\ Positive(m, {"brake", "upshift", "downshift", "drag"})
    /\ m.downforce >= 0 /\ m.duration \in 0..50 /\ m.power \in 0..100
    /\ m.driveline \in 1..100 /\ m.efficiency \in 1..Whole
    /\ m.downshift < m.upshift /\ m.upshift <= v.nmax

ControlAccepted(c) ==
    /\ \A k \in {"cornering", "braking", "traction"} : c[k] \in (50 * Full)..(100 * Full)
    /\ c.error \in 0..(25 * Full)

(* What is raced: the historical kernel takes any tuned vehicle, the V3    *)
(* session only what passes the solver's checks.                           *)
Prepared(c, t) ==
    LET p == c.profile
        resolved == ResolveWithProfile(c.vehicle, t, p)
        mechanical == ResolveMechanical(resolved.vehicle, t, p)
        control == Controls3(t, p)
    IN  IF p.version = 0
        THEN IF ResponseValid(p.response)
             THEN [ok |-> TRUE, vehicle |-> ApplyTuning(c.vehicle, t, p.response), driver |-> DriverEffects(t)]
             ELSE Refused
        ELSE IF /\ resolved.ok /\ VehicleAccepted(resolved.vehicle)
                /\ MechanicalAccepted(mechanical, resolved.vehicle) /\ ControlAccepted(control)
             THEN [ok |-> TRUE, vehicle |-> resolved.vehicle, mechanical |-> mechanical, driver |-> control]
             ELSE Refused

(***************************************************************************)
(* The garage: points are spent and sliders moved, one at a time.          *)
(***************************************************************************)
Init ==
    /\ car \in Cars
    /\ tuning = [a \in Axes |-> 0] @@ [c \in Controls |-> MinSlide]

Spend(axis) == tuning[axis] < MaxPoints /\ tuning' = [tuning EXCEPT ![axis] = @ + 1] /\ UNCHANGED car
Slide(control) == tuning[control] < MaxSlide /\ tuning' = [tuning EXCEPT ![control] = @ + 1] /\ UNCHANGED car

Next == (\E axis \in Axes : Spend(axis)) \/ (\E control \in Controls : Slide(control))

Spec == Init /\ [][Next]_vars

(***************************************************************************)
(* Properties.                                                             *)
(***************************************************************************)
Same(x, y) == x[1] * y[2] = y[1] * x[2]

Differ(f, g) == {k \in DOMAIN f \ {"gears"} : f[k] /= g[k]}

Moved(a, b) ==
    Differ(a.vehicle, b.vehicle) \cup Differ(a.driver, b.driver)
      \cup (IF Same(a.vehicle.gears[1], b.vehicle.gears[1]) THEN {} ELSE {"gears"})
      \cup (IF "mechanical" \in DOMAIN a THEN Differ(a.mechanical, b.mechanical) ELSE {})

(* Where the points of an axis, or the position of a slider, are felt.     *)
Areas(c) ==
    (IF c.vehicle.clx + c.vehicle.clz = 0 THEN {} ELSE {"clx", "clz"}) \cup {"cdx", "cdz"}
Mechanical(c, names) == IF c.profile.version = 0 THEN {} ELSE names \ DOMAIN c.profile.overrides

Effects(c, what) ==
    LET p == c.profile
        lift == IF c.vehicle.clx + c.vehicle.clz = 0 THEN {} ELSE {"downforce"}
        induced == p.version <= 1 \/ lift /= {}
    IN  CASE what = "aero" -> Areas(c) \cup Mechanical(c, {"drag"} \cup lift)
          [] what = "downforce" -> IF induced THEN Areas(c) \cup Mechanical(c, {"drag"} \cup lift) ELSE {}
          [] what = "chassis" -> IF p.version <= 2 THEN {"mu0"} ELSE Mechanical(c, {"efficiency"})
          [] what = "engine" -> {"torque"}
          [] what = "cooling" -> {"pcool", "kcool"}
                \cup (IF "thermal" \in p.has THEN {"cdx", "cdz"} \cup Mechanical(c, {"drag"}) ELSE {})
          [] what = "gearing" -> {"gears"}
          [] what = "aggression" -> IF p.version = 0 THEN {"wear", "noise", "bonus"}
                                    ELSE IF p.version >= 10 \/ "control override" \in p.has THEN {}
                                    ELSE {"cornering", "braking", "traction", "error"}

Reaches(what, t, u) ==
    IF what \in Axes THEN Points(t, what) /= Points(u, what) ELSE Slider(t, what) /= Slider(u, what)

(* A point spent on an axis, and a slider moved, changes exactly the       *)
(* quantities that axis stands for under the profile the car is raced      *)
(* with: chassis development is grip or force transfer and never both,     *)
(* cooling costs drag only where a thermal resource prices it, an override *)
(* is not moved, and beyond the cap nothing changes at all.                *)
ActsWhereItShould ==
    LET before == Prepared(car, tuning)
        after == Prepared(car, tuning')
    IN  \A what \in Axes \cup Controls :
            tuning'[what] /= tuning[what] /\ before.ok
            => /\ after.ok
               /\ Moved(before, after) = IF Reaches(what, tuning, tuning') THEN Effects(car, what) ELSE {}

TopSpeed(v) == <<v.nmax * v.wheel * v.gears[Len(v.gears)][2], v.gears[Len(v.gears)][1]>>

(* The first V3 profile resolves the vehicle the historical response       *)
(* resolves, with a force-transfer efficiency of one; a transmission       *)
(* resource gives every car the top speed its slider asks for and keeps    *)
(* the spacing of its gears; and a sound car under a governed profile      *)
(* without overrides, whose engine reaches the shift point, is a car the   *)
(* solver accepts.                                                         *)
ResolvedAsDocumented ==
    LET p == car.profile
        v == car.vehicle
        x == p.transmission
        prepared == Prepared(car, tuning)
        gears == prepared.vehicle.gears
    IN  /\ p.version = 1 /\ prepared.ok =>
              prepared.vehicle = ApplyTuning(v, tuning, p.response) /\ prepared.mechanical.efficiency = Whole
        /\ p.version >= 4 /\ prepared.ok =>
              /\ Same(<<TopSpeed(prepared.vehicle)[1] * x.fraction * Full, TopSpeed(prepared.vehicle)[2] * 10>>,
                      <<TargetTopSpeed(x, tuning), 1>>)
              /\ \A i \in DOMAIN gears :
                    Same(<<gears[i][1] * v.gears[1][1], gears[i][2] * v.gears[1][2]>>,
                         <<v.gears[i][1] * gears[1][1], v.gears[i][2] * gears[1][2]>>)
        /\ /\ p.version > 0 /\ Governs(p) /\ VehicleAccepted(v) /\ DOMAIN p.overrides = {}
           /\ "control override" \notin p.has /\ v.nmax >= DefaultMechanical.upshift
           /\ AreasValid(p, v.cdx + v.cdz, v.clx + v.clz)
           => prepared.ok
=============================================================================
