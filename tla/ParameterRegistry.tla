-------------------------- MODULE ParameterRegistry --------------------------
(***************************************************************************)
(* The parameter registry of pitgun-contract/src/registry.rs, filled by    *)
(* add and by loading a file, and the converter service of                 *)
(* pitgun-core/src/converter.rs built beside it.  A registry is a list of  *)
(* parameters and two indexes over it: positions by identifier, and        *)
(* identifiers by name, under which a parameter is entered twice when it   *)
(* has a canonical name.                                                   *)
(*                                                                         *)
(* The conversions are those of Conversion in registry.rs and of           *)
(* ConversionMethod with its table builder in converter.rs, two            *)
(* implementations of the same formulas.  A number is a fraction <<n, d>>  *)
(* with d > 0; NaN is the result of 0/0, and Panic the outcome of an index *)
(* out of bounds.  Rounding to f64, ln and caller-supplied functions are   *)
(* left out.                                                               *)
(***************************************************************************)
EXTENDS Integers, Sequences, FiniteSets, SequencesExt

------------------------------------------------------------------------------
(* Raw sample values and their engineering units *)

NaN == <<0, 0>>
Panic == <<0, -1>>
NoNumber == <<0, -2>>

Int2Num(n) == <<n, 1>>
IsNum(x) == x[2] > 0
Less(x, y) == x[1] * y[2] < y[1] * x[2]
AtMost(x, y) == x[1] * y[2] <= y[1] * x[2]
Same(x, y) == IF IsNum(x) /\ IsNum(y) THEN x[1] * y[2] = y[1] * x[2] ELSE x = y
Plus(x, y) == <<x[1] * y[2] + y[1] * x[2], x[2] * y[2]>>
Minus(x, y) == <<x[1] * y[2] - y[1] * x[2], x[2] * y[2]>>
Times(x, y) == <<x[1] * y[1], x[2] * y[2]>>
Over(x, y) == IF y[1] = 0 THEN NaN
              ELSE IF y[1] > 0 THEN <<x[1] * y[2], x[2] * y[1]>>
              ELSE <<(-x[1]) * y[2], x[2] * (-y[1])>>

(* SampleValue::as_f64.  A sample's kind is "number", "bytes" or "text";   *)
(* text counts when it parses as a number.                                 *)
AsF64(sample) == IF sample.kind = "bytes" THEN NoNumber ELSE sample.number

(* The sum of coef * power, the power multiplied up as the loop goes.      *)
EvalPolynomial(coefficients, x) ==
    FoldLeft(LAMBDA acc, c : [result |-> Plus(acc.result, Times(c, acc.power)),
                              power |-> Times(acc.power, x)],
             [result |-> Int2Num(0), power |-> Int2Num(1)], coefficients).result

(* The first segment of a table whose closed interval contains x, or 0.    *)
SegmentOf(from, x) ==
    LET holds == {i \in 1..(Len(from) - 1) : AtMost(from[i], x) /\ AtMost(x, from[i + 1])}
    IN  IF holds = {} THEN 0 ELSE CHOOSE i \in holds : \A j \in holds : i <= j

(* A value on segment i, interpolated between two arrays.  A segment of    *)
(* width zero divides 0 by 0, and a missing entry of the second array is   *)
(* an index out of bounds.                                                 *)
OnSegment(from, to, i, x) ==
    LET width == Minus(from[i + 1], from[i])
    IN  IF i + 1 > Len(to) THEN Panic
        ELSE IF width[1] = 0 THEN NaN
        ELSE Plus(to[i], Times(Over(Minus(x, from[i]), width), Minus(to[i + 1], to[i])))

(* Conversion::Table, read forwards by apply and backwards by unapply:     *)
(* segments first, then the nearest end.                                   *)
TableLookup(from, to, x) ==
    IF from = <<>> \/ to = <<>> THEN x
    ELSE IF SegmentOf(from, x) # 0 THEN OnSegment(from, to, SegmentOf(from, x), x)
    ELSE IF Less(x, from[1]) THEN to[1]
    ELSE to[Len(to)]

(* The registry's apply and unapply.  A bit field truncates the raw value  *)
(* to an unsigned integer, shifts it and masks it.                         *)
Apply(c, x) ==
    CASE c.kind = "none" -> x
      [] c.kind = "linear" -> Plus(Times(x, c.scale), c.offset)
      [] c.kind = "polynomial" -> EvalPolynomial(c.coefficients, x)
      [] c.kind = "table" -> TableLookup(c.from, c.to, x)
      [] c.kind = "bits" ->
           LET raw == IF x[1] < 0 THEN 0 ELSE x[1] \div x[2]
               bits == (raw \div 2^c.start) % 2^c.count
           IN  Plus(Times(Int2Num(bits), c.scale), c.offset)

Unapply(c, y) ==
    CASE c.kind \in {"none", "polynomial"} -> y
      [] c.kind \in {"linear", "bits"} ->
           IF c.scale[1] = 0 THEN y ELSE Over(Minus(y, c.offset), c.scale)
      [] c.kind = "table" ->
           IF c.from = <<>> THEN y ELSE TableLookup(c.to, c.from, y)

(* The converter's apply: the same formulas, but its table settles the two *)
(* ends before it looks for a segment.                                     *)
MethodTable(from, to, x) ==
    IF from = <<>> \/ to = <<>> THEN x
    ELSE IF AtMost(x, from[1]) THEN to[1]
    ELSE IF AtMost(from[Len(from)], x) THEN to[Len(to)]
    ELSE IF SegmentOf(from, x) # 0 THEN OnSegment(from, to, SegmentOf(from, x), x)
    ELSE x

MethodApply(m, x) ==
    CASE m.kind = "identity" -> x
      [] m.kind = "linear" -> Plus(Times(m.scale, x), m.offset)
      [] m.kind = "polynomial" -> EvalPolynomial(m.coefficients, x)
      [] m.kind = "table" -> MethodTable(m.from, m.to, x)
      [] m.kind = "rational" -> Over(EvalPolynomial(m.numerator, x),
                                     EvalPolynomial(m.denominator, x))

(* ConversionTableBuilder::build: the points in the order of their         *)
(* breakpoints, equal breakpoints in the order they were added.            *)
BuildTable(points) ==
    LET order == SetToSortSeq(DOMAIN points,
                     LAMBDA i, j : \/ Less(points[i][1], points[j][1])
                                   \/ Same(points[i][1], points[j][1]) /\ i < j)
    IN  [kind |-> "table", from |-> [k \in DOMAIN order |-> points[order[k]][1]],
         to |-> [k \in DOMAIN order |-> points[order[k]][2]]]

------------------------------------------------------------------------------
(* The registry *)

CONSTANTS Candidates,   \* the parameters a caller may add
          Points,       \* the table points a caller may add
          Raws,         \* the raw values of samples
          Frames,       \* the frames handed to the converter
          NoName,       \* the absent canonical name
          MaxParams, MaxPoints

VARIABLES registry, service, points
vars == <<registry, service, points>>

EmptyRegistry == [parameters |-> <<>>, index |-> <<>>, names |-> <<>>]

Insert(map, key, value) ==
    [k \in DOMAIN map \cup {key} |-> IF k = key THEN value ELSE map[k]]

(* Parameter::validate, with an empty name as "".                          *)
ParameterValid(p) == p.name # "" /\ (p.range # <<>> => p.range[1] <= p.range[2])

(* Parameter::validate_value: which side of the range a value lies.        *)
ValidateValue(p, value) ==
    IF p.range = <<>> THEN "valid"
    ELSE IF Less(value, Int2Num(p.range[1])) THEN "below"
    ELSE IF Less(Int2Num(p.range[2]), value) THEN "above" ELSE "valid"

ContainsId(r, id) == id \in DOMAIN r.index
Get(r, id) == r.parameters[r.index[id]]
ContainsName(r, name) == name \in DOMAIN r.names

(* A parameter's entries in the name index: its name, then its canonical   *)
(* name; an entry replaces the one that was there.                         *)
EnterNames(names, p) ==
    LET named == Insert(names, p.name, p.id)
    IN  IF p.canonical = NoName THEN named ELSE Insert(named, p.canonical, p.id)

(* build_index: both indexes from the list of parameters, in its order.    *)
BuildIndex(parameters) ==
    [parameters |-> parameters,
     index |-> FoldLeft(LAMBDA acc, i : Insert(acc, parameters[i].id, i), <<>>,
                        [i \in DOMAIN parameters |-> i]),
     names |-> FoldLeft(EnterNames, <<>>, parameters)]

(* validate: no identifier and no name twice, every parameter valid.       *)
Consistent(parameters) ==
    /\ \A i, j \in DOMAIN parameters :
          i # j => /\ parameters[i].id # parameters[j].id
                   /\ parameters[i].name # parameters[j].name
    /\ \A i \in DOMAIN parameters : ParameterValid(parameters[i])

(* add refuses a known identifier and an invalid parameter, but takes any  *)
(* name.                                                                   *)
AddAccepts(r, p) == ~ContainsId(r, p.id) /\ ParameterValid(p)

(* Mutant: a name already taken stays with its first parameter.            *)
AddedFirstWins(r, p) ==
    [parameters |-> Append(r.parameters, p),
     index |-> Insert(r.index, p.id, Len(r.parameters) + 1),
     names |-> IF p.name \in DOMAIN r.names THEN r.names ELSE EnterNames(r.names, p)]

Added(r, p) ==
    [parameters |-> Append(r.parameters, p),
     index |-> Insert(r.index, p.id, Len(r.parameters) + 1),
     names |-> EnterNames(r.names, p)]

(* save_to_yaml writes the parameters and neither index; from_yaml reads   *)
(* them back, builds the indexes and validates.                            *)
Reloaded(r) == BuildIndex(r.parameters)

(* registry.convert: the parameter's own conversion of a numeric sample.   *)
Convert(r, sample) ==
    IF ~ContainsId(r, sample.id) \/ AsF64(sample) = NoNumber THEN NoNumber
    ELSE Apply(Get(r, sample.id).conversion, AsF64(sample))

(* ConverterService::from_registry: the identity for every parameter that  *)
(* has a unit, whatever its conversion.                                    *)
FromRegistry(r) ==
    [id \in {p.id : p \in {q \in ToSet(r.parameters) : q.unit}} |-> [kind |-> "identity"]]

(* convert and convert_sample: the registered method, or the value as is.  *)
ConvertSample(s, sample) ==
    IF AsF64(sample) = NoNumber THEN NoNumber
    ELSE IF sample.id \in DOMAIN s THEN MethodApply(s[sample.id], AsF64(sample))
    ELSE AsF64(sample)

(* convert_frame: the numeric samples become numbers in the new unit, the  *)
(* others stay, in order.  The new frame keeps the session, the sequence   *)
(* number, the time and the source; its events, its lap and segment and    *)
(* its metadata are empty.                                                 *)
ConvertFrame(s, frame) ==
    LET converted(one) ==
            IF AsF64(one) = NoNumber THEN one
            ELSE [one EXCEPT !.kind = "number", !.number = ConvertSample(s, one)]
    IN  [frame EXCEPT !.events = {}, !.place = NoName,
                      !.samples = [i \in DOMAIN @ |-> converted(@[i])]]

(* BatchConverter::convert_batch: the buffer is cleared before each batch. *)
ConvertBatch(s, id, values) ==
    [i \in DOMAIN values |->
        IF id \in DOMAIN s THEN MethodApply(s[id], values[i]) ELSE values[i]]

Init == registry = EmptyRegistry /\ service = <<>> /\ points = <<>>

Add(p) ==
    /\ Len(registry.parameters) < MaxParams
    /\ AddAccepts(registry, p)
    /\ registry' = Added(registry, p)
    /\ UNCHANGED <<service, points>>

Reload ==
    /\ Consistent(registry.parameters)
    /\ registry' = Reloaded(registry)
    /\ UNCHANGED <<service, points>>

BuildService ==
    /\ service' = FromRegistry(registry)
    /\ UNCHANGED <<registry, points>>

(* ConversionTableBuilder::add_point.                                      *)
AddPoint(point) ==
    /\ Len(points) < MaxPoints
    /\ points' = Append(points, point)
    /\ UNCHANGED <<registry, service>>

(* The built table is registered for a parameter; the builder is consumed. *)
Register(id) ==
    /\ points # <<>>
    /\ service' = Insert(service, id, BuildTable(points))
    /\ points' = <<>>
    /\ UNCHANGED registry

Unregister(id) ==
    /\ id \in DOMAIN service
    /\ service' = [k \in DOMAIN service \ {id} |-> service[k]]
    /\ UNCHANGED <<registry, points>>

Next ==
    \/ \E p \in Candidates : Add(p)
    \/ Reload
    \/ BuildService
    \/ \E point \in Points : AddPoint(point)
    \/ \E id \in {p.id : p \in Candidates} : Register(id) \/ Unregister(id)

Spec == Init /\ [][Next]_vars

-----------------------------------------------------------------------------
(* The two ways to build the indexes answer alike: after any additions an  *)
(* identifier finds its own parameter, a name finds the parameter that     *)
(* claimed it last, and loading the saved file either refuses a name used  *)
(* twice or changes no answer.                                             *)
LookupsAgree ==
    LET ps == registry.parameters
        claims(i, n) == n = ps[i].name \/ n = ps[i].canonical
    IN  /\ \A i \in DOMAIN ps : ContainsId(registry, ps[i].id) /\ Get(registry, ps[i].id) = ps[i]
        /\ \A n \in UNION {{ps[i].name, ps[i].canonical} : i \in DOMAIN ps} \ {NoName} :
              /\ ContainsName(registry, n)
              /\ \E i \in DOMAIN ps : /\ claims(i, n) /\ ps[i].id = registry.names[n]
                                      /\ \A j \in DOMAIN ps : claims(j, n) => j <= i
        /\ \/ Reloaded(registry) = registry
           \/ \E i, j \in DOMAIN ps : i # j /\ ps[i].name = ps[j].name

(* Interpolation said without segments: outside the breakpoints the value  *)
(* of the nearest one, between two neighbours the point on the line        *)
(* through both.                                                           *)
LiesOnTable(pts, x, y) ==
    LET below == {p \in pts : AtMost(p[1], x)}
        above == {p \in pts : AtMost(x, p[1])}
    IN  \/ below = {} /\ \E p \in pts : Same(y, p[2]) /\ \A q \in pts : AtMost(p[1], q[1])
        \/ above = {} /\ \E p \in pts : Same(y, p[2]) /\ \A q \in pts : AtMost(q[1], p[1])
        \/ \E p \in below, q \in above :
              /\ \A r \in below : AtMost(r[1], p[1])
              /\ \A r \in above : AtMost(q[1], r[1])
              /\ IF Same(p[1], q[1]) THEN Same(y, p[2])
                 ELSE Same(Times(Minus(y, p[2]), Minus(q[1], p[1])),
                           Times(Minus(x, p[1]), Minus(q[2], p[2])))

(* A table built from points with distinct breakpoints, in whatever order  *)
(* they were added, interpolates between neighbours; the registry's table  *)
(* and the converter's give the same value; and where the values increase  *)
(* with the breakpoints, unapply brings back the raw value, clamped to the *)
(* table.                                                                  *)
TablesInterpolate ==
    LET table == BuildTable(points)
        n == Len(points)
        distinct == \A i, j \in 1..n : i # j => ~Same(points[i][1], points[j][1])
        rising == \A i, j \in 1..n : Less(points[i][1], points[j][1]) => Less(points[i][2], points[j][2])
        clamped(x) == IF Less(x, table.from[1]) THEN table.from[1]
                      ELSE IF Less(table.from[n], x) THEN table.from[n] ELSE x
    IN  n > 0 /\ distinct =>
          \A x \in Raws :
              /\ LiesOnTable(ToSet(points), x, Apply(table, x))
              /\ Same(Apply(table, x), MethodApply(table, x))
              /\ rising => Same(Unapply(table, Apply(table, x)), clamped(x))

(* However a sample is converted, the answer is the same: in a frame, in a *)
(* batch or alone through the converter.  A frame keeps its samples, their *)
(* order and what is not a number.  Through the registry, a linear         *)
(* conversion of slope other than zero is undone by unapply, and a bit     *)
(* field gives back the bits it extracted.                                 *)
PathsAgree ==
    /\ \A f \in Frames :
          LET out == ConvertFrame(service, f).samples
          IN  /\ Len(out) = Len(f.samples)
              /\ \A i \in DOMAIN out :
                    LET one == f.samples[i]
                        batch == ConvertBatch(service, one.id, <<AsF64(one)>>)
                    IN  /\ out[i].id = one.id
                        /\ IF AsF64(one) = NoNumber THEN out[i] = one
                           ELSE Same(AsF64(out[i]), batch[1]) /\ Same(batch[1], ConvertSample(service, one))
    /\ \A p \in ToSet(registry.parameters), x \in Raws :
          LET c == p.conversion
              y == Convert(registry, [id |-> p.id, kind |-> "number", number |-> x])
          IN  /\ c.kind = "linear" /\ c.scale[1] # 0 => Same(Unapply(c, y), x)
              /\ c.kind = "bits" /\ c.scale[1] # 0 =>
                    LET back == Unapply(c, y)
                    IN  Same(Apply([c EXCEPT !.start = 0], back), y)
              /\ ValidateValue(p, y) = "valid" <=>
                    (p.range = <<>> \/ (~Less(y, Int2Num(p.range[1])) /\ AtMost(y, Int2Num(p.range[2]))))
==============================================================================
