----------------------------- MODULE TuningPolicy -----------------------------
(***************************************************************************)
(* A tuning policy (v1): the rule language it is written in, its static    *)
(* validation, the canonical form of a requested tuning, the derived       *)
(* constraints, and the normalisation of a race input by a policy.         *)
(*                                                                         *)
(* The rules: the recursive-descent parser, the static check and the       *)
(* evaluator of unlock conditions and derived constraints.  A token is a   *)
(* tuple whose first element names its kind; an expression is a tuple      *)
(* whose first element names its node; a value is <<"num", n>>,            *)
(* <<"str", s>>, <<"bool", b>> or <<"error">>.  The tokenizer's characters *)
(* are left out: rules are given as tokens.  Numbers are integers in units *)
(* small enough for every step; a budget is in halves of a point.          *)
(***************************************************************************)
EXTENDS FiniteSets, TLC, Integers, Sequences

CONSTANT LevelNames   \* the identifiers that end in "_lvl"

RECURSIVE ParseExpr(_, _), ParseUnary(_, _), ParseArgs(_, _, _), ParsePath(_, _, _),
          ParseLevel(_, _, _), More(_, _, _), Valid(_, _, _), Eval(_, _)

Peek(tokens, pos) == IF pos <= Len(tokens) THEN tokens[pos][1] ELSE "end"

Parsed(expr, pos) == [ok |-> TRUE, expr |-> expr, pos |-> pos]
Unparsable(pos) == [ok |-> FALSE, expr |-> <<>>, pos |-> pos]

\* Expr::Binary of what is parsed so far and the operand parsed after it.
Join(op, left, right) ==
  IF right.ok THEN Parsed(<<op, left.expr, right.expr>>, right.pos) ELSE right

\* parse_primary: the comma-separated arguments up to ')'.
ParseArgs(tokens, pos, args) ==
  LET arg == ParseExpr(tokens, pos)
  IN  IF ~arg.ok THEN arg
      ELSE IF Peek(tokens, arg.pos) = "," THEN ParseArgs(tokens, arg.pos + 1, Append(args, arg.expr))
      ELSE IF Peek(tokens, arg.pos) = ")" THEN Parsed(Append(args, arg.expr), arg.pos + 1)
      ELSE Unparsable(arg.pos)

\* parse_primary: the identifiers of a parameter path, from behind a '.'.
ParsePath(tokens, pos, path) ==
  IF Peek(tokens, pos) # "ident" THEN Unparsable(pos)
  ELSE IF Peek(tokens, pos + 1) = "." THEN ParsePath(tokens, pos + 2, Append(path, tokens[pos][2]))
  ELSE Parsed(<<"param", Append(path, tokens[pos][2])>>, pos + 1)

ParseCall(tokens, pos) ==
  LET args == IF Peek(tokens, pos + 2) = ")" THEN Parsed(<<>>, pos + 3)
              ELSE ParseArgs(tokens, pos + 2, <<>>)
  IN  IF args.ok THEN Parsed(<<"call", tokens[pos][2], args.expr>>, args.pos) ELSE args

ParsePrimary(tokens, pos) ==
  CASE Peek(tokens, pos) \in {"num", "str"} -> Parsed(tokens[pos], pos + 1)
    [] Peek(tokens, pos) = "ident" ->
         IF Peek(tokens, pos + 1) = "(" THEN ParseCall(tokens, pos)
         ELSE IF tokens[pos][2] # "parameters" THEN Parsed(tokens[pos], pos + 1)
         ELSE IF Peek(tokens, pos + 1) = "." THEN ParsePath(tokens, pos + 2, <<>>)
         ELSE Unparsable(pos + 1)
    [] Peek(tokens, pos) = "(" ->
         LET inner == ParseExpr(tokens, pos + 1)
         IN  IF inner.ok /\ Peek(tokens, inner.pos) = ")" THEN Parsed(inner.expr, inner.pos + 1)
             ELSE Unparsable(inner.pos)
    [] OTHER -> Unparsable(pos)

\* The prefix operators, right to left.
ParseUnary(tokens, pos) ==
  LET operand == ParseUnary(tokens, pos + 1)
      op == IF Peek(tokens, pos) = "not" THEN "not" ELSE "neg"
  IN  IF Peek(tokens, pos) \notin {"not", "-"} THEN ParsePrimary(tokens, pos)
      ELSE IF operand.ok THEN Parsed(<<op, operand.expr>>, operand.pos) ELSE operand

\* The binary operators by how tightly they bind: or, and, the comparisons, and sums.
\* MUTANT of Operators: and and or bind alike, left to right.
OperatorsFlat(level) ==
  CASE level = 1 -> {"or", "and"} [] level = 2 -> {}
    [] level = 3 -> {">", ">=", "<", "<=", "==", "!="} [] OTHER -> {"+", "-"}

Operators(level) ==
  CASE level = 1 -> {"or"} [] level = 2 -> {"and"}
    [] level = 3 -> {">", ">=", "<", "<=", "==", "!="} [] OTHER -> {"+", "-"}
Comparison == 3
Tightest == 4

\* parse_or, parse_and, parse_comparison and parse_additive: operators of one level group
\* to the left, and of the comparisons at most one is taken.
ParseLevel(tokens, level, pos) ==
  IF level > Tightest THEN ParseUnary(tokens, pos)
  ELSE More(tokens, level, ParseLevel(tokens, level + 1, pos))

More(tokens, level, left) ==
  LET op == Peek(tokens, left.pos)
      joined == Join(op, left, ParseLevel(tokens, level + 1, left.pos + 1))
  IN  IF ~left.ok \/ op \notin Operators(level) THEN left
      ELSE IF level = Comparison THEN joined ELSE More(tokens, level, joined)

ParseOr(tokens, pos) == ParseLevel(tokens, 1, pos)

\* parse_expr and parse_if_then: neither part of "if" is itself an "if", unless bracketed.
ParseExpr(tokens, pos) ==
  LET condition == ParseOr(tokens, pos + 1)
  IN  IF Peek(tokens, pos) # "if" THEN ParseOr(tokens, pos)
      ELSE IF ~condition.ok \/ Peek(tokens, condition.pos) # "then" THEN Unparsable(condition.pos)
      ELSE Join("if", condition, ParseOr(tokens, condition.pos + 1))

\* parse_expression: every token is used.
ParseExpression(tokens) ==
  LET result == ParseExpr(tokens, 1)
  IN  IF result.ok /\ result.pos <= Len(tokens) THEN Unparsable(result.pos) ELSE result

------------------------------------------------------------------------------
(* The static check.  It looks at names and arities; it does not check the *)
(* types of operands.                                                      *)

\* validate_expression; paths is the set of the policy's <<subsystem, name>>.
Valid(expr, mode, paths) ==
  CASE expr[1] \in {"num", "str"} -> TRUE
    [] expr[1] = "param" -> mode = "constraint" /\ Len(expr[2]) >= 2 /\ expr[2] \in paths
    [] expr[1] = "ident" -> expr[2] = "era" \/ expr[2] \in LevelNames
    [] expr[1] = "call" ->
         /\ expr[2] \in {"has_upgrade", "abs"}
         /\ expr[2] = "abs" => mode = "constraint"
         /\ Len(expr[3]) = 1
         /\ Valid(expr[3][1], mode, paths)
    [] OTHER -> \A k \in 2..Len(expr) : Valid(expr[k], mode, paths)

------------------------------------------------------------------------------
(* The evaluator.  A context has era, levels, upgrades and, in constraints *)
(* only, the canonical parameters; any failure is <<"error">>.             *)

Number(n) == <<"num", n>>
Truth(b) == <<"bool", b>>
EvalError == <<"error">>

\* resolve_parameter: a number or a string two levels down.
ResolveParameter(parameters, path) ==
  IF /\ Len(path) = 2 /\ path[1] \in DOMAIN parameters
     /\ path[2] \in DOMAIN parameters[path[1]]
  THEN parameters[path[1]][path[2]] ELSE EvalError

\* The level of a category, 0 when it is not given; era; nothing else has a value.
EvalIdent(name, ctx) ==
  CASE name = "era" -> Number(ctx.era)
    [] name \in LevelNames -> Number(IF name \in DOMAIN ctx.levels THEN ctx.levels[name] ELSE 0)
    [] OTHER -> EvalError

\* and, or and if-then evaluate their second operand only when it decides.
EvalLogic(op, left, right, ctx) ==
  LET first == Eval(left, ctx)
      second == Eval(right, ctx)
      decided == CASE op = "and" -> Truth(FALSE) [] op = "or" -> Truth(TRUE)
                   [] OTHER -> Truth(TRUE)
      goesOn == Truth(op # "or")
  IN  IF first[1] # "bool" THEN EvalError
      ELSE IF first # goesOn THEN decided
      ELSE IF second[1] # "bool" THEN EvalError ELSE second

Arithmetic(op, a, b) == Number(IF op = "+" THEN a + b ELSE a - b)

Compares(op, a, b) ==
  CASE op = ">" -> a > b [] op = ">=" -> a >= b [] op = "<" -> a < b [] OTHER -> a <= b

EvalNumbers(op, x, y) ==
  IF x[1] # "num" \/ y[1] # "num" THEN EvalError
  ELSE IF op \in {"+", "-"} THEN Arithmetic(op, x[2], y[2])
  ELSE Truth(Compares(op, x[2], y[2]))

\* == and !=: both operands have one type.
EvalEquality(op, x, y) ==
  IF x[1] = "error" \/ x[1] # y[1] THEN EvalError ELSE Truth((x = y) = (op = "=="))

EvalUnary(op, x) ==
  CASE op = "not" /\ x[1] = "bool" -> Truth(~x[2])
    [] op = "neg" /\ x[1] = "num" -> Number(-x[2])
    [] OTHER -> EvalError

EvalCall(name, args, ctx) ==
  LET x == Eval(args[1], ctx)
  IN  CASE Len(args) # 1 -> EvalError
        [] Len(args) = 1 /\ name = "has_upgrade" ->
             IF x[1] = "str" THEN Truth(x[2] \in ctx.upgrades) ELSE EvalError
        [] Len(args) = 1 /\ name = "abs" ->
             IF x[1] = "num" THEN Number(IF x[2] < 0 THEN -x[2] ELSE x[2]) ELSE EvalError
        [] OTHER -> EvalError

\* eval.
Eval(expr, ctx) ==
  CASE expr[1] \in {"num", "str"} -> expr
    [] expr[1] = "param" -> ResolveParameter(ctx.parameters, expr[2])
    [] expr[1] = "ident" -> EvalIdent(expr[2], ctx)
    [] expr[1] = "call" -> EvalCall(expr[2], expr[3], ctx)
    [] expr[1] \in {"not", "neg"} -> EvalUnary(expr[1], Eval(expr[2], ctx))
    [] expr[1] \in {"and", "or", "if"} -> EvalLogic(expr[1], expr[2], expr[3], ctx)
    [] expr[1] \in {"==", "!="} -> EvalEquality(expr[1], Eval(expr[2], ctx), Eval(expr[3], ctx))
    [] OTHER -> EvalNumbers(expr[1], Eval(expr[2], ctx), Eval(expr[3], ctx))

\* parse_expression, then eval_bool: an error and a value of another type refuse alike.
Holds(tokens, ctx) ==
  LET parsed == ParseExpression(tokens)
  IN  parsed.ok /\ Eval(parsed.expr, ctx) = Truth(TRUE)

------------------------------------------------------------------------------
(* The policy.  A policy is a record: parameters (subsystem -> name -> specification),      *)
(* constraints (a sequence of [name, rule]) and current (whether its version is the         *)
(* supported one).                                                                          *)

CONSTANTS TuningFields,   \* the fields of TuningSpec
          LapLimit        \* the greatest number of laps of a race (100)

Paths(policy) == UNION {{<<s, n>> : n \in DOMAIN policy.parameters[s]} : s \in DOMAIN policy.parameters}
SpecOf(policy, path) == policy.parameters[path[1]][path[2]]

\* An unlock condition that parses and names nothing unknown; <<>> is none.
UnlockValid(rule, paths) ==
  rule # <<>> => LET parsed == ParseExpression(rule)
                 IN  parsed.ok /\ Valid(parsed.expr, "unlock", paths)

FloatValid(spec) ==
  spec.min <= spec.max /\ spec.step > 0 /\ spec.min <= spec.default /\ spec.default <= spec.max

EnumValid(spec) ==
  /\ spec.values # <<>>
  /\ \A i, k \in DOMAIN spec.values : spec.values[i] = spec.values[k] => i = k
  /\ \E k \in DOMAIN spec.values : spec.values[k] = spec.default

\* The loop over the derived constraints; a blank name is "".
ConstraintsValid(constraints, paths) ==
  /\ \A k \in DOMAIN constraints :
        /\ constraints[k].name # ""
        /\ LET parsed == ParseExpression(constraints[k].rule)
           IN  parsed.ok /\ Valid(parsed.expr, "constraint", paths)
  /\ \A i, k \in DOMAIN constraints : constraints[i].name = constraints[k].name => i = k

\* validate_static.
ValidateStatic(policy) ==
  /\ policy.current
  /\ DOMAIN policy.parameters # {}
  /\ \A s \in DOMAIN policy.parameters : DOMAIN policy.parameters[s] # {}
  /\ \A path \in Paths(policy) :
        LET spec == SpecOf(policy, path)
        IN  /\ IF spec.type = "float" THEN FloatValid(spec) ELSE EnumValid(spec)
            /\ UnlockValid(spec.unlock, Paths(policy))
  /\ ConstraintsValid(policy.constraints, Paths(policy))

------------------------------------------------------------------------------
(* The canonical form *)

Clamp(x, spec) == IF x < spec.min THEN spec.min ELSE IF x > spec.max THEN spec.max ELSE x

\* round of a non-negative quotient: halves away from zero.
RoundedQuotient(a, b) == (2 * a + b) \div (2 * b)

\* quantize_float: the nearest step from min, never outside the range.
QuantizeFloat(x, spec) ==
  IF spec.step = 0 THEN Clamp(x, spec)
  ELSE Clamp(spec.min + RoundedQuotient(Clamp(x, spec) - spec.min, spec.step) * spec.step, spec)

\* canonicalize_value: what is accepted, and its canonical form.
ValueAccepted(spec, raw) ==
  IF spec.type = "float" THEN raw[1] = "num"
  ELSE raw[1] = "str" /\ \E k \in DOMAIN spec.values : spec.values[k] = raw[2]

CanonicalizeValue(spec, raw) ==
  IF spec.type = "float" THEN Number(QuantizeFloat(raw[2], spec)) ELSE raw

DefaultValue(spec) ==
  IF spec.type = "float" THEN Number(QuantizeFloat(spec.default, spec)) ELSE <<"str", spec.default>>

\* An unlock condition is evaluated without the parameters.
Unlocked(spec, ctx) ==
  spec.unlock # <<>> => Holds(spec.unlock, [ctx EXCEPT !.parameters = <<>>])

Requested(request, path) == path[1] \in DOMAIN request /\ path[2] \in DOMAIN request[path[1]]

\* canonicalize, its refusals: an unknown subsystem or parameter, a locked parameter
\* that is asked for, a value of the wrong type.  A default is taken without a look at
\* its unlock condition.
RequestAccepted(policy, ctx, request) ==
  /\ DOMAIN request \subseteq DOMAIN policy.parameters
  /\ \A s \in DOMAIN request : DOMAIN request[s] \subseteq DOMAIN policy.parameters[s]
  /\ \A path \in {p \in Paths(policy) : Requested(request, p)} :
        /\ Unlocked(SpecOf(policy, path), ctx)
        /\ ValueAccepted(SpecOf(policy, path), request[path[1]][path[2]])

\* canonicalize, its result: a value for every parameter of the policy.
Canonical(policy, request) ==
  [s \in DOMAIN policy.parameters |->
     [n \in DOMAIN policy.parameters[s] |->
        IF Requested(request, <<s, n>>)
        THEN CanonicalizeValue(policy.parameters[s][n], request[s][n])
        ELSE DefaultValue(policy.parameters[s][n])]]

\* validate_constraints.
ConstraintsHold(policy, ctx, canonical) ==
  \A k \in DOMAIN policy.constraints :
     Holds(policy.constraints[k].rule, [ctx EXCEPT !.parameters = canonical])

------------------------------------------------------------------------------
(* A race input under a policy *)

\* resolve_tuning_subsystem: the subsystems with every field of TuningSpec; one is needed.
TuningSubsystems(policy) ==
  {s \in DOMAIN policy.parameters : TuningFields \subseteq DOMAIN policy.parameters[s]}

\* The whole points of a budget in halves: budget_cap.floor().
BudgetContext(budget, era) ==
  [era |-> era, levels |-> [budget_lvl |-> budget \div 2], upgrades |-> {}, parameters |-> <<>>]

\* The tuning a competitor asks for, as the policy's request: NaN becomes null.
TuningRequest(policy, car) ==
  LET s == CHOOSE s \in TuningSubsystems(policy) : TRUE IN (s :> car.tuning)

\* normalize_competitor, its refusals.
CompetitorAccepted(policy, car, era) ==
  LET ctx == BudgetContext(car.budget, era)
      request == TuningRequest(policy, car)
  IN  /\ car.budget >= 0
      /\ Cardinality(TuningSubsystems(policy)) = 1
      /\ RequestAccepted(policy, ctx, request)
      /\ ConstraintsHold(policy, ctx, Canonical(policy, request))

\* normalize_competitor, its result: the canonical tuning, everything else as it was.
NormalizeCompetitor(policy, car) ==
  LET s == CHOOSE s \in TuningSubsystems(policy) : TRUE
      canonical == Canonical(policy, TuningRequest(policy, car))[s]
  IN  [car EXCEPT !.tuning = [n \in TuningFields |-> canonical[n]]]

\* normalize_and_validate_race_input_with_policy, its refusals; a blank track is "".
RaceAccepted(policy, race, era) ==
  /\ race.laps \in 1..LapLimit
  /\ race.track # ""
  /\ \A k \in DOMAIN race.cars : CompetitorAccepted(policy, race.cars[k], era)

NormalizeRace(policy, race) ==
  [race EXCEPT !.cars = [k \in DOMAIN race.cars |-> NormalizeCompetitor(policy, race.cars[k])]]
==============================================================================
