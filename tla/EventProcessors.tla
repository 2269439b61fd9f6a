-------------------------- MODULE EventProcessors --------------------------
(****************************************************************************)
(* The processors a batch of events passes through in `pitgun subscribe`:   *)
(* channel filter, scale, formula, stats and segment aggregation, and how   *)
(* the command line or a manifest builds the chain.  Numbers are whole;     *)
(* NonFinite stands for NaN and the infinities and absorbs.                 *)
(****************************************************************************)
EXTENDS Integers, Sequences, FiniteSets, SequencesExt

CONSTANT NonFinite

Happened(channel, ts, value) == [channel |-> channel, ts |-> ts, value |-> value]
EventBatch(events, eos) == [events |-> events, aggregates |-> << >>, eos |-> eos]

------------------------------------------------------------------------------
(* Formulas *)

Literal(v) == [kind |-> "literal", value |-> v]
Var(name) == [kind |-> "var", name |-> name]
BinaryOp(op, left, right) == [kind |-> "binary", op |-> op, left |-> left, right |-> right]
FuncCall(name, args) == [kind |-> "call", name |-> name, args |-> args]

RECURSIVE CollectVars(_)
CollectVars(expr) ==
  CASE expr.kind = "literal" -> {}
    [] expr.kind = "var" -> {expr.name}
    [] expr.kind = "neg" -> CollectVars(expr.arg)
    [] expr.kind = "binary" -> CollectVars(expr.left) \cup CollectVars(expr.right)
    [] expr.kind = "call" -> UNION {CollectVars(expr.args[i]) : i \in DOMAIN expr.args}

Arithmetic(op, l, r) ==
  IF NonFinite \in {l, r} \/ (op = "Div" /\ r = 0) THEN NonFinite
  ELSE CASE op = "Add" -> l + r [] op = "Sub" -> l - r [] op = "Mul" -> l * r [] op = "Div" -> l \div r

\* Of the functions only abs and pow keep whole numbers whole; an unknown name
\* or a wrong number of arguments gives NaN.
EvalFunc(name, args) ==
  IF \E i \in DOMAIN args : args[i] = NonFinite THEN NonFinite
  ELSE CASE name = "abs" /\ Len(args) = 1 -> IF args[1] < 0 THEN -args[1] ELSE args[1]
         [] name = "pow" /\ Len(args) = 2 -> args[1] ^ args[2]
         [] OTHER -> NonFinite

RECURSIVE EvalExpr(_, _)
EvalExpr(expr, values) ==
  CASE expr.kind = "literal" -> expr.value
    [] expr.kind = "var" -> IF expr.name \in DOMAIN values THEN values[expr.name] ELSE NonFinite
    [] expr.kind = "neg" -> Arithmetic("Sub", 0, EvalExpr(expr.arg, values))
    [] expr.kind = "binary" ->
         Arithmetic(expr.op, EvalExpr(expr.left, values), EvalExpr(expr.right, values))
    [] expr.kind = "call" ->
         EvalFunc(expr.name, [i \in DOMAIN expr.args |-> EvalExpr(expr.args[i], values)])

ChannelsOf(events) == {events[i].channel : i \in DOMAIN events}
LastOf(events, c) == SelectLastInSeq(events, LAMBDA e : e.channel = c)
MaxOfTs(events) == CHOOSE t \in {events[i].ts : i \in DOMAIN events} :
                     \A i \in DOMAIN events : events[i].ts <= t

\* The last value of each input; without inputs, of every channel.
ContextFromBatch(deps, events) ==
  [c \in IF deps = {} THEN ChannelsOf(events) ELSE ChannelsOf(events) \cap deps |->
     events[LastOf(events, c)].value]

\* FormulaProcessor::process: nothing is derived from an empty batch, or from one
\* in which an input is missing.
Derive(p, events) ==
  LET deps == CollectVars(p.expr)
      values == ContextFromBatch(deps, events)
  IN IF events = << >> \/ ~(deps \subseteq DOMAIN values) THEN events
     ELSE Append(events, Happened(p.output, MaxOfTs(events), EvalExpr(p.expr, values)))

------------------------------------------------------------------------------
(* The other processors *)

NewFilter(channels) == [type |-> "channel_filter", channels |-> {channels[i] : i \in DOMAIN channels}]
NewScale(channel, factor) == [type |-> "scale", channel |-> channel, factor |-> factor]
NewFormula(output, expr) == [type |-> "formula", output |-> output, expr |-> expr]
NewStatistics == [type |-> "stats", total |-> 0, gaps |-> 0, lastTs |-> << >>]
NewAggregate(onChange, lastOnEof) ==
  [type |-> "segment_aggregate", current |-> << >>,
   options |-> [onChange |-> onChange, lastOnEof |-> lastOnEof]]

Aggregation(options, current, out, seen, ended) ==
  INSTANCE SegmentAggregate WITH Keys <- {}, Values <- {}, Times <- {}, MaxBatch <- 0, MaxEvents <- 0

Retain(p, events) == SelectSeq(events, LAMBDA e : p.channels = {} \/ e.channel \in p.channels)

Scale(p, events) ==
  [i \in DOMAIN events |->
     IF events[i].channel = p.channel THEN [events[i] EXCEPT !.value = Arithmetic("Mul", @, p.factor)]
     ELSE events[i]]

\* One event of StatsProcessor::process; lastTs is a function on the channels seen.
\* Counts per channel, of which only the printed line depends, are left out.
Counted(p, e) ==
  [p EXCEPT !.total = @ + 1,
            !.gaps = IF e.channel \in DOMAIN p.lastTs /\ e.ts <= p.lastTs[e.channel] THEN @ + 1 ELSE @,
            !.lastTs = [c \in DOMAIN @ \cup {e.channel} |-> IF c = e.channel THEN e.ts ELSE @[c]]]

\* A processor's step on a batch.
Apply(p, batch) ==
  LET events == batch.events IN
  CASE p.type = "channel_filter" -> [p |-> p, batch |-> [batch EXCEPT !.events = Retain(p, events)]]
    [] p.type = "scale" -> [p |-> p, batch |-> [batch EXCEPT !.events = Scale(p, events)]]
    [] p.type = "formula" -> [p |-> p, batch |-> [batch EXCEPT !.events = Derive(p, events)]]
    [] p.type = "stats" -> [p |-> FoldLeft(Counted, p, events), batch |-> batch]
    [] p.type = "segment_aggregate" ->
         LET handle(x, e) == Aggregation(p.options, << >>, << >>, << >>, FALSE)!Handle(x, e)
             folded == FoldLeft(handle, [current |-> p.current, out |-> batch.aggregates], events)
             final == IF batch.eos /\ p.options.lastOnEof
                      THEN Aggregation(p.options, << >>, << >>, << >>, FALSE)!FlushCurrent(folded) ELSE folded
         IN [p |-> [p EXCEPT !.current = final.current], batch |-> [batch EXCEPT !.aggregates = final.out]]

\* The loop of Pipeline::run_once over its processors.
RunChain(chain, batch) ==
  FoldLeft(LAMBDA x, p : LET y == Apply(p, x.batch) IN [chain |-> Append(x.chain, y.p), batch |-> y.batch],
           [chain |-> << >>, batch |-> batch], chain)

------------------------------------------------------------------------------
(* Building the chain.  A field of a manifest is << >> when it is absent. *)

NoFields ==
  [type |-> "stats", channels |-> << >>, channel |-> << >>, factor |-> << >>, output |-> << >>,
   ast |-> << >>, segment_key |-> << >>, targets |-> << >>, emit_on_change |-> << >>, emit_last |-> << >>]

Metrics == {"count", "min", "max", "mean", "sum", "stddev"}
OrElse(option, default) == IF option = << >> THEN default ELSE option[1]

\* An absent or unknown field ends the command with exit(1).  An expression whose
\* file cannot be read or parsed is [kind |-> "unreadable"].
ProcessorValid(cfg) ==
  CASE cfg.type = "channel_filter" -> TRUE
    [] cfg.type = "scale" -> cfg.channel # << >> /\ cfg.factor # << >>
    [] cfg.type = "formula" -> cfg.output # << >> /\ cfg.ast # << >> /\ cfg.ast[1].kind # "unreadable"
    [] cfg.type = "stats" -> TRUE
    [] cfg.type = "segment_aggregate" ->
         /\ cfg.segment_key # << >> /\ cfg.targets # << >>
         /\ \A i \in DOMAIN cfg.targets[1] :
              LET metrics == OrElse(cfg.targets[1][i].metrics, << >>) IN
              \A j \in DOMAIN metrics : metrics[j] \in Metrics
    [] OTHER -> FALSE

BuildProcessor(cfg) ==
  CASE cfg.type = "channel_filter" -> NewFilter(OrElse(cfg.channels, << >>))
    [] cfg.type = "scale" -> NewScale(cfg.channel[1], cfg.factor[1])
    [] cfg.type = "formula" -> NewFormula(cfg.output[1], cfg.ast[1])
    [] cfg.type = "stats" -> NewStatistics
    [] cfg.type = "segment_aggregate" ->
         NewAggregate(OrElse(cfg.emit_on_change, TRUE), OrElse(cfg.emit_last, TRUE))

\* build_pipeline_from_manifest.
ManifestValid(manifest) ==
  /\ manifest.loads /\ manifest.source = "udp" /\ manifest.bindable
  /\ \A i \in DOMAIN manifest.processors : ProcessorValid(manifest.processors[i])
  /\ manifest.sink = "console"

BuildPipeline(manifest) ==
  [transport |-> "udp", print |-> TRUE, csv |-> FALSE,
   chain |-> [i \in DOMAIN manifest.processors |-> BuildProcessor(manifest.processors[i])]]

\* run_subscribe without --config: the source opens and the directory can be made.
ArgsValid(args) ==
  /\ IF args.transport = "udp" THEN args.bindable ELSE args.ws_url
  /\ args.write_csv => args.directory

FromArgs(args) ==
  [transport |-> args.transport, print |-> args.json, csv |-> args.write_csv,
   chain |-> <<NewFilter(args.channel), NewStatistics>>]
==============================================================================
