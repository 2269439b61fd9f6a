------------------------------ MODULE MCAccess ------------------------------
(***************************************************************************)
(* What stands between a frame and who reads it: the access controller     *)
(* with two readers, its rate limiter, the gateway's limiter per           *)
(* connection, and the parameter registry with the converters.  They share *)
(* no state, so a behaviour exercises one of them (`part`), and the run    *)
(* covers the four state spaces without multiplying them.                  *)
(***************************************************************************)
EXTENDS AccessControl

VARIABLES part, registry, service, points, tick, limiterOf, passed, refused
rest == <<registry, service, points>>
gateway == <<tick, limiterOf, passed, refused>>
allVars == <<part, vars, rest, gateway>>

N(n) == <<n, 1>>
Candidate(id, name, canonical, unit, range, conversion) ==
    [id |-> id, name |-> name, canonical |-> canonical, unit |-> unit, range |-> range,
     conversion |-> conversion]
TheCandidates ==
    {Candidate(1, "rpm", "engine", TRUE, <<0, 5>>, [kind |-> "linear", scale |-> <<1, 2>>, offset |-> N(-1)]),
     Candidate(1, "gear", None, FALSE, <<>>, [kind |-> "none"]),
     Candidate(2, "rpm", None, FALSE, <<>>,
               [kind |-> "bits", start |-> 1, count |-> 2, scale |-> N(3), offset |-> N(1)]),
     Candidate(2, "speed", "rpm", TRUE, <<1, 2>>, [kind |-> "linear", scale |-> N(-2), offset |-> N(0)]),
     Candidate(3, "engine", "speed", TRUE, <<>>, [kind |-> "polynomial", coefficients |-> <<N(1), N(0), N(2)>>]),
     Candidate(3, "", None, FALSE, <<>>, [kind |-> "none"]),
     Candidate(4, "fuel", None, FALSE, <<3, 2>>, [kind |-> "none"])}
TheSamples == <<[id |-> 1, kind |-> "number", number |-> N(3)],
                [id |-> 2, kind |-> "bytes", number |-> <<0, -2>>],
                [id |-> 3, kind |-> "text", number |-> N(2)],
                [id |-> 1, kind |-> "text", number |-> <<0, -2>>]>>
TheFrames == {[samples |-> TheSamples, events |-> {1}, place |-> 7]}

TheRaws == {N(-1), N(0), N(1), N(2), <<7, 2>>, N(5), N(6)}
ThePoints == {<<N(0), N(0)>>, <<N(0), N(3)>>, <<N(2), N(3)>>, <<N(2), N(1)>>, <<N(5), N(4)>>, <<N(5), N(2)>>}

(* The registry on its own, and the converter with the tables of one       *)
(* parameter.                                                              *)
Registry == INSTANCE ParameterRegistry
    WITH Candidates <- TheCandidates, Points <- {}, Raws <- TheRaws, Frames <- TheFrames,
         NoName <- None, MaxParams <- 3, MaxPoints <- 0
Converter == INSTANCE ParameterRegistry
    WITH Candidates <- {c \in TheCandidates : c.id = 1}, Points <- ThePoints, Raws <- TheRaws,
         Frames <- TheFrames, NoName <- None, MaxParams <- 0, MaxPoints <- 3

CONSTANTS ReadersTime, MaxPerSec, TicksPerSec, CountMax, MaxTicks, MaxTaken
Gateway == INSTANCE RateLimiter

(* One connection's limiter, asked at arbitrary ticks.  The connection     *)
(* would close on the first refusal; the limiter may be asked again.       *)
ConnectionInit == tick = 0 /\ limiterOf = Gateway!NewLimiter(0) /\ passed = <<>> /\ refused = FALSE
Message ==
    /\ Len(passed) < MaxTaken
    /\ limiterOf' = Gateway!Counted(limiterOf, tick)
    /\ refused' = ~Gateway!Allowed(limiterOf')
    /\ passed' = IF refused' THEN passed ELSE Append(passed, tick)
    /\ UNCHANGED tick
NextTick ==
    /\ tick < MaxTicks
    /\ tick' = tick + 1
    /\ refused' = FALSE
    /\ UNCHANGED <<limiterOf, passed>>

MCReaders == {"guest", "crew"}
MCClaimsOf ==
    [r \in MCReaders |->
        IF r = "guest"
        THEN [roles |-> {}, teams |-> {}, granted |-> {2}, max_level |-> 1, expires_at |-> 1]
        ELSE [roles |-> {"engineer"}, teams |-> {"red"}, granted |-> {}, max_level |-> 2, expires_at |-> None]]
MCFrame == <<1, 2>>
MCSettings ==
    {SetAccess(1, 2, "red"), SetAccessWithRole(1, 1, "engineer"), SetBulkAccess({1, 2}, 0)}

MCInit ==
    /\ part \in {"readers", "windows", "registry", "converter", "connection"}
    /\ now = 0 /\ AccessInit /\ LimiterInit
    /\ Registry!Init
    /\ ConnectionInit

MCNext ==
    \/ part = "readers" /\ (AccessNext \/ (now < ReadersTime /\ Tick)) /\ UNCHANGED <<part, rest, gateway>>
    \/ part = "windows" /\ (LimiterNext \/ Tick) /\ UNCHANGED <<part, rest, gateway>>
    \/ part = "registry" /\ Registry!Next /\ UNCHANGED <<part, vars, gateway>>
    \/ part = "converter" /\ Converter!Next /\ UNCHANGED <<part, vars, gateway>>
    \/ part = "connection" /\ (Message \/ NextTick) /\ UNCHANGED <<part, vars, rest>>

MCSpec == MCInit /\ [][MCNext]_allVars

(* The registry's indexes answer as its list does (Registry!LookupsAgree). *)
LookupsAgree == Registry!LookupsAgree

(* Tables interpolate, in both implementations, and can be read backwards. *)
TablesInterpolate == Converter!TablesInterpolate

(* Samples are converted alike alone, in a batch and in a frame.           *)
PathsAgree == Converter!PathsAgree

(* Messages of the connection that passed in the second ending with t.     *)
InLastSecond(t) == {i \in DOMAIN passed : passed[i] <= t /\ t - passed[i] < TicksPerSec}

(* The gateway's windows are fixed, not sliding: over any second, also one *)
(* that straddles two windows, at most twice max_per_sec messages pass.    *)
(* And a message is refused only when max_per_sec messages passed in the   *)
(* last second: refusals do not push the end of a window back              *)
(* (ConnectionRateLimiter::allow).                                         *)
ConnectionsLimited ==
    /\ MaxPerSec > 0 => \A t \in 0..tick : Cardinality(InLastSecond(t)) <= 2 * MaxPerSec
    /\ refused => MaxPerSec > 0 /\ Cardinality(InLastSecond(tick)) >= MaxPerSec

(* A parameter is found and converted alike by every way the code has to    *)
(* look it up or to convert it.                                             *)
ParametersAgree == LookupsAgree /\ TablesInterpolate /\ PathsAgree
=============================================================================
