---------------------------- MODULE RacingSession ----------------------------
(****************************************************************************)
(* The pull APIs of the racing simulator, the authorized and the local one: *)
(* the registry of handles each has, the session behind a handle, which     *)
(* advances one solver per competitor to the next common lap, and the       *)
(* consumer that validates the batches the host carries to it with the      *)
(* cursor of ExecutionStream.                                               *)
(*                                                                          *)
(* The host is any caller: it interleaves attempts, goes on after an error, *)
(* calls with handles it has already given up, and loses, repeats or        *)
(* reorders batches.                                                        *)
(****************************************************************************)
EXTENDS ExecutionStream, FiniteSets

CONSTANTS Attempts,       \* start() calls a host makes
          Competitors,    \* how many cars the field has
          Laps,
          LapRecords,     \* numbers of records one lap may yield
          MaxHandle       \* u32::MAX

ASSUME SessionAssumption ==
  /\ IsFiniteSet(Attempts) /\ MaxHandle \in Nat \ {0}
  /\ Competitors \in Nat \ {0} /\ Laps \in Nat \ {0}
  /\ LapRecords \subseteq Nat \ {0}

VARIABLES
  sessions,     \* RACING_SESSIONS, LOCAL_SESSIONS: per API, the live handles and sessions
  nextHandle,   \* NEXT_RACING_SESSION_HANDLE, NEXT_LOCAL_HANDLE
  attempts,     \* what the host holds of each attempt
  consumer      \* per attempt, the cursor and the records it let through

vars == <<sessions, nextHandle, attempts, consumer>>

Car == 1..Competitors

\* An authorized session builds an application result around its output; a local
\* one gives the output as it is.
Api == {"authorized", "local"}

\* solver: laps each competitor's solver has computed; Done once it has given its
\* result or an error, which both set `complete`.  owner: history.
Done == Laps + 1

Session == [owner : Attempts, api : Api, solver : [Car -> 0..Done], seq : Nat,
            completed : BOOLEAN, result : BOOLEAN]

NewSession(a, api) == [owner |-> a, api |-> api, solver |-> [c \in Car |-> 0], seq |-> 0,
                  completed |-> FALSE, result |-> FALSE]

\* handle 0: not started; api: whose handle it is.  issued: the batches pulls returned,
\* records: all their records in order.  failed: some pull returned an error.  given:
\* the attempts whose result complete() returned.
NewAttempt == [handle |-> 0, api |-> "authorized", closed |-> FALSE, issued |-> << >>,
               records |-> << >>, failed |-> FALSE, given |-> {}]

Init ==
  /\ sessions = [api \in Api |-> << >>]
  /\ nextHandle = [api \in Api |-> 1]
  /\ attempts = [a \in Attempts |-> NewAttempt]
  /\ consumer = [a \in Attempts |-> [cursor |-> NewCursor, accepted |-> << >>]]

------------------------------------------------------------------------------
(* The session *)

\* MUTANT of AfterField: a solver that reports an error can be asked again.
AfterFieldRetry(solver, fails) ==
  LET stops == {c \in Car : solver[c] = Done \/ c = fails}
      Passed(c) == \A s \in stops : c < s
  IN  [c \in Car |-> IF Passed(c) THEN solver[c] + 1 ELSE solver[c]]

\* The loop over the competitors: it leaves at the first solver that was done
\* before or fails now, with the ones in front already advanced.
AfterField(solver, fails) ==
  LET stops == {c \in Car : solver[c] = Done \/ c = fails}
      Passed(c) == \A s \in stops : c < s
  IN  [c \in Car |-> IF Passed(c) THEN solver[c] + 1
                     ELSE IF c = fails /\ \A s \in stops : c <= s THEN Done
                     ELSE solver[c]]

Stopped(solver, fails) == fails \in Car \/ \E c \in Car : solver[c] = Done

\* All competitors gave their result: finalize_output, the completion record and,
\* around them, the application result.
Completion(session, solver, outputOk, resultOk) ==
  IF ~outputOk THEN [session |-> [session EXCEPT !.solver = solver], batch |-> << >>]
  ELSE [session |-> [session EXCEPT !.solver = solver, !.seq = @ + 1,
                                    !.completed = TRUE, !.result = resultOk],
        batch |-> IF resultOk
                  THEN <<[sequence |-> session.seq, tick |-> Laps, complete |-> TRUE]>>
                  ELSE << >>]

\* MUTANT of LapCompleted: a batch that is refused gives its numbers back.
LapCompletedRenumber(session, solver, n, made) ==
  [session |-> [session EXCEPT !.solver = solver,
                               !.seq = IF n > MaxRecords THEN @ ELSE @ + n],
   batch |-> IF ~made \/ n > MaxRecords THEN << >>
             ELSE [i \in 1..n |-> [sequence |-> session.seq + i - 1, tick |-> solver[1],
                                   complete |-> FALSE]]]

\* All competitors finished the same lap.  The records are numbered as they are
\* made, before making the next one fails (its telemetry cannot be resampled) or
\* the batch that holds them is found to be too long.
LapCompleted(session, solver, n, made) ==
  [session |-> [session EXCEPT !.solver = solver, !.seq = @ + n],
   batch |-> IF ~made \/ n > MaxRecords THEN << >>
             ELSE [i \in 1..n |-> [sequence |-> session.seq + i - 1, tick |-> solver[1],
                                   complete |-> FALSE]]]

\* finalize_authorized_dynamic_race_application may fail; pull_local_racing_session
\* has no such step.
FinalStep(session) == IF session.api = "authorized" THEN BOOLEAN ELSE {TRUE}

\* The field has run to the next lap, up to the solver that fails, if one does.
FieldOutcomes(session, fails) ==
  LET solver == AfterField(session.solver, fails)
      together == \A c \in Car : solver[c] = solver[1]
  IN  IF Stopped(session.solver, fails) \/ ~together
      THEN {[session |-> [session EXCEPT !.solver = solver], batch |-> << >>]}
      ELSE IF solver[1] = Done
      THEN {Completion(session, solver, outputOk, resultOk) :
              outputOk \in BOOLEAN, resultOk \in FinalStep(session)}
      ELSE {LapCompleted(session, solver, n, made) : n \in LapRecords, made \in BOOLEAN}

\* advance() of a session whose result is not there yet: every outcome it can have.
\* An empty batch stands for an error.
AdvanceOutcomes(session) ==
  IF session.completed THEN {[session |-> session, batch |-> << >>]}
  ELSE UNION {FieldOutcomes(session, fails) : fails \in 0..Competitors}

------------------------------------------------------------------------------
(* The exported functions.  The calls they refuse (an unknown handle, a pull      *)
(* after the result, an early complete) answer with an error and change nothing. *)

\* The handle k places after h; wrapping_add(1).max(1) skips zero.
HandleAt(h, k) == ((h - 1 + k) % MaxHandle) + 1

Vacant(api) ==
  {k \in 0..(MaxHandle - 1) : HandleAt(nextHandle[api], k) \notin DOMAIN sessions[api]}

\* The registry of an API with a session at a handle, or without that handle.
With(api, h, session) ==
  [sessions EXCEPT ![api] = [k \in DOMAIN @ \cup {h} |-> IF k = h THEN session ELSE @[k]]]

Without(api, h) == [sessions EXCEPT ![api] = [k \in DOMAIN @ \ {h} |-> @[k]]]

\* MUTANT of Register: the next handle is taken whether it is vacant or not.
RegisterBlindly(session) ==
  LET api == session.api IN
  /\ sessions' = With(api, nextHandle[api], session)
  /\ nextHandle' = [nextHandle EXCEPT ![api] = HandleAt(@, 1)]
  /\ attempts' = [attempts EXCEPT ![session.owner].handle = nextHandle[api],
                                  ![session.owner].api = api]

\* register_racing_session finds the first vacant handle from the counter on.
Register(session) ==
  LET api == session.api
      free == Vacant(api)
      handle == HandleAt(nextHandle[api], CHOOSE k \in free : \A j \in free : k <= j)
  IN
  /\ free # {}
  /\ sessions' = With(api, handle, session)
  /\ nextHandle' = [nextHandle EXCEPT ![api] = HandleAt(handle, 1)]
  /\ attempts' = [attempts EXCEPT ![session.owner].handle = handle, ![session.owner].api = api]

\* A request that is refused, or that finds no handle, leaves nothing behind.
Start(a) ==
  /\ attempts[a].handle = 0
  /\ Register(NewSession(a, "authorized"))
  /\ UNCHANGED consumer

\* The local facade searches its own registry in the same way.
StartLocal(a) ==
  /\ attempts[a].handle = 0
  /\ Register(NewSession(a, "local"))
  /\ UNCHANGED consumer

Started == {a \in Attempts : attempts[a].handle # 0}

StartedWith(api) == {a \in Started : attempts[a].api = api}

\* A host calls the API that gave it its handle, even with one it gave up.  After
\* the handle counter has wrapped it is taken to have forgotten the ones it gave
\* up: in the code that takes 2^32 starts.
Calls(a, api) ==
  /\ a \in StartedWith(api)
  /\ attempts[a].closed => Cardinality(StartedWith(api)) <= MaxHandle

Live(a) == attempts[a].handle \in DOMAIN sessions[attempts[a].api]

The(a) == sessions[attempts[a].api][attempts[a].handle]

\* One advance() behind a live handle without a result.
Advance(a) ==
  /\ Live(a) /\ ~The(a).result
  /\ \E outcome \in AdvanceOutcomes(The(a)) :
       /\ sessions' = With(attempts[a].api, attempts[a].handle, outcome.session)
       /\ attempts' = [attempts EXCEPT
            ![a].issued = IF outcome.batch = << >> THEN @ ELSE Append(@, outcome.batch),
            ![a].records = @ \o outcome.batch,
            ![a].failed = @ \/ outcome.batch = << >>]
  /\ UNCHANGED <<nextHandle, consumer>>

\* The handle of a session whose result is there is removed and the result given.
Consume(a) ==
  /\ Live(a) /\ The(a).result
  /\ attempts' = [attempts EXCEPT ![a].given = @ \cup {The(a).owner}, ![a].closed = TRUE]
  /\ sessions' = Without(attempts[a].api, attempts[a].handle)
  /\ UNCHANGED <<nextHandle, consumer>>

\* The session is dropped whatever it has reached.
Forget(a) ==
  /\ Live(a)
  /\ attempts' = [attempts EXCEPT ![a].closed = TRUE]
  /\ sessions' = Without(attempts[a].api, attempts[a].handle)
  /\ UNCHANGED <<nextHandle, consumer>>

\* pull, complete and release of the authorized API.
Pull(a) == Calls(a, "authorized") /\ Advance(a)
Complete(a) == Calls(a, "authorized") /\ Consume(a)
Release(a) == Calls(a, "authorized") /\ Forget(a)

\* The same calls of the local API.
PullLocal(a) == Calls(a, "local") /\ Advance(a)
CompleteLocal(a) == Calls(a, "local") /\ Consume(a)
ReleaseLocal(a) == Calls(a, "local") /\ Forget(a)

\* The host hands the consumer one of the batches it pulled, in any order, any
\* number of times or never; the cursor takes it or refuses it.
Deliver(a) ==
  \E i \in DOMAIN attempts[a].issued :
    LET batch == attempts[a].issued[i] IN
    /\ Accepts(consumer[a].cursor, batch)
    /\ consumer' = [consumer EXCEPT ![a] = [cursor |-> Advanced(batch),
                                            accepted |-> @.accepted \o batch]]
    /\ UNCHANGED <<sessions, nextHandle, attempts>>

Next == \E a \in Attempts :
          \/ Start(a) \/ Pull(a) \/ Complete(a) \/ Release(a)
          \/ StartLocal(a) \/ PullLocal(a) \/ CompleteLocal(a) \/ ReleaseLocal(a)
          \/ Deliver(a)

Spec == Init /\ [][Next]_vars

------------------------------------------------------------------------------
(* Properties *)

\* A consumer that saw the completion has the whole race: everything its session
\* issued, in order, with a record of every lap.  A lap whose batch was refused,
\* lost, or handed over out of turn is never skipped silently, because the numbers
\* of its records were used.
CompleteMeansWhole ==
  \A a \in Attempts : consumer[a].cursor.completed =>
    /\ consumer[a].accepted = attempts[a].records
    /\ {consumer[a].accepted[i].tick : i \in DOMAIN consumer[a].accepted} = 1..Laps
    /\ ~attempts[a].failed

\* Two attempts that are still open never share a handle, and the session behind a
\* handle is the one that its start() registered: no other host call, and no reuse
\* of handles, ends or replaces a session someone holds.
HandlesAreOwned ==
  \A a \in Started : ~attempts[a].closed => Live(a) /\ The(a).owner = a

\* complete() gives an attempt its own result and no other, at most once, and only
\* after the completion record was issued to it.
ResultIsOwnAndFinal ==
  \A a \in Attempts : attempts[a].given # {} =>
    /\ attempts[a].given = {a}
    /\ attempts[a].issued # << >> /\ attempts[a].issued[Len(attempts[a].issued)][1].complete
    /\ ~Live(a) \/ The(a).owner # a

\* A race is taken whole: what a consumer saw completed, and what a host was given
\* as its result.
RaceIsWholeAndOwn == CompleteMeansWhole /\ ResultIsOwnAndFinal

\* The field stays together: whenever a session can still issue a lap, all its
\* solvers stand on the same lap, although a failing one leaves those in front of
\* it a lap ahead.
LockStep ==
  \A api \in Api : \A h \in DOMAIN sessions[api] :
    LET solver == sessions[api][h].solver IN
      \/ \A c \in Car : solver[c] = solver[1]
      \/ \E c \in Car : solver[c] = Done
==============================================================================
