--------------------------- MODULE VerifierService ---------------------------
(****************************************************************************)
(* services/pitgun-verifier: requests wait for a replay slot, read the      *)
(* clock, and have their submission decided by a blocking worker that holds *)
(* the slot.  Clients may hang up at any time, workers may panic, and the   *)
(* process may restart with other retained material.                        *)
(*                                                                          *)
(* A submission is the set of checks its content does not pass, and the     *)
(* identities a verdict can echo; digests are taken to be free of           *)
(* collisions and the replay to be deterministic.                           *)
(****************************************************************************)
EXTENDS Integers, Sequences, FiniteSets

CONSTANTS Requests,      \* HTTP requests
          Submissions,   \* what clients submit
          Slots,         \* PITGUN_VERIFIER_MAX_CONCURRENT_REPLAYS
          MaxTime,       \* bound on the clock
          MaxRestarts    \* bound on restarts

ASSUME SlotsAssumption == Slots \in Nat \ {0}
ASSUME RequestsAssumption == IsFiniteSet(Requests)

\* What can be wrong with a submission's content.
Faults(kind) ==
  {"audience", "key", "validity", "runId", "signature", "time", "shape", "model", "policy",
   "catalog", "dataPack", "resolution", "input", "receipt", "outputDigest",
   "telemetryDigest", "replay", "output", "telemetry"}
  \cup IF kind = "attempt" THEN {"profile", "envelope"} ELSE {"workload"}

ASSUME SubmissionsAssumption ==
  \A sub \in Submissions :
    /\ sub.kind \in {"run", "attempt"} /\ sub.fails \subseteq Faults(sub.kind)
    /\ sub.issued \in Nat /\ sub.deadline \in Nat

VARIABLES
  now,        \* the wall clock
  retained,   \* what load_state() found: the key and the two catalogs
  free,       \* permits left in replay_slots
  queue,      \* requests waiting in acquire_owned(), in order
  req,        \* per request, its progress
  restarts

vars == <<now, retained, free, queue, req, restarts>>

------------------------------------------------------------------------------
(* The decision *)

Check(name, reason) == [check |-> name, reason |-> reason]

\* verify_submission and verify_attempt_submission of the keyring.  The algorithm,
\* asked for before the audience, has one value only and is left out.
AuthorizationChecks ==
  << Check("audience", "InvalidAuthorization"), Check("key", "InvalidAuthorization"),
     Check("validity", "InvalidAuthorization"), Check("runId", "RunIdMismatch"),
     Check("signature", "InvalidAuthorization"), Check("time", "AuthorizationExpired") >>

\* What both kinds of submission are asked next.
ResourceChecks ==
  << Check("shape", "InvalidAuthorization"), Check("model", "UnknownModel"),
     Check("policy", "UnknownPolicy"), Check("catalog", "CatalogUnavailable"),
     Check("dataPack", "UnknownDataPack"), Check("resolution", "ArtifactDigestMismatch"),
     Check("input", "ArtifactDigestMismatch") >>

\* The receipt must fit the contract, the submitted artifacts the receipt.
EvidenceChecks ==
  << Check("receipt", "ReceiptMismatch"), Check("outputDigest", "OutputMismatch"),
     Check("telemetryDigest", "TelemetryMismatch") >>

\* MUTANT of ReplayChecks: the replayed output is compared by nobody.
ReplayChecksNoOutput ==
  << Check("replay", "ReplayMismatch"), Check("telemetry", "TelemetryMismatch") >>

\* A replay that fails.  replay_reason has other reasons for a wrong model and a
\* wrong input digest, which ResourceChecks and RunChecks refuse before.
ReplayChecks ==
  << Check("replay", "ReplayMismatch"), Check("output", "OutputMismatch"),
     Check("telemetry", "TelemetryMismatch") >>

\* verify().
RunChecks ==
  AuthorizationChecks \o ResourceChecks \o EvidenceChecks
    \o <<Check("workload", "UnknownModel")>> \o ReplayChecks

\* Deriving the final contract of a dynamic attempt from its instructions.
EnvelopeChecks ==
  <<Check("profile", "UnknownDataPack"), Check("envelope", "InvalidAuthorization")>>

\* verify_attempt().
AttemptChecks ==
  AuthorizationChecks \o ResourceChecks \o EnvelopeChecks \o EvidenceChecks \o ReplayChecks

\* A check fails for the submission's content, or for what the process and the
\* clock say.  A receipt of another run never fits the contract.
Passes(sub, check, material, time) ==
  /\ check \notin sub.fails
  /\ check = "key" => material.key
  /\ check = "catalog" => material.catalog[sub.kind]
  /\ check = "time" => sub.issued <= time /\ time <= sub.deadline
  /\ check = "receipt" => sub.receiptRun = sub.finalRun

\* run_id of the verdict.  An attempt is named after its receipt until the final
\* contract is known; a run after its authorization, which a failed runId check
\* leaves unrelated to the contract.
EchoedRun(sub, place) ==
  IF sub.kind = "attempt"
  THEN IF place <= Len(AuthorizationChecks \o ResourceChecks \o EnvelopeChecks)
       THEN sub.receiptRun ELSE sub.finalRun
  ELSE IF "runId" \in sub.fails THEN "unrelated" ELSE sub.finalRun

\* The verdict: the first check that fails gives the reason.
Verdict(sub, material, time) ==
  LET checks == IF sub.kind = "attempt" THEN AttemptChecks ELSE RunChecks
      failed == {i \in DOMAIN checks : ~Passes(sub, checks[i].check, material, time)}
      first == CHOOSE i \in failed : \A j \in failed : i <= j
  IN  IF failed = {}
      THEN [status |-> "Verified", reason |-> "none", run |-> EchoedRun(sub, Len(checks)),
            at |-> time]
      ELSE [status |-> IF checks[first].check = "catalog" THEN "Pending" ELSE "Rejected",
            reason |-> checks[first].reason, run |-> EchoedRun(sub, first), at |-> time]

------------------------------------------------------------------------------
(* The service *)

Material == [key : BOOLEAN, catalog : [{"run", "attempt"} -> BOOLEAN]]

NoVerdict == [status |-> "none", reason |-> "none", run |-> "none", at |-> 0]

\* phase: "orphan" is a worker whose client hung up; "answered", "failed" (HTTP 500)
\* and "gone" are final.  with: history, the material of the deciding process.
Idle == [phase |-> "idle", sub |-> CHOOSE s \in Submissions : TRUE, arrived |-> 0,
         clock |-> 0, verdict |-> NoVerdict, with |-> [key |-> FALSE,
         catalog |-> [k \in {"run", "attempt"} |-> FALSE]]]

Working == {r \in Requests : req[r].phase \in {"replaying", "orphan"}}

Waiting(r) == \E i \in DOMAIN queue : queue[i] = r

Init ==
  /\ now = 0
  /\ retained \in Material
  /\ free = Slots
  /\ queue = << >>
  /\ req = [r \in Requests |-> Idle]
  /\ restarts = 0

\* A submission arrives and joins the semaphore's queue.
Arrive(r, sub) ==
  /\ req[r].phase = "idle"
  /\ req' = [req EXCEPT ![r].phase = "waiting", ![r].sub = sub, ![r].arrived = now]
  /\ queue' = Append(queue, r)
  /\ UNCHANGED <<now, retained, free, restarts>>

\* MUTANT of Acquire: a waiter is woken only by the next one to join the queue.
AcquireMissesWakeup ==
  /\ Len(queue) > 1 /\ free > 0
  /\ req' = [req EXCEPT ![Head(queue)].phase = "replaying", ![Head(queue)].clock = now]
  /\ queue' = Tail(queue)
  /\ free' = free - 1
  /\ UNCHANGED <<now, retained, restarts>>

\* acquire_owned() serves waiters in order.  The clock is read only now.
Acquire ==
  /\ queue # << >> /\ free > 0
  /\ req' = [req EXCEPT ![Head(queue)].phase = "replaying", ![Head(queue)].clock = now]
  /\ queue' = Tail(queue)
  /\ free' = free - 1
  /\ UNCHANGED <<now, retained, restarts>>

\* The worker returns and drops its permit; the handler answers, if it is still
\* there.
Decide(r) ==
  /\ r \in Working
  /\ req' = [req EXCEPT
       ![r].phase = IF @ = "orphan" THEN "gone" ELSE "answered",
       ![r].verdict = IF req[r].phase = "orphan" THEN NoVerdict
                      ELSE Verdict(req[r].sub, retained, req[r].clock),
       ![r].with = retained]
  /\ free' = free + 1
  /\ UNCHANGED <<now, retained, queue, restarts>>

\* The worker panics or reports an internal error: unwinding drops the permit.
Fail(r) ==
  /\ r \in Working
  /\ req' = [req EXCEPT ![r].phase = IF @ = "orphan" THEN "gone" ELSE "failed"]
  /\ free' = free + 1
  /\ UNCHANGED <<now, retained, queue, restarts>>

\* The client of a waiter hangs up: dropping its handler takes it out of the queue.
LeaveQueue(r) ==
  /\ req[r].phase = "waiting"
  /\ req' = [req EXCEPT ![r].phase = "gone"]
  /\ \E i \in DOMAIN queue :
       /\ queue[i] = r
       /\ queue' = SubSeq(queue, 1, i - 1) \o SubSeq(queue, i + 1, Len(queue))
  /\ UNCHANGED <<now, retained, free, restarts>>

\* MUTANT of Abandon: the slot of a replay nobody waits for is handed on at once.
AbandonFrees(r) ==
  /\ req[r].phase = "replaying"
  /\ req' = [req EXCEPT ![r].phase = "orphan"]
  /\ free' = free + 1
  /\ UNCHANGED <<now, retained, queue, restarts>>

\* The client hangs up during the replay: the blocking worker runs on.
Abandon(r) ==
  /\ req[r].phase = "replaying"
  /\ req' = [req EXCEPT ![r].phase = "orphan"]
  /\ UNCHANGED <<now, retained, free, queue, restarts>>

\* The process restarts and load_state() finds what it finds.
Restart ==
  /\ restarts < MaxRestarts
  /\ restarts' = restarts + 1
  /\ retained' \in Material
  /\ free' = Slots
  /\ queue' = << >>
  /\ req' = [r \in Requests |->
               IF req[r].phase \in {"waiting", "replaying", "orphan"}
               THEN [req[r] EXCEPT !.phase = "gone"] ELSE req[r]]
  /\ UNCHANGED now

\* now_ms() reads the system clock, which is assumed not to be set back.
Tick == now < MaxTime /\ now' = now + 1 /\ UNCHANGED <<retained, free, queue, req, restarts>>

Next ==
  \/ \E r \in Requests : \/ \E sub \in Submissions : Arrive(r, sub)
                         \/ Decide(r) \/ Fail(r)
                         \/ LeaveQueue(r) \/ Abandon(r)
  \/ Acquire \/ Restart \/ Tick

Spec == Init /\ [][Next]_vars

\* The runtime polls a handler whose permit is there, and every replay ends.
Fairness ==
  /\ WF_vars(Acquire)
  /\ \A r \in Requests : WF_vars(Decide(r) \/ Fail(r))

FairSpec == Spec /\ Fairness

------------------------------------------------------------------------------
(* Properties *)

\* Replays and free slots always make up the configured number, through panics,
\* internal errors and clients that hang up while waiting or while replaying.
SlotsConserved == free >= 0 /\ free + Cardinality(Working) = Slots

\* The queue holds every request that waits, once, and no other: whoever hung up
\* takes no slot from those behind.
QueueIsWaiters ==
  /\ \A r \in Requests : req[r].phase = "waiting" <=> Waiting(r)
  /\ \A i, j \in DOMAIN queue : queue[i] = queue[j] => i = j

\* No slot is lost or handed out twice, and none waits for somebody who left.
SlotsAreShared == SlotsConserved /\ QueueIsWaiters

\* A Verified verdict rests on every check: the content passes, the receipt is of
\* the run the verdict names, the material was there, and the clock read when the
\* slot was taken, after the arrival, lies in the window, however long the replay
\* took.
VerifiedIsSound ==
  \A r \in Requests : req[r].verdict.status = "Verified" =>
    LET sub == req[r].sub IN
    /\ sub.fails = {} /\ sub.receiptRun = sub.finalRun
    /\ req[r].verdict.run = sub.receiptRun
    /\ req[r].with.key /\ req[r].with.catalog[sub.kind]
    /\ req[r].verdict.at \in sub.issued..sub.deadline
    /\ req[r].arrived <= req[r].verdict.at

\* Pending, which invites the client to submit again, is only ever said to an
\* authentic submission in its window, and only for want of the catalog: a forged
\* or late one is refused for good although the catalog is missing too.
PendingIsAuthentic ==
  \A r \in Requests : req[r].verdict.status = "Pending" =>
    LET sub == req[r].sub IN
    /\ sub.fails \cap {"audience", "key", "validity", "runId", "signature", "time"} = {}
    /\ req[r].with.key
    /\ req[r].verdict.at \in sub.issued..sub.deadline
    /\ "catalog" \in sub.fails \/ ~req[r].with.catalog[sub.kind]

\* A verdict means what the client is told.
VerdictsAreSound == VerifiedIsSound /\ PendingIsAuthentic

\* Nobody waits for ever: a request is answered, refused, abandoned or lost with
\* the process.
EveryRequestEnds ==
  \A r \in Requests : req[r].phase = "waiting" ~> req[r].phase \in {"answered", "failed", "gone"}
==============================================================================
