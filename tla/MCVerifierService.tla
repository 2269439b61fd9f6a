-------------------------- MODULE MCVerifierService --------------------------
(* "crowd": three requests with one submission for two slots, and a restart     *)
(* that may lose what the first process had retained.  "single": one request    *)
(* with submissions that have up to two faults, under every material and clock. *)
EXTENDS VerifierService

CONSTANT First

VARIABLE world

Submitted(kind, fails, receiptRun) ==
  [kind |-> kind, fails |-> fails, receiptRun |-> receiptRun, issued |-> 0, deadline |-> 1,
   finalRun |-> "r1"]

Kinds == {"run", "attempt"}

Flawless == Submitted("attempt", {}, "r1")

\* No fault or one, with a receipt of the run or of another; and one under a false
\* signature.  Missing material and late clocks come from the service.
TheSubmissions ==
  UNION {{Submitted(k, fails, run) : fails \in {{}} \cup {{f} : f \in Faults(k)}, run \in {"r1", "r2"}}
           \cup {Submitted(k, {f, "signature"}, "r1") : f \in Faults(k)} : k \in Kinds}

MCSubmissions == TheSubmissions

MCInit ==
  /\ Init /\ world \in {"crowd", "single"}
  /\ world = "crowd" => retained.key /\ \A k \in Kinds : retained.catalog[k]

MCArrive ==
  \E r \in IF world = "single" THEN {First} ELSE Requests,
     sub \in IF world = "single" THEN Submissions ELSE {Flawless} : Arrive(r, sub)

MCNext ==
  /\ \/ MCArrive
     \/ \E r \in Requests : Decide(r) \/ Fail(r) \/ LeaveQueue(r) \/ Abandon(r)
     \/ Acquire
     \/ Restart /\ world = "crowd"
     \/ Tick /\ world = "single"
  /\ world' = world

MCSpec == MCInit /\ [][MCNext]_<<vars, world>> /\ Fairness
==============================================================================
