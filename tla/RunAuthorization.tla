--------------------------- MODULE RunAuthorization ---------------------------
(***************************************************************************)
(* The documents a hosted run is governed by: the deterministic contract,  *)
(* the signed authorization of a run or of a dynamic attempt, the decision *)
(* envelope of an attempt and the completed input that stays inside it.    *)
(* A digest is its content (no two contents collide), a signature is the   *)
(* pair of key and signed document, and times are in milliseconds.         *)
(***************************************************************************)
EXTENDS DriverInstructions

CONSTANTS SafeInteger,      \* the greatest integer of a JSON number (2^53 - 1)
          MicrosPerSecond,  \* 1_000_000
          None              \* an optional field that is absent

Digest(content) == <<"sha256", content>>

\* hz, in halves: a whole number of samples in 1..=1_000_000.
HzValid(hz) == hz > 0 /\ hz % 2 = 0 /\ hz \div 2 <= MicrosPerSecond

\* greatest_common_divisor, which the authority and the verifier each have.
Gcd(a, b) == CHOOSE d \in 1..b : /\ a % d = 0 /\ b % d = 0
                                 /\ \A e \in 1..b : a % e = 0 /\ b % e = 0 => e <= d

\* expected_clock and the clock of prepare_racing_run: the tick as a reduced fraction.
ClockOf(hz) ==
  LET h == hz \div 2
      g == Gcd(MicrosPerSecond, h)
  IN  [numerator |-> MicrosPerSecond \div g, denominator |-> h \div g]

RunId(contract) == Digest(contract)

------------------------------------------------------------------------------
(* Authorizations *)

\* AuthorizationValidityV1::validate.
ValidityValid(v) ==
  /\ 0 <= v.issued /\ v.issued <= SafeInteger
  /\ v.issued < v.expires /\ v.expires <= SafeInteger
  /\ 0 <= v.grace /\ v.expires + v.grace <= SafeInteger

\* MUTANT of MaySubmit: the grace is forgotten.
MaySubmitUntilExpiry(v, now) == ValidityValid(v) /\ v.issued <= now /\ now <= v.expires

\* validate_submission_time.
MaySubmit(v, now) == ValidityValid(v) /\ v.issued <= now /\ now <= v.expires + v.grace

\* validate_integrity of either authorization.
IntegrityValid(a) == ValidityValid(a.validity) /\ a.runId = RunId(a.contract)

Sign(key, document) == <<key, document>>

\* MUTANT of SignatureVerifies: a known key id is enough.
KeyIsKnown(keys, signed) == signed.authorization.keyId \in DOMAIN keys

\* SigningKey::verify under the key the authorization names.
SignatureVerifies(keys, signed) ==
  /\ signed.authorization.keyId \in DOMAIN keys
  /\ signed.signature = Sign(keys[signed.authorization.keyId], signed.authorization)

\* verify_submission and verify_attempt_submission, by their reason.  The run id is
\* compared when the signing bytes are made, before the signature is.
SubmissionRefusal(keys, signed, audience, now) ==
  LET a == signed.authorization
  IN  CASE a.audience # audience \/ a.keyId \notin DOMAIN keys -> "invalid_authorization"
        [] a.audience = audience /\ a.keyId \in DOMAIN keys ->
             IF ~ValidityValid(a.validity) THEN "invalid_authorization"
             ELSE IF a.runId # RunId(a.contract) THEN "run_id_mismatch"
             ELSE IF ~SignatureVerifies(keys, signed) THEN "invalid_authorization"
             ELSE IF ~MaySubmit(a.validity, now) THEN "authorization_expired"
             ELSE "none"

------------------------------------------------------------------------------
(* The decision envelope of an attempt *)

ModeRank == [manage |-> 1, balanced |-> 2, attack |-> 3]

Increasing(seq, Rank(_)) == \A k \in 1..(Len(seq) - 1) : Rank(seq[k]) < Rank(seq[k + 1])

\* validate_modes.
ModesValid(modes) == modes # <<>> /\ Increasing(modes, LAMBDA m : ModeRank[m])

\* validate_competitors and canonical_competitor_set; ids are numbers, 0 is a blank one.
CompetitorsValid(ids) ==
  ids # <<>> /\ (\A k \in DOMAIN ids : ids[k] # 0) /\ Increasing(ids, LAMBDA id : id)

\* RacingDriverInstructionAuthorizationV1::validate.
EnvelopeValid(e, contract, profile) ==
  /\ ProfileValid(profile)
  /\ e.input = contract.input
  /\ e.profile = profile.id
  /\ ModesValid(e.modes) /\ \E k \in DOMAIN e.modes : e.modes[k] = profile.defaultMode
  /\ e.granularity = profile.granularity
  /\ e.maxEvents > 0 /\ e.maxEvents <= profile.maxEvents
  /\ CompetitorsValid(e.competitors)
  /\ e.laps > 0 /\ e.segments > 0

\* RacingCompletedRunInputV1::validate.
CompletedValid(c, contract, profile, laps, segments) ==
  /\ c.input = contract.input
  /\ c.profile = profile.id
  /\ c.initialMode = profile.defaultMode
  /\ CompetitorsValid(c.competitors)
  /\ TimelineValid(c.events, profile, {c.competitors[k] : k \in DOMAIN c.competitors}, laps, segments)

\* validate_completed_input: the profile narrowed to the envelope, the same competitors,
\* allowed modes only.
CompletedInside(e, c, contract, profile) ==
  /\ EnvelopeValid(e, contract, profile)
  /\ CompletedValid(c, contract, [profile EXCEPT !.granularity = e.granularity,
                                                 !.maxEvents = e.maxEvents], e.laps, e.segments)
  /\ c.competitors = e.competitors
  /\ \A k \in DOMAIN c.events : \E m \in DOMAIN e.modes : e.modes[m] = c.events[k].mode

\* RacingCompletedRunInputV1::final_contract: only the input changes.
FinalContract(contract, completed) == [contract EXCEPT !.input = Digest(completed)]

\* validate_final_contract.
FinalContractValid(a, final) ==
  IntegrityValid(a) /\ [final EXCEPT !.input = a.contract.input] = a.contract

\* final_contract_for_attempt: whether there is one; it is FinalContract then.
AttemptCompletes(a, e, c, profile) ==
  /\ IntegrityValid(a) /\ a.envelope = Digest(e)
  /\ CompletedInside(e, c, a.contract, profile)
  /\ CompletedValid(c, a.contract, profile, e.laps, e.segments)
  /\ FinalContractValid(a, FinalContract(a.contract, c))

------------------------------------------------------------------------------
(* Receipts *)

\* ExecutionReceiptV1::for_contract.
Receipt(contract, execution, output, telemetry) ==
  [runId |-> RunId(contract), execution |-> execution,
   output |-> Digest(output), telemetry |-> Digest(telemetry)]

\* verify_receipt.
ReceiptVerifies(contract, receipt) == receipt.runId = RunId(contract)

\* validate_completed_receipt.
CompletedReceiptValid(a, final, receipt) ==
  /\ FinalContractValid(a, final)
  /\ receipt.execution = a.execution
  /\ ReceiptVerifies(final, receipt)
==============================================================================
