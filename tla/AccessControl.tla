---------------------------- MODULE AccessControl ----------------------------
(***************************************************************************)
(* pitgun-policy/src/access.rs: a controller shared by several readers,    *)
(* each filtering telemetry frames with its own token, a bounded audit log *)
(* behind a mutex, and a rate limiter with one window per key.             *)
(*                                                                         *)
(* A check reads the clock twice, once for the token and once for the      *)
(* audit entry, and takes the log's lock only after that; other readers    *)
(* and the clock may move in between.  Changing the controller needs it    *)
(* exclusively, so no reader is inside a frame then.                       *)
(***************************************************************************)
EXTENDS Integers, Sequences, FiniteSets, Functions

CONSTANTS Readers, Parameters, Teams, Roles, Expiries,
          ClaimsOf,      \* reader -> its token
          Frame,         \* the parameters of a frame's samples, in order
          MaxEntries,
          Keys, MaxRequests, WindowSecs,
          Settings,      \* the calls that configure the controller
          MaxTime, MaxFrames, MaxAsked,
          None

(* Public, Protected, Private and Confidential are 0, 1, 2 and 3.          *)
Levels == 0..3

(* The tokens the builders of Claims can make.                             *)
Claims == [roles : SUBSET (Roles \cup {"admin"}), teams : SUBSET Teams,
           granted : SUBSET Parameters, max_level : Levels, expires_at : Expiries \cup {None}]

(* The calls of set_access and its siblings, by what they enter.            *)
AccessSettings == [ids : SUBSET Parameters, level : Levels, team : Teams \cup {None}, role : Roles \cup {None}]

ASSUME AccessAssumption ==
    /\ MaxRequests \in Nat \ {0} /\ WindowSecs \in Nat /\ MaxEntries \in Nat \ {0}
    /\ MaxTime \in Nat /\ Expiries \subseteq Nat
    /\ \A r \in Readers : ClaimsOf[r] \in Claims
    /\ Frame \in Seq(Parameters) /\ Settings \subseteq AccessSettings

VARIABLES now, default_level, access, auditing, reader, log, taken, counts, uncleaned, admitted
controller == <<default_level, access, auditing, reader, log, taken>>
limiter == <<counts, uncleaned, admitted>>
vars == <<now, controller, limiter>>

(* is_expired: a token is good up to and including its last second.        *)
IsExpired(claims, t) == claims.expires_at # None /\ t > claims.expires_at

(* get_access: the parameter's configuration, or the default level.        *)
GetAccess(id) ==
    IF id \in DOMAIN access THEN access[id]
    ELSE [level |-> default_level, team |-> None, role |-> None]

(* check: the first test that answers decides; the verdict is "granted" or *)
(* the reason of the refusal.                                              *)
Check(claims, id, t) ==
    IF IsExpired(claims, t) THEN "expired"
    ELSE IF "admin" \in claims.roles \/ id \in claims.granted THEN "granted"
    ELSE LET a == GetAccess(id)
         IN  IF claims.max_level < a.level THEN "level"
             ELSE IF a.team # None /\ a.team \notin claims.teams THEN "team"
             ELSE IF a.role # None /\ a.role \notin claims.roles THEN "role"
             ELSE "granted"

(* InMemoryAuditLog::log: the oldest entry makes room for the new one.     *)
Logged(entries, entry) ==
    Append(IF Len(entries) >= MaxEntries THEN Tail(entries) ELSE entries, entry)

Idle == [pc |-> "idle", at |-> 1, kept |-> <<>>, verdict |-> None, stamp |-> 0, checks |-> <<>>, frames |-> 0]

AccessInit ==
    /\ default_level = 1 /\ access = <<>> /\ auditing = FALSE
    /\ reader = [r \in Readers |-> Idle]
    /\ log = <<>>
    /\ taken = [r \in Readers |-> <<>>]

(* set_access, set_access_with_role and set_bulk_access replace the whole  *)
(* configuration of their parameters: a team drops the role and a role the *)
(* team.                                                                   *)
SetAccess(id, level, team) == [ids |-> {id}, level |-> level, team |-> team, role |-> None]
SetAccessWithRole(id, level, role) == [ids |-> {id}, level |-> level, team |-> None, role |-> role]
SetBulkAccess(ids, level) == [ids |-> ids, level |-> level, team |-> None, role |-> None]

Unused == \A r \in Readers : reader[r].pc = "idle"

Configure(setting) ==
    /\ Unused
    /\ access' = [id \in DOMAIN access \cup setting.ids |->
                     IF id \in setting.ids
                     THEN [level |-> setting.level, team |-> setting.team, role |-> setting.role]
                     ELSE access[id]]
    /\ UNCHANGED <<now, default_level, auditing, reader, log, taken, limiter>>

SetDefaultLevel(level) ==
    /\ Unused
    /\ default_level' = level
    /\ UNCHANGED <<now, access, auditing, reader, log, taken, limiter>>

(* enable_audit and disable_audit; the logger keeps its entries.           *)
SetAudit(on) ==
    /\ Unused /\ auditing # on
    /\ auditing' = on
    /\ UNCHANGED <<now, default_level, access, reader, log, taken, limiter>>

(* filter_frame starts on a frame.                                         *)
Begin(r) ==
    /\ reader[r].pc = "idle" /\ reader[r].frames < MaxFrames
    /\ reader' = [reader EXCEPT ![r] = 
                     [Idle EXCEPT !.pc = "check", !.frames = reader[r].frames + 1,
                                  !.checks = reader[r].checks]]
    /\ taken' = [taken EXCEPT ![r] = <<>>]
    /\ UNCHANGED <<now, default_level, access, auditing, log, limiter>>

(* The next sample is checked against the clock of this moment.            *)
Decide(r) ==
    /\ reader[r].pc = "check" /\ reader[r].at <= Len(Frame)
    /\ LET verdict == Check(ClaimsOf[r], Frame[reader[r].at], now)
       IN  /\ reader' = [reader EXCEPT ![r] = [@ EXCEPT !.pc = "stamp", !.verdict = verdict]]
           /\ taken' = [taken EXCEPT ![r] = Append(@, [at |-> now, verdict |-> verdict])]
    /\ UNCHANGED <<now, default_level, access, auditing, log, limiter>>

(* log_access does nothing unless auditing; it reads the clock for the     *)
(* entry...                                                                *)
Stamp(r) ==
    /\ reader[r].pc = "stamp"
    /\ reader' = [reader EXCEPT ![r] = [@ EXCEPT !.pc = "record", !.stamp = now]]
    /\ UNCHANGED <<now, default_level, access, auditing, log, taken, limiter>>

(* ...and then locks the log.  The sample stays if it was granted.         *)
Record(r) ==
    /\ reader[r].pc = "record"
    /\ LET me == reader[r]
           entry == [subject |-> r, parameter |-> Frame[me.at], time |-> me.stamp,
                     granted |-> me.verdict = "granted",
                     reason |-> IF me.verdict = "granted" THEN None ELSE me.verdict]
       IN  /\ log' = IF auditing THEN Logged(log, entry) ELSE log
           /\ reader' = [reader EXCEPT ![r] =
                  [me EXCEPT !.pc = "check", !.at = me.at + 1,
                             !.checks = IF auditing THEN Append(me.checks, entry) ELSE me.checks,
                             !.kept = IF entry.granted THEN Append(me.kept, me.at) ELSE me.kept]]
    /\ UNCHANGED <<now, default_level, access, auditing, taken, limiter>>

(* The filtered frame is handed over: a copy of the frame with the samples *)
(* that were kept.                                                         *)
Finish(r) ==
    /\ reader[r].pc = "check" /\ reader[r].at > Len(Frame)
    /\ reader' = [reader EXCEPT ![r] = [@ EXCEPT !.pc = "idle"]]
    /\ UNCHANGED <<now, default_level, access, auditing, log, taken, limiter>>

-----------------------------------------------------------------------------
LimiterInit == counts = <<>> /\ uncleaned = <<>> /\ admitted = <<>>

Enter(table, key, value) == [k \in DOMAIN table \cup {key} |-> IF k = key THEN value ELSE table[k]]

(* RateLimiter::check.  A new key starts with no requests at the present   *)
(* second; a window that is over starts again with this request.           *)
Window(table, key) == IF key \in DOMAIN table THEN table[key] ELSE [count |-> 0, start |-> now]

Allowed(table, key) ==
    \/ now - Window(table, key).start > WindowSecs
    \/ Window(table, key).count < MaxRequests

AfterCheck(table, key) ==
    LET w == Window(table, key)
    IN  Enter(table, key,
              IF now - w.start > WindowSecs THEN [count |-> 1, start |-> now]
              ELSE IF w.count < MaxRequests THEN [w EXCEPT !.count = @ + 1] ELSE w)

(* One request, also put to a limiter that is never cleaned up.            *)
Ask(key) ==
    /\ Len(admitted) < MaxAsked
    /\ counts' = AfterCheck(counts, key)
    /\ uncleaned' = AfterCheck(uncleaned, key)
    /\ admitted' = Append(admitted, [key |-> key, at |-> now, ok |-> Allowed(counts, key)])
    /\ UNCHANGED <<now, controller>>

(* Mutant: cleanup also forgets a window in its last second.               *)
KeptShort(table) == {k \in DOMAIN table : now - table[k].start < WindowSecs}

(* cleanup forgets the keys whose window is over.                          *)
Kept(table) == {k \in DOMAIN table : now - table[k].start <= WindowSecs}

Cleanup ==
    /\ counts' = [k \in Kept(counts) |-> counts[k]]
    /\ UNCHANGED <<now, controller, uncleaned, admitted>>

Tick ==
    /\ now < MaxTime
    /\ now' = now + 1
    /\ UNCHANGED <<controller, limiter>>

AccessNext ==
    \/ \E s \in Settings : Configure(s)
    \/ \E level \in Levels : SetDefaultLevel(level)
    \/ \E on \in BOOLEAN : SetAudit(on)
    \/ \E r \in Readers : Begin(r) \/ Decide(r) \/ Stamp(r) \/ Record(r) \/ Finish(r)

LimiterNext == (\E k \in Keys : Ask(k)) \/ Cleanup

Spec == /\ now = 0 /\ AccessInit /\ LimiterInit
        /\ [][AccessNext \/ LimiterNext \/ Tick]_vars

-----------------------------------------------------------------------------
EntriesOf(r) == {j \in DOMAIN log : log[j].subject = r}

(* The audit log never loses or invents a recent check: whatever order the *)
(* readers reach its lock in, each reader's entries in it are the end of   *)
(* that reader's own checks, in order, and an entry is gone only when      *)
(* MaxEntries newer ones are there (InMemoryAuditLog::log, log_access).    *)
AuditIsFaithful ==
    /\ Len(log) <= MaxEntries
    /\ \A i \in DOMAIN log :
          LET checks == reader[log[i].subject].checks
              newer == Cardinality({j \in EntriesOf(log[i].subject) : j > i})
          IN  newer < Len(checks) /\ log[i] = checks[Len(checks) - newer]
    /\ \A r \in Readers :
          Cardinality(EntriesOf(r)) < Len(reader[r].checks) => Len(log) = MaxEntries

(* The configuration and the token entitle the holder to a parameter.      *)
Entitled(claims, id) ==
    \/ "admin" \in claims.roles
    \/ id \in claims.granted
    \/ /\ GetAccess(id).level <= claims.max_level
       /\ GetAccess(id).team \in claims.teams \cup {None}
       /\ GetAccess(id).role \in claims.roles \cup {None}

(* What a reader is given of a frame is a subsequence of it: exactly the   *)
(* samples the configuration and the token entitle it to and whose token   *)
(* was good when that sample was checked; so once a token has run out in   *)
(* the middle of a frame, nothing after that sample is handed over         *)
(* (check, filter_frame).                                                  *)
FilteredAsGranted ==
    \A r \in Readers : reader[r].pc # "idle" =>
        LET me == reader[r]
            claims == ClaimsOf[r]
            good(i) == claims.expires_at = None \/ taken[r][i].at <= claims.expires_at
        IN  /\ Range(me.kept) = {i \in 1..(me.at - 1) : Entitled(claims, Frame[i]) /\ good(i)}
            /\ \A i, j \in DOMAIN me.kept : i < j => me.kept[i] < me.kept[j]

(* In any span of WindowSecs + 1 seconds a key is admitted at most twice   *)
(* the maximum: the end of one window and the start of the next.           *)
WindowsBounded ==
    \A k \in Keys, t \in 0..MaxTime :
        Cardinality({i \in DOMAIN admitted :
            /\ admitted[i].key = k /\ admitted[i].ok
            /\ admitted[i].at \in t..(t + WindowSecs)}) <= 2 * MaxRequests

(* Cleaning up is invisible: whenever it runs, the next request of every   *)
(* key is answered as by a limiter that never forgets.                     *)
CleanupIsInvisible ==
    \A k \in Keys : Allowed(counts, k) = Allowed(uncleaned, k)

(* What was handed over was granted, what was asked is in the log, and a   *)
(* key is admitted within its windows whenever they are cleaned up.        *)
AccessIsAccounted == AuditIsFaithful /\ FilteredAsGranted /\ WindowsBounded /\ CleanupIsInvisible
=============================================================================
