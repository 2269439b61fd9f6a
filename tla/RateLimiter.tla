----------------------------- MODULE RateLimiter -----------------------------
(***************************************************************************)
(* ConnectionRateLimiter of services/pitgun-gateway: one fixed window per  *)
(* connection.  Time is counted in ticks, TicksPerSec of them to a second, *)
(* so that messages can fall inside a window and on its edge.              *)
(***************************************************************************)
EXTENDS Naturals

CONSTANTS MaxPerSec,     \* PITGUN_GATEWAY_MAX_MESSAGES_PER_SEC; 0 disables the limiter
          TicksPerSec,   \* resolution of the clock
          CountMax       \* u32::MAX of the counter

ASSUME LimiterAssumption ==
  /\ MaxPerSec \in Nat
  /\ TicksPerSec \in Nat \ {0}
  /\ CountMax \in Nat
  /\ MaxPerSec <= CountMax

\* The limiter's fields besides max_per_sec: window_started_at and count.
Limiter == [started : Nat, count : 0..CountMax]

NewLimiter(now) == [started |-> now, count |-> 0]

\* MUTANT of CurrentWindow: every message starts the second over without its count.
CurrentWindowSliding(l, now) ==
  IF now - l.started >= TicksPerSec THEN NewLimiter(now) ELSE [l EXCEPT !.started = now]

\* The window `now` falls in: a window at least a second old is replaced.
CurrentWindow(l, now) ==
  IF now - l.started >= TicksPerSec THEN NewLimiter(now) ELSE l

\* allow(&mut self), its effect: an enabled limiter counts the message first.
Counted(l, now) ==
  IF MaxPerSec = 0
  THEN l
  ELSE LET w == CurrentWindow(l, now)
       IN  [w EXCEPT !.count = IF @ < CountMax THEN @ + 1 ELSE @]

\* allow(&mut self), its result, read from the limiter after Counted.
Allowed(l) == MaxPerSec = 0 \/ l.count <= MaxPerSec
==============================================================================
