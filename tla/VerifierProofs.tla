--------------------------- MODULE VerifierProofs ----------------------------
(****************************************************************************)
(* The verifier's replay slots are neither lost nor duplicated, for every   *)
(* number of slots and requests.  That needs the queue to be exact: a       *)
(* request takes a slot because it heads the queue, and must not be working *)
(* already.                                                                 *)
(*                                                                          *)
(* Then, what Verified and Pending mean, for every set of submissions,      *)
(* clock and retained material.  The lists of checks are looked through     *)
(* once, for both kinds; the invariant ties a verdict to the submission,    *)
(* the material and the clock it was made from.                             *)
(****************************************************************************)
EXTENDS VerifierService, FiniteSetTheorems, TLAPS

------------------------------------------------------------------------------
(* Numbers and sequences *)

\* Every nonempty set of numbers has a least one: what is proved by induction
\* below looks at the least counterexample.
LEMMA LeastNumber ==
  ASSUME NEW T \in SUBSET Nat, T # {}
  PROVE  \E x \in T : \A y \in T : x <= y
<1> DEFINE R == OpToRel(<, Nat)
<1>1. IsWellFoundedOn(R, Nat)
  BY NatLessThanWellFounded, Zenon
<1>2. \A x, y \in Nat : y < x => <<y, x>> \in R
  BY Zenon DEF OpToRel
<1> HIDE DEF R
<1>3. \E x \in T : \A y \in T : ~(<<y, x>> \in R)
  BY <1>1, WFMin, Zenon
<1>4. \E x \in T : \A y \in T : ~(y < x)
  BY <1>2, <1>3, Zenon
<1>5. \A x, y \in Nat : ~(y < x) => x <= y
  OBVIOUS
<1> QED BY <1>4, <1>5, Zenon

\* What a concatenation holds.
LEMMA Joined ==
  ASSUME NEW S, NEW s \in Seq(S), NEW t \in Seq(S)
  PROVE  /\ s \o t \in Seq(S)
         /\ Len(s \o t) = Len(s) + Len(t)
         /\ \A i \in 1..Len(s) : (s \o t)[i] = s[i]
         /\ \A i \in (Len(s) + 1)..(Len(s) + Len(t)) : (s \o t)[i] = t[i - Len(s)]
  OBVIOUS

------------------------------------------------------------------------------
(* The slots *)

Phase == {"idle", "waiting", "replaying", "orphan", "answered", "failed", "gone"}

\* What the updates of a request need to know of its record.
RequestShape ==
  /\ req = [r \in Requests |-> req[r]]
  /\ \A r \in Requests :
       /\ DOMAIN req[r] = {"phase", "sub", "arrived", "clock", "verdict", "with"}
       /\ req[r] = [f \in DOMAIN req[r] |-> req[r][f]]
       /\ req[r].phase \in Phase

SlotInv ==
  /\ RequestShape
  /\ queue \in Seq(Requests) /\ free \in Int
  /\ QueueIsWaiters
  /\ SlotsConserved

\* The set of working requests is finite.
LEMMA WorkingFinite == Working \in SUBSET Requests /\ IsFiniteSet(Working)
  BY RequestsAssumption, FS_Subset DEF Working

\* One request more, one slot less.
LEMMA Enters ==
  ASSUME NEW r \in Requests, r \notin Working, Working' = Working \cup {r},
         SlotInv, free > 0, free' = free - 1
  PROVE  SlotsConserved'
<1>1. Cardinality(Working') = Cardinality(Working) + 1 /\ Cardinality(Working) \in Nat
  BY WorkingFinite, FS_AddElement, FS_CardinalityType
<1> QED BY <1>1, SlotsAssumption DEF SlotsConserved, SlotInv

\* One request less, one slot more.
LEMMA Leaves ==
  ASSUME NEW r \in Working, Working' = Working \ {r}, SlotInv, free' = free + 1
  PROVE  SlotsConserved'
<1>1. Cardinality(Working') = Cardinality(Working) - 1 /\ Cardinality(Working) \in Nat
  BY WorkingFinite, FS_RemoveElement, FS_CardinalityType
<1> QED BY <1>1, SlotsAssumption DEF SlotsConserved, SlotInv

\* What changing one request does to the others and to the phases.
LEMMA OneRequest ==
  ASSUME NEW r \in Requests, RequestShape, NEW new,
         DOMAIN new = {"phase", "sub", "arrived", "clock", "verdict", "with"},
         new = [f \in DOMAIN new |-> new[f]], new.phase \in Phase,
         req' = [req EXCEPT ![r] = new]
  PROVE  /\ RequestShape'
         /\ req'[r] = new
         /\ \A q \in Requests \ {r} : req'[q] = req[q]
<1>1. req'[r] = new /\ \A q \in Requests \ {r} : req'[q] = req[q]
  BY DEF RequestShape
<1>2. req' = [q \in Requests |-> req'[q]]
  BY DEF RequestShape
<1>3. ASSUME NEW q \in Requests
      PROVE  /\ DOMAIN req'[q] = {"phase", "sub", "arrived", "clock", "verdict", "with"}
             /\ req'[q] = [f \in DOMAIN req'[q] |-> req'[q][f]]
             /\ req'[q].phase \in Phase
  <2>1. CASE q = r
    BY <2>1, <1>1
  <2>2. CASE q # r
    BY <2>2, <1>1 DEF RequestShape
  <2> QED BY <2>1, <2>2
<1> QED BY <1>1, <1>2, <1>3 DEF RequestShape

\* The queue stays exact when it is left alone and nobody starts or stops waiting.
LEMMA SameQueue ==
  ASSUME QueueIsWaiters, queue' = queue,
         \A q \in Requests : req'[q].phase = "waiting" <=> req[q].phase = "waiting"
  PROVE  QueueIsWaiters'
  BY DEF QueueIsWaiters, Waiting

\* Joining at the end.
LEMMA JoinQueue ==
  ASSUME NEW r \in Requests, QueueIsWaiters, queue \in Seq(Requests),
         req[r].phase # "waiting", queue' = Append(queue, r),
         \A q \in Requests : req'[q].phase = "waiting" <=> req[q].phase = "waiting" \/ q = r
  PROVE  queue' \in Seq(Requests) /\ QueueIsWaiters'
<1>1. queue' \in Seq(Requests) /\ Len(queue') = Len(queue) + 1 /\ queue'[Len(queue) + 1] = r
      /\ \A i \in 1..Len(queue) : queue'[i] = queue[i]
  OBVIOUS
<1>2. \A i \in 1..Len(queue) : queue[i] # r
  BY DEF QueueIsWaiters, Waiting
<1>3. ASSUME NEW q \in Requests PROVE req'[q].phase = "waiting" <=> Waiting(q)'
  <2>1. Waiting(q)' <=> \E i \in 1..(Len(queue) + 1) : queue'[i] = q
    BY <1>1 DEF Waiting
  <2>2. Waiting(q)' <=> Waiting(q) \/ q = r
    BY <2>1, <1>1 DEF Waiting
  <2> QED BY <2>2 DEF QueueIsWaiters
<1>4. ASSUME NEW i \in DOMAIN queue', NEW j \in DOMAIN queue', queue'[i] = queue'[j] PROVE i = j
  BY <1>1, <1>2, <1>4 DEF QueueIsWaiters
<1> QED BY <1>1, <1>3, <1>4 DEF QueueIsWaiters

\* Leaving from place k, the head included.
LEMMA QuitQueue ==
  ASSUME NEW k \in 1..Len(queue), QueueIsWaiters, queue \in Seq(Requests),
         queue' \in Seq(Requests), Len(queue') = Len(queue) - 1,
         \A i \in 1..(Len(queue) - 1) : queue'[i] = IF i < k THEN queue[i] ELSE queue[i + 1],
         \A q \in Requests :
           req'[q].phase = "waiting" <=> req[q].phase = "waiting" /\ q # queue[k]
  PROVE  QueueIsWaiters'
<1> DEFINE n == Len(queue)
<1>1. n \in Nat /\ DOMAIN queue = 1..n /\ DOMAIN queue' = 1..(n - 1)
  OBVIOUS
<1>2. \A i \in 1..n, j \in 1..n : queue[i] = queue[j] => i = j
  BY <1>1 DEF QueueIsWaiters
<1>3. ASSUME NEW q \in Requests PROVE req'[q].phase = "waiting" <=> Waiting(q)'
  <2>1. ASSUME NEW i \in 1..(n - 1), queue'[i] = q PROVE Waiting(q) /\ q # queue[k]
    <3>1. CASE i < k
      BY <2>1, <3>1, <1>1, <1>2 DEF Waiting
    <3>2. CASE ~(i < k)
      <4>1. i + 1 \in 1..n /\ i + 1 # k /\ queue[i + 1] = q
        BY <2>1, <3>2, <1>1
      <4> QED BY <4>1, <1>1, <1>2 DEF Waiting
    <3> QED BY <3>1, <3>2
  <2>2. ASSUME NEW i \in 1..n, queue[i] = q, i # k PROVE Waiting(q)'
    <3>1. CASE i < k
      <4>1. i \in 1..(n - 1) /\ queue'[i] = q
        BY <2>2, <3>1, <1>1
      <4> QED BY <4>1, <1>1 DEF Waiting
    <3>2. CASE ~(i < k)
      <4>1. i - 1 \in 1..(n - 1) /\ ~(i - 1 < k) /\ (i - 1) + 1 = i
        BY <2>2, <3>2, <1>1
      <4>2. queue'[i - 1] = q
        BY <2>2, <4>1
      <4> QED BY <4>1, <4>2, <1>1 DEF Waiting
    <3> QED BY <3>1, <3>2
  <2>3. Waiting(q)' => Waiting(q) /\ q # queue[k]
    BY <2>1, <1>1 DEF Waiting
  <2>4. Waiting(q) /\ q # queue[k] => Waiting(q)'
    BY <2>2, <1>1 DEF Waiting
  <2> QED BY <2>3, <2>4 DEF QueueIsWaiters
<1>4. ASSUME NEW i \in 1..(n - 1), NEW j \in 1..(n - 1), queue'[i] = queue'[j] PROVE i = j
  <2> DEFINE At(x) == IF x < k THEN x ELSE x + 1
  <2>1. At(i) \in 1..n /\ At(j) \in 1..n /\ queue[At(i)] = queue[At(j)]
    BY <1>1, <1>4
  <2>2. At(i) = At(j)
    BY <2>1, <1>2
  <2> QED BY <2>2
<1> QED BY <1>1, <1>3, <1>4 DEF QueueIsWaiters

\* A worker that ends, in whatever way, gives its slot back.
LEMMA WorkerEnds ==
  ASSUME SlotInv, NEW r \in Working, NEW new,
         DOMAIN new = {"phase", "sub", "arrived", "clock", "verdict", "with"},
         new = [f \in DOMAIN new |-> new[f]],
         new.phase \in {"answered", "failed", "gone"},
         req' = [req EXCEPT ![r] = new], free' = free + 1, queue' = queue
  PROVE  SlotInv'
<1>1. r \in Requests /\ new.phase \in Phase
  BY DEF Working, Phase
<1>2. /\ RequestShape' /\ req'[r] = new
      /\ \A q \in Requests \ {r} : req'[q] = req[q]
  BY <1>1, OneRequest DEF SlotInv
<1>3. Working' = Working \ {r}
  BY <1>1, <1>2 DEF Working
<1>4. SlotsConserved'
  BY <1>3, Leaves
<1>5. QueueIsWaiters'
  <2>1. \A q \in Requests : req'[q].phase = "waiting" <=> req[q].phase = "waiting"
    BY <1>2 DEF Working
  <2> QED BY <2>1, SameQueue DEF SlotInv
<1> QED BY <1>2, <1>4, <1>5 DEF SlotInv

\* Joining the queue takes no slot.
LEMMA ArriveKeeps ==
  ASSUME SlotInv, NEW r \in Requests, NEW sub \in Submissions, Arrive(r, sub)
  PROVE  SlotInv'
<1> DEFINE new == [req[r] EXCEPT !.phase = "waiting", !.sub = sub, !.arrived = now]
<1>1. /\ DOMAIN new = {"phase", "sub", "arrived", "clock", "verdict", "with"}
      /\ new = [f \in DOMAIN new |-> new[f]]
      /\ new.phase = "waiting"
  BY DEF SlotInv, RequestShape
<1>2. req' = [req EXCEPT ![r] = new]
  BY DEF Arrive
<1> HIDE DEF new
<1>3. /\ RequestShape' /\ req'[r] = new
      /\ \A q \in Requests \ {r} : req'[q] = req[q]
  BY <1>1, <1>2, OneRequest DEF SlotInv, Phase
<1>4. Working' = Working
  BY <1>1, <1>3 DEF Working, Arrive
<1>5. queue' \in Seq(Requests) /\ QueueIsWaiters'
  <2>1. \A q \in Requests : req'[q].phase = "waiting" <=> req[q].phase = "waiting" \/ q = r
    BY <1>1, <1>3
  <2> QED BY <2>1, JoinQueue DEF SlotInv, Arrive
<1> QED BY <1>3, <1>4, <1>5 DEF SlotInv, SlotsConserved, Arrive

\* The head of the queue leaves it and takes a slot; it was not working before.
LEMMA AcquireKeeps ==
  ASSUME SlotInv, Acquire
  PROVE  SlotInv'
<1> DEFINE r == queue[1]
           new == [req[r] EXCEPT !.phase = "replaying", !.clock = now]
<1>1. /\ queue \in Seq(Requests) /\ 1 \in 1..Len(queue) /\ r \in Requests
      /\ Head(queue) = r
  BY DEF SlotInv, Acquire
<1>2. req[r].phase = "waiting"
  BY <1>1 DEF SlotInv, QueueIsWaiters, Waiting
<1>3. /\ DOMAIN new = {"phase", "sub", "arrived", "clock", "verdict", "with"}
      /\ new = [f \in DOMAIN new |-> new[f]]
      /\ new.phase = "replaying"
  BY <1>1 DEF SlotInv, RequestShape
<1>4. req' = [req EXCEPT ![r] = new]
  BY <1>1 DEF Acquire
<1> HIDE DEF new
<1>5. /\ RequestShape' /\ req'[r] = new
      /\ \A q \in Requests \ {r} : req'[q] = req[q]
  BY <1>1, <1>3, <1>4, OneRequest DEF SlotInv, Phase
<1>6. r \notin Working /\ Working' = Working \cup {r}
  BY <1>1, <1>2, <1>3, <1>5 DEF Working
<1>7. SlotsConserved'
  BY <1>1, <1>6, Enters DEF Acquire
<1>8. /\ queue' \in Seq(Requests) /\ Len(queue') = Len(queue) - 1
      /\ \A i \in 1..(Len(queue) - 1) : queue'[i] = IF i < 1 THEN queue[i] ELSE queue[i + 1]
  BY <1>1 DEF Acquire
<1>9. QueueIsWaiters'
  <2>1. \A q \in Requests :
          req'[q].phase = "waiting" <=> req[q].phase = "waiting" /\ q # queue[1]
    BY <1>3, <1>5
  <2> QED BY <2>1, <1>1, <1>8, QuitQueue DEF SlotInv
<1> QED BY <1>5, <1>7, <1>8, <1>9 DEF SlotInv, Acquire

Without(q, k) == SubSeq(q, 1, k - 1) \o SubSeq(q, k + 1, Len(q))

\* Taking the k-th element out of a sequence closes the gap.
LEMMA TakenOut ==
  ASSUME NEW S, NEW q \in Seq(S), NEW k \in 1..Len(q)
  PROVE  /\ Without(q, k) \in Seq(S) /\ Len(Without(q, k)) = Len(q) - 1
         /\ \A i \in 1..(Len(q) - 1) :
              Without(q, k)[i] = IF i < k THEN q[i] ELSE q[i + 1]
<1> DEFINE s == SubSeq(q, 1, k - 1)
           t == SubSeq(q, k + 1, Len(q))
           rest == Without(q, k)
<1>1. Len(q) \in Nat
  OBVIOUS
<1>2. /\ s \in Seq(S) /\ Len(s) = k - 1
      /\ \A i \in 1..(k - 1) : s[i] = q[i]
  BY <1>1
<1>3. /\ t \in Seq(S) /\ Len(t) = Len(q) - k
      /\ \A i \in 1..(Len(q) - k) : t[i] = q[i + k]
  BY <1>1
<1> HIDE DEF s, t
<1>4. rest = s \o t
  BY DEF s, t, Without
<1> HIDE DEF rest
<1>5. /\ rest \in Seq(S) /\ Len(rest) = Len(s) + Len(t)
      /\ \A i \in 1..Len(s) : rest[i] = s[i]
      /\ \A i \in (Len(s) + 1)..(Len(s) + Len(t)) : rest[i] = t[i - Len(s)]
  <2>1. s \in Seq(S) /\ t \in Seq(S)
    BY <1>2, <1>3
  <2>2. /\ s \o t \in Seq(S) /\ Len(s \o t) = Len(s) + Len(t)
        /\ \A i \in 1..Len(s) : (s \o t)[i] = s[i]
        /\ \A i \in (Len(s) + 1)..(Len(s) + Len(t)) : (s \o t)[i] = t[i - Len(s)]
    BY <2>1, Joined, Zenon
  <2> QED BY <2>2, <1>4, Zenon
<1>6. Len(rest) = Len(q) - 1
  <2>1. Len(rest) = Len(s) + Len(t) /\ Len(s) = k - 1 /\ Len(t) = Len(q) - k
    BY <1>2, <1>3, <1>5, Zenon
  <2>2. k \in Int /\ Len(q) \in Int
    BY <1>1
  <2>3. \A a, b \in Int : (a - 1) + (b - a) = b - 1
    OBVIOUS
  <2>4. Len(rest) = (k - 1) + (Len(q) - k)
    BY <2>1, Zenon
  <2> QED BY <2>2, <2>3, <2>4, Zenon
<1>7. ASSUME NEW i \in 1..(Len(q) - 1)
      PROVE  rest[i] = IF i < k THEN q[i] ELSE q[i + 1]
  <2>2. CASE i < k
    <3>1. i \in 1..(k - 1) /\ i \in 1..Len(s)
      BY <2>2, <1>1, <1>2
    <3> QED BY <2>2, <3>1, <1>2, <1>5
  <2>3. CASE ~(i < k)
    <3>1. i - (k - 1) \in 1..(Len(q) - k) /\ (i - (k - 1)) + k = i + 1
      BY <2>3, <1>1
    <3>2. i \in (Len(s) + 1)..(Len(s) + Len(t)) /\ i - Len(s) = i - (k - 1)
      BY <2>3, <1>1, <1>2, <1>3
    <3>3. rest[i] = t[i - (k - 1)]
      BY <3>2, <1>5
    <3>4. t[i - (k - 1)] = q[(i - (k - 1)) + k]
      BY <3>1, <1>3
    <3> QED BY <2>3, <3>1, <3>3, <3>4
  <2> QED BY <2>2, <2>3
<1> QED BY <1>5, <1>6, <1>7 DEF rest

\* A client that hangs up while waiting leaves a queue without gap.
LEMMA LeaveQueueKeeps ==
  ASSUME SlotInv, NEW r \in Requests, LeaveQueue(r)
  PROVE  SlotInv'
<1> DEFINE new == [req[r] EXCEPT !.phase = "gone"]
<1>1. /\ DOMAIN new = {"phase", "sub", "arrived", "clock", "verdict", "with"}
      /\ new = [f \in DOMAIN new |-> new[f]]
      /\ new.phase = "gone"
  BY DEF SlotInv, RequestShape
<1>2. req' = [req EXCEPT ![r] = new]
  BY DEF LeaveQueue
<1> HIDE DEF new
<1>3. /\ RequestShape' /\ req'[r] = new
      /\ \A q \in Requests \ {r} : req'[q] = req[q]
  BY <1>1, <1>2, OneRequest DEF SlotInv, Phase
<1>4. Working' = Working
  BY <1>1, <1>3 DEF Working, LeaveQueue
<1>5. PICK k \in DOMAIN queue :
        /\ queue[k] = r
        /\ queue' = SubSeq(queue, 1, k - 1) \o SubSeq(queue, k + 1, Len(queue))
  BY DEF LeaveQueue
<1>6. /\ k \in 1..Len(queue)
      /\ queue' \in Seq(Requests) /\ Len(queue') = Len(queue) - 1
      /\ \A i \in 1..(Len(queue) - 1) : queue'[i] = IF i < k THEN queue[i] ELSE queue[i + 1]
  <2>1. queue \in Seq(Requests) /\ k \in 1..Len(queue)
    BY DEF SlotInv
  <2>2. queue' = Without(queue, k)
    BY <1>5 DEF Without
  <2>3. /\ Without(queue, k) \in Seq(Requests)
        /\ Len(Without(queue, k)) = Len(queue) - 1
        /\ \A i \in 1..(Len(queue) - 1) :
             Without(queue, k)[i] = IF i < k THEN queue[i] ELSE queue[i + 1]
    BY <2>1, TakenOut, Zenon
  <2> QED BY <2>1, <2>2, <2>3, Zenon
<1>7. QueueIsWaiters'
  <2>1. \A q \in Requests :
          req'[q].phase = "waiting" <=> req[q].phase = "waiting" /\ q # queue[k]
    BY <1>1, <1>3, <1>5
  <2> QED BY <2>1, <1>6, QuitQueue DEF SlotInv
<1> QED BY <1>3, <1>4, <1>6, <1>7 DEF SlotInv, SlotsConserved, LeaveQueue

\* A client that hangs up during its replay leaves the slot with the worker.
LEMMA AbandonKeeps ==
  ASSUME SlotInv, NEW r \in Requests, Abandon(r)
  PROVE  SlotInv'
<1> DEFINE new == [req[r] EXCEPT !.phase = "orphan"]
<1>1. /\ DOMAIN new = {"phase", "sub", "arrived", "clock", "verdict", "with"}
      /\ new = [f \in DOMAIN new |-> new[f]]
      /\ new.phase = "orphan"
  BY DEF SlotInv, RequestShape
<1>2. req' = [req EXCEPT ![r] = new]
  BY DEF Abandon
<1> HIDE DEF new
<1>3. /\ RequestShape' /\ req'[r] = new
      /\ \A q \in Requests \ {r} : req'[q] = req[q]
  BY <1>1, <1>2, OneRequest DEF SlotInv, Phase
<1>4. Working' = Working
  BY <1>1, <1>3 DEF Working, Abandon
<1>5. QueueIsWaiters'
  <2>1. \A q \in Requests : req'[q].phase = "waiting" <=> req[q].phase = "waiting"
    BY <1>1, <1>3 DEF Abandon
  <2> QED BY <2>1, SameQueue DEF SlotInv, Abandon
<1> QED BY <1>3, <1>4, <1>5 DEF SlotInv, SlotsConserved, Abandon

\* A worker that decides gives its slot back, whether the client is there or not.
LEMMA DecideKeeps ==
  ASSUME SlotInv, NEW r \in Requests, Decide(r)
  PROVE  SlotInv'
<1> DEFINE new == [req[r] EXCEPT
                     !.phase = IF req[r].phase = "orphan" THEN "gone" ELSE "answered",
                     !.verdict = IF req[r].phase = "orphan" THEN NoVerdict
                                 ELSE Verdict(req[r].sub, retained, req[r].clock),
                     !.with = retained]
<1>1. /\ DOMAIN new = {"phase", "sub", "arrived", "clock", "verdict", "with"}
      /\ new = [f \in DOMAIN new |-> new[f]]
      /\ new.phase \in {"answered", "failed", "gone"}
  BY DEF SlotInv, RequestShape
<1>2. req' = [req EXCEPT ![r] = new]
  BY DEF Decide, SlotInv, RequestShape
<1> HIDE DEF new
<1> QED BY <1>1, <1>2, WorkerEnds DEF Decide

\* So does one that panics.
LEMMA FailKeeps ==
  ASSUME SlotInv, NEW r \in Requests, Fail(r)
  PROVE  SlotInv'
<1> DEFINE new == [req[r] EXCEPT
                     !.phase = IF req[r].phase = "orphan" THEN "gone" ELSE "failed"]
<1>1. /\ DOMAIN new = {"phase", "sub", "arrived", "clock", "verdict", "with"}
      /\ new = [f \in DOMAIN new |-> new[f]]
      /\ new.phase \in {"answered", "failed", "gone"}
  BY DEF SlotInv, RequestShape
<1>2. req' = [req EXCEPT ![r] = new]
  BY DEF Fail, SlotInv, RequestShape
<1> HIDE DEF new
<1> QED BY <1>1, <1>2, WorkerEnds DEF Fail

\* After a restart nobody waits and nobody replays.
LEMMA RestartKeeps ==
  ASSUME SlotInv, Restart
  PROVE  SlotInv'
<1>1. ASSUME NEW q \in Requests
      PROVE  /\ DOMAIN req'[q] = {"phase", "sub", "arrived", "clock", "verdict", "with"}
             /\ req'[q] = [f \in DOMAIN req'[q] |-> req'[q][f]]
             /\ req'[q].phase \in {"idle", "answered", "failed", "gone"}
  <2>1. CASE req[q].phase \in {"waiting", "replaying", "orphan"}
    BY <2>1 DEF Restart, SlotInv, RequestShape
  <2>2. CASE req[q].phase \notin {"waiting", "replaying", "orphan"}
    BY <2>2 DEF Restart, SlotInv, RequestShape, Phase
  <2> QED BY <2>1, <2>2
<1>2. RequestShape'
  BY <1>1 DEF Restart, RequestShape, Phase
<1>3. Working' = {}
  BY <1>1 DEF Working
<1>4. SlotsConserved'
  BY <1>3, FS_EmptySet, SlotsAssumption DEF SlotsConserved, Restart
<1>5. QueueIsWaiters'
  BY <1>1 DEF QueueIsWaiters, Waiting, Restart
<1> QED BY <1>2, <1>4, <1>5, SlotsAssumption DEF SlotInv, Restart

\* All slots are free and nobody waits at first.
LEMMA InitHolds == Init => SlotInv
<1> SUFFICES ASSUME Init PROVE SlotInv
  OBVIOUS
<1>1. RequestShape
  <2>1. /\ DOMAIN Idle = {"phase", "sub", "arrived", "clock", "verdict", "with"}
        /\ Idle = [f \in DOMAIN Idle |-> Idle[f]]
        /\ Idle.phase \in Phase
    BY DEF Idle, Phase
  <2> QED BY <2>1 DEF Init, RequestShape
<1>2. Working = {}
  BY DEF Init, Working, Idle
<1>3. SlotsConserved
  BY <1>2, FS_EmptySet, SlotsAssumption DEF SlotsConserved, Init
<1>4. QueueIsWaiters
  BY DEF QueueIsWaiters, Waiting, Init, Idle
<1> QED BY <1>1, <1>3, <1>4, SlotsAssumption DEF SlotInv, Init

\* The invariant holds in every state.
LEMMA SlotInvariant == Spec => []SlotInv
<1>1. SlotInv /\ [Next]_vars => SlotInv'
  <2> SUFFICES ASSUME SlotInv, [Next]_vars PROVE SlotInv'
    OBVIOUS
  <2>1. CASE \E r \in Requests : \E sub \in Submissions : Arrive(r, sub)
    BY <2>1, ArriveKeeps
  <2>2. CASE \E r \in Requests : Decide(r)
    BY <2>2, DecideKeeps
  <2>3. CASE \E r \in Requests : Fail(r)
    BY <2>3, FailKeeps
  <2>4. CASE \E r \in Requests : LeaveQueue(r)
    BY <2>4, LeaveQueueKeeps
  <2>5. CASE \E r \in Requests : Abandon(r)
    BY <2>5, AbandonKeeps
  <2>6. CASE Acquire
    BY <2>6, AcquireKeeps
  <2>7. CASE Restart
    BY <2>7, RestartKeeps
  <2>8. CASE Tick \/ UNCHANGED vars
    <3>1. req' = req /\ queue' = queue /\ free' = free
      BY <2>8 DEF Tick, vars
    <3>2. RequestShape' /\ Working' = Working
      BY <3>1 DEF SlotInv, RequestShape, Working
    <3>3. QueueIsWaiters' /\ SlotsConserved'
      BY <3>1, <3>2 DEF SlotInv, QueueIsWaiters, Waiting, SlotsConserved
    <3> QED BY <3>1, <3>2, <3>3 DEF SlotInv
  <2> QED BY <2>1, <2>2, <2>3, <2>4, <2>5, <2>6, <2>7, <2>8 DEF Next
<1> QED BY <1>1, InitHolds, PTL DEF Spec

\* The verifier neither loses nor invents a replay slot, and its queue holds exactly
\* the clients that wait, for any number of slots and requests, through panics,
\* hang-ups and restarts.
THEOREM SlotsSafe == Spec => []SlotsAreShared
  BY SlotInvariant, PTL DEF SlotInv, SlotsAreShared

------------------------------------------------------------------------------
(* Verdicts *)


Reasons ==
  {"InvalidAuthorization", "RunIdMismatch", "AuthorizationExpired", "UnknownModel",
   "UnknownPolicy", "CatalogUnavailable", "UnknownDataPack", "ArtifactDigestMismatch",
   "ReceiptMismatch", "OutputMismatch", "TelemetryMismatch", "ReplayMismatch"}

CheckSet == [check : Faults("run") \cup Faults("attempt"), reason : Reasons]

Names(checks) == {checks[i].check : i \in 1..Len(checks)}

Checks(kind) == IF kind = "attempt" THEN AttemptChecks ELSE RunChecks

AuthorizationNames == {"audience", "key", "validity", "runId", "signature", "time"}

------------------------------------------------------------------------------
(* The lists of checks *)

\* Two lists after each other ask what either asks.
LEMMA NamesJoin ==
  ASSUME NEW s \in Seq(CheckSet), NEW t \in Seq(CheckSet)
  PROVE  Names(s \o t) = Names(s) \cup Names(t)
<1>1. ASSUME NEW n \in Names(s \o t) PROVE n \in Names(s) \cup Names(t)
  <2>1. PICK i \in 1..Len(s \o t) : n = (s \o t)[i].check
    BY <1>1 DEF Names
  <2>2. CASE i \in 1..Len(s)
    BY <2>1, <2>2, Joined DEF Names
  <2>3. CASE i \in (Len(s) + 1)..(Len(s) + Len(t))
    <3>1. i - Len(s) \in 1..Len(t) /\ (s \o t)[i] = t[i - Len(s)]
      BY <2>3, Joined
    <3> QED BY <2>1, <3>1 DEF Names
  <2> QED BY <2>1, <2>2, <2>3, Joined
<1>2. ASSUME NEW n \in Names(s) PROVE n \in Names(s \o t)
  <2>1. PICK i \in 1..Len(s) : n = s[i].check
    BY <1>2 DEF Names
  <2>2. i \in 1..Len(s \o t) /\ (s \o t)[i] = s[i]
    BY <2>1, Joined
  <2> QED BY <2>1, <2>2 DEF Names
<1>3. ASSUME NEW n \in Names(t) PROVE n \in Names(s \o t)
  <2>1. PICK i \in 1..Len(t) : n = t[i].check
    BY <1>3 DEF Names
  <2> DEFINE j == i + Len(s)
  <2>2. j \in (Len(s) + 1)..(Len(s) + Len(t)) /\ j - Len(s) = i
    BY <2>1
  <2>3. j \in 1..Len(s \o t) /\ (s \o t)[j] = t[j - Len(s)]
    BY <2>2, Joined
  <2> QED BY <2>1, <2>2, <2>3 DEF Names
<1> QED BY <1>1, <1>2, <1>3

\* The keyring's checks.
LEMMA AuthorizationList ==
  /\ AuthorizationChecks \in Seq(CheckSet) /\ Len(AuthorizationChecks) = 6
  /\ Names(AuthorizationChecks) = {"audience", "key", "validity", "runId", "signature", "time"}
<1> DEFINE a == Check("audience", "InvalidAuthorization")
           b == Check("key", "InvalidAuthorization")
           c == Check("validity", "InvalidAuthorization")
           d == Check("runId", "RunIdMismatch")
           e == Check("signature", "InvalidAuthorization")
           f == Check("time", "AuthorizationExpired")
<1>1. /\ a \in CheckSet /\ a.check = "audience"
      /\ b \in CheckSet /\ b.check = "key"
      /\ c \in CheckSet /\ c.check = "validity"
      /\ d \in CheckSet /\ d.check = "runId"
      /\ e \in CheckSet /\ e.check = "signature"
      /\ f \in CheckSet /\ f.check = "time"
  BY DEF Check, CheckSet, Faults, Reasons
<1>2. AuthorizationChecks = <<a, b, c, d, e, f>>
  BY DEF AuthorizationChecks
<1> HIDE DEF a, b, c, d, e, f
<1>3. <<a, b, c, d, e, f>> \in Seq(CheckSet) /\ Len(<<a, b, c, d, e, f>>) = 6
  BY <1>1
<1>4. {<<a, b, c, d, e, f>>[i].check : i \in 1..6} = {"audience", "key", "validity", "runId", "signature", "time"}
  <2>1. 1..6 = {1, 2, 3, 4, 5, 6}
    OBVIOUS
  <2> QED BY <1>1, <2>1
<1> QED BY <1>2, <1>3, <1>4 DEF Names

\* The lookups of what a run rests on.
LEMMA ResourceList ==
  /\ ResourceChecks \in Seq(CheckSet) /\ Len(ResourceChecks) = 7
  /\ Names(ResourceChecks) = {"shape", "model", "policy", "catalog", "dataPack", "resolution", "input"}
<1> DEFINE a == Check("shape", "InvalidAuthorization")
           b == Check("model", "UnknownModel")
           c == Check("policy", "UnknownPolicy")
           d == Check("catalog", "CatalogUnavailable")
           e == Check("dataPack", "UnknownDataPack")
           f == Check("resolution", "ArtifactDigestMismatch")
           g == Check("input", "ArtifactDigestMismatch")
<1>1. /\ a \in CheckSet /\ a.check = "shape"
      /\ b \in CheckSet /\ b.check = "model"
      /\ c \in CheckSet /\ c.check = "policy"
      /\ d \in CheckSet /\ d.check = "catalog"
      /\ e \in CheckSet /\ e.check = "dataPack"
      /\ f \in CheckSet /\ f.check = "resolution"
      /\ g \in CheckSet /\ g.check = "input"
  BY DEF Check, CheckSet, Faults, Reasons
<1>2. ResourceChecks = <<a, b, c, d, e, f, g>>
  BY DEF ResourceChecks
<1> HIDE DEF a, b, c, d, e, f, g
<1>3. <<a, b, c, d, e, f, g>> \in Seq(CheckSet) /\ Len(<<a, b, c, d, e, f, g>>) = 7
  BY <1>1
<1>4. {<<a, b, c, d, e, f, g>>[i].check : i \in 1..7} = {"shape", "model", "policy", "catalog", "dataPack", "resolution", "input"}
  <2>1. 1..7 = {1, 2, 3, 4, 5, 6, 7}
    OBVIOUS
  <2> QED BY <1>1, <2>1
<1> QED BY <1>2, <1>3, <1>4 DEF Names

\* The comparisons of the submitted artifacts.
LEMMA EvidenceList ==
  /\ EvidenceChecks \in Seq(CheckSet) /\ Len(EvidenceChecks) = 3
  /\ Names(EvidenceChecks) = {"receipt", "outputDigest", "telemetryDigest"}
<1> DEFINE a == Check("receipt", "ReceiptMismatch")
           b == Check("outputDigest", "OutputMismatch")
           c == Check("telemetryDigest", "TelemetryMismatch")
<1>1. /\ a \in CheckSet /\ a.check = "receipt"
      /\ b \in CheckSet /\ b.check = "outputDigest"
      /\ c \in CheckSet /\ c.check = "telemetryDigest"
  BY DEF Check, CheckSet, Faults, Reasons
<1>2. EvidenceChecks = <<a, b, c>>
  BY DEF EvidenceChecks
<1> HIDE DEF a, b, c
<1>3. <<a, b, c>> \in Seq(CheckSet) /\ Len(<<a, b, c>>) = 3
  BY <1>1
<1>4. {<<a, b, c>>[i].check : i \in 1..3} = {"receipt", "outputDigest", "telemetryDigest"}
  <2>1. 1..3 = {1, 2, 3}
    OBVIOUS
  <2> QED BY <1>1, <2>1
<1> QED BY <1>2, <1>3, <1>4 DEF Names

\* The comparisons with the replay.
LEMMA ReplayList ==
  /\ ReplayChecks \in Seq(CheckSet) /\ Len(ReplayChecks) = 3
  /\ Names(ReplayChecks) = {"replay", "output", "telemetry"}
<1> DEFINE a == Check("replay", "ReplayMismatch")
           b == Check("output", "OutputMismatch")
           c == Check("telemetry", "TelemetryMismatch")
<1>1. /\ a \in CheckSet /\ a.check = "replay"
      /\ b \in CheckSet /\ b.check = "output"
      /\ c \in CheckSet /\ c.check = "telemetry"
  BY DEF Check, CheckSet, Faults, Reasons
<1>2. ReplayChecks = <<a, b, c>>
  BY DEF ReplayChecks
<1> HIDE DEF a, b, c
<1>3. <<a, b, c>> \in Seq(CheckSet) /\ Len(<<a, b, c>>) = 3
  BY <1>1
<1>4. {<<a, b, c>>[i].check : i \in 1..3} = {"replay", "output", "telemetry"}
  <2>1. 1..3 = {1, 2, 3}
    OBVIOUS
  <2> QED BY <1>1, <2>1
<1> QED BY <1>2, <1>3, <1>4 DEF Names

\* The derivation of an attempt's final contract.
LEMMA EnvelopeList ==
  /\ EnvelopeChecks \in Seq(CheckSet) /\ Len(EnvelopeChecks) = 2
  /\ Names(EnvelopeChecks) = {"profile", "envelope"}
<1> DEFINE a == Check("profile", "UnknownDataPack")
           b == Check("envelope", "InvalidAuthorization")
<1>1. /\ a \in CheckSet /\ a.check = "profile"
      /\ b \in CheckSet /\ b.check = "envelope"
  BY DEF Check, CheckSet, Faults, Reasons
<1>2. EnvelopeChecks = <<a, b>>
  BY DEF EnvelopeChecks
<1> HIDE DEF a, b
<1>3. <<a, b>> \in Seq(CheckSet) /\ Len(<<a, b>>) = 2
  BY <1>1
<1>4. {<<a, b>>[i].check : i \in 1..2} = {"profile", "envelope"}
  <2>1. 1..2 = {1, 2}
    OBVIOUS
  <2> QED BY <1>1, <2>1
<1> QED BY <1>2, <1>3, <1>4 DEF Names

\* The lookup of the replay's workload.
LEMMA WorkloadList ==
  LET w == <<Check("workload", "UnknownModel")>> IN
  w \in Seq(CheckSet) /\ Len(w) = 1 /\ Names(w) = {"workload"}
<1> DEFINE a == Check("workload", "UnknownModel")
<1>1. a \in CheckSet /\ a.check = "workload"
  BY DEF Check, CheckSet, Faults, Reasons
<1> HIDE DEF a
<1>2. <<a>> \in Seq(CheckSet) /\ Len(<<a>>) = 1
  BY <1>1
<1>3. {<<a>>[i].check : i \in 1..1} = {"workload"}
  BY <1>1
<1>4. <<a>> \in Seq(CheckSet) /\ Len(<<a>>) = 1 /\ Names(<<a>>) = {"workload"}
  BY <1>2, <1>3 DEF Names
<1> QED BY <1>4 DEF a

\* A list of checks that begins with the keyring's.
Leads(s) ==
  /\ s \in Seq(CheckSet) /\ Len(s) >= 6
  /\ \A i \in 1..6 : s[i] = AuthorizationChecks[i]

\* More checks behind such a list.
LEMMA Grow ==
  ASSUME NEW s, NEW t \in Seq(CheckSet), Leads(s)
  PROVE  Leads(s \o t) /\ Len(s \o t) = Len(s) + Len(t) /\ Names(s \o t) = Names(s) \cup Names(t)
<1>1. s \in Seq(CheckSet) /\ Len(s) >= 6 /\ \A i \in 1..6 : s[i] = AuthorizationChecks[i]
  BY DEF Leads
<1>2. /\ s \o t \in Seq(CheckSet) /\ Len(s \o t) = Len(s) + Len(t)
      /\ \A i \in 1..Len(s) : (s \o t)[i] = s[i]
  BY <1>1, Joined
<1>3. \A i \in 1..6 : i \in 1..Len(s)
  BY <1>1
<1>4. \A i \in 1..6 : (s \o t)[i] = AuthorizationChecks[i]
  BY <1>1, <1>2, <1>3, Zenon
<1>5. Names(s \o t) = Names(s) \cup Names(t)
  BY <1>1, NamesJoin
<1>6. Len(s \o t) >= 6
  BY <1>1, <1>2
<1> QED BY <1>2, <1>4, <1>5, <1>6 DEF Leads

\* What both kinds are asked first.
LEMMA CommonList ==
  /\ Leads(AuthorizationChecks \o ResourceChecks)
  /\ Len(AuthorizationChecks \o ResourceChecks) = 13
  /\ Names(AuthorizationChecks \o ResourceChecks)
       = Names(AuthorizationChecks) \cup Names(ResourceChecks)
<1>1. Leads(AuthorizationChecks)
  BY AuthorizationList DEF Leads
<1>2. ResourceChecks \in Seq(CheckSet)
  BY ResourceList
<1>3. /\ Leads(AuthorizationChecks \o ResourceChecks)
      /\ Len(AuthorizationChecks \o ResourceChecks)
           = Len(AuthorizationChecks) + Len(ResourceChecks)
      /\ Names(AuthorizationChecks \o ResourceChecks)
           = Names(AuthorizationChecks) \cup Names(ResourceChecks)
  BY <1>1, <1>2, Grow, Zenon
<1>4. Len(AuthorizationChecks) + Len(ResourceChecks) = 13
  BY AuthorizationList, ResourceList
<1>5. Len(AuthorizationChecks \o ResourceChecks) = 13
  BY <1>3, <1>4, Zenon
<1> QED BY <1>3, <1>5, Zenon

\* All checks of verify(): every fault a run can have is looked for, and the keyring
\* is asked first.
LEMMA RunList == Leads(RunChecks) /\ Len(RunChecks) = 20 /\ Names(RunChecks) = Faults("run")
<1> DEFINE w == <<Check("workload", "UnknownModel")>>
           p == AuthorizationChecks \o ResourceChecks
           q == p \o EvidenceChecks
           r == q \o w
<1>1. RunChecks = r \o ReplayChecks
  BY DEF RunChecks
<1>2. w \in Seq(CheckSet) /\ Len(w) = 1 /\ Names(w) = {"workload"}
  BY WorkloadList
<1>3. Leads(p) /\ Len(p) = 13 /\ Names(p) = Names(AuthorizationChecks) \cup Names(ResourceChecks)
  BY CommonList
<1> HIDE DEF w, p
<1>4. Leads(q) /\ Len(q) = 16 /\ Names(q) = Names(p) \cup Names(EvidenceChecks)
  <2>1. EvidenceChecks \in Seq(CheckSet)
    BY EvidenceList
  <2>2. Leads(q) /\ Len(q) = Len(p) + Len(EvidenceChecks) /\ Names(q) = Names(p) \cup Names(EvidenceChecks)
    BY <1>3, <2>1, Grow, Zenon
  <2> QED BY <1>3, <2>2, EvidenceList
<1> HIDE DEF q
<1>5. Leads(r) /\ Len(r) = 17 /\ Names(r) = Names(q) \cup Names(w)
  <2>1. w \in Seq(CheckSet)
    BY <1>2
  <2>2. Leads(r) /\ Len(r) = Len(q) + Len(w) /\ Names(r) = Names(q) \cup Names(w)
    BY <1>4, <2>1, Grow, Zenon
  <2> QED BY <1>4, <2>2, <1>2
<1> HIDE DEF r
<1>6. Leads(RunChecks) /\ Len(RunChecks) = 20 /\ Names(RunChecks) = Names(r) \cup Names(ReplayChecks)
  <2>1. ReplayChecks \in Seq(CheckSet)
    BY ReplayList
  <2>2. Leads(RunChecks) /\ Len(RunChecks) = Len(r) + Len(ReplayChecks) /\ Names(RunChecks) = Names(r) \cup Names(ReplayChecks)
    BY <1>1, <1>5, <2>1, Grow, Zenon
  <2> QED BY <1>5, <2>2, ReplayList
<1>7. Names(RunChecks) = Faults("run")
  BY <1>2, <1>3, <1>4, <1>5, <1>6, AuthorizationList, ResourceList, EvidenceList, ReplayList
     DEF Faults
<1> QED BY <1>6, <1>7

\* All checks of verify_attempt().
LEMMA AttemptList ==
  /\ Leads(AttemptChecks) /\ Len(AttemptChecks) = 21 /\ Names(AttemptChecks) = Faults("attempt")
  /\ Len(AuthorizationChecks \o ResourceChecks \o EnvelopeChecks) = 15
<1> DEFINE p == AuthorizationChecks \o ResourceChecks
           q == p \o EnvelopeChecks
           r == q \o EvidenceChecks
<1>1. AttemptChecks = r \o ReplayChecks
  BY DEF AttemptChecks
<1>2. q = AuthorizationChecks \o ResourceChecks \o EnvelopeChecks
  OBVIOUS
<1>3. Leads(p) /\ Len(p) = 13 /\ Names(p) = Names(AuthorizationChecks) \cup Names(ResourceChecks)
  BY CommonList
<1> HIDE DEF p
<1>4. Leads(q) /\ Len(q) = 15 /\ Names(q) = Names(p) \cup Names(EnvelopeChecks)
  <2>1. EnvelopeChecks \in Seq(CheckSet)
    BY EnvelopeList
  <2>2. Leads(q) /\ Len(q) = Len(p) + Len(EnvelopeChecks) /\ Names(q) = Names(p) \cup Names(EnvelopeChecks)
    BY <1>3, <2>1, Grow, Zenon
  <2> QED BY <1>3, <2>2, EnvelopeList
<1> HIDE DEF q
<1>5. Leads(r) /\ Len(r) = 18 /\ Names(r) = Names(q) \cup Names(EvidenceChecks)
  <2>1. EvidenceChecks \in Seq(CheckSet)
    BY EvidenceList
  <2>2. Leads(r) /\ Len(r) = Len(q) + Len(EvidenceChecks) /\ Names(r) = Names(q) \cup Names(EvidenceChecks)
    BY <1>4, <2>1, Grow, Zenon
  <2> QED BY <1>4, <2>2, EvidenceList
<1> HIDE DEF r
<1>6. Leads(AttemptChecks) /\ Len(AttemptChecks) = 21 /\ Names(AttemptChecks) = Names(r) \cup Names(ReplayChecks)
  <2>1. ReplayChecks \in Seq(CheckSet)
    BY ReplayList
  <2>2. Leads(AttemptChecks) /\ Len(AttemptChecks) = Len(r) + Len(ReplayChecks) /\ Names(AttemptChecks) = Names(r) \cup Names(ReplayChecks)
    BY <1>1, <1>5, <2>1, Grow, Zenon
  <2> QED BY <1>5, <2>2, ReplayList
<1>7. Names(AttemptChecks) = Faults("attempt")
  BY <1>3, <1>4, <1>5, <1>6, AuthorizationList, ResourceList, EvidenceList, ReplayList,
     EnvelopeList DEF Faults
<1> QED BY <1>2, <1>4, <1>6, <1>7 DEF Leads

\* Of either kind.
LEMMA ChecksOf ==
  ASSUME NEW kind \in {"run", "attempt"}
  PROVE  Leads(Checks(kind)) /\ Names(Checks(kind)) = Faults(kind)
  BY RunList, AttemptList DEF Checks

------------------------------------------------------------------------------
(* The decision *)

\* The places of the checks a submission does not pass.
Failed(sub, material, time) ==
  {i \in 1..Len(Checks(sub.kind)) : ~Passes(sub, Checks(sub.kind)[i].check, material, time)}

FirstFailed(sub, material, time) ==
  CHOOSE i \in Failed(sub, material, time) : \A j \in Failed(sub, material, time) : i <= j

\* The verdict, in these words.
LEMMA VerdictIs ==
  ASSUME NEW sub \in Submissions, NEW material, NEW time
  PROVE  LET checks == Checks(sub.kind)
             first == FirstFailed(sub, material, time)
         IN  Verdict(sub, material, time) =
               IF Failed(sub, material, time) = {}
               THEN [status |-> "Verified", reason |-> "none",
                     run |-> EchoedRun(sub, Len(checks)), at |-> time]
               ELSE [status |-> IF checks[first].check = "catalog" THEN "Pending" ELSE "Rejected",
                     reason |-> checks[first].reason, run |-> EchoedRun(sub, first), at |-> time]
<1>1. DOMAIN Checks(sub.kind) = 1..Len(Checks(sub.kind))
  BY ChecksOf, SubmissionsAssumption DEF Leads
<1> QED BY <1>1, Zenon DEF Verdict, Failed, FirstFailed, Checks

\* Verified: every check was passed.
LEMMA VerifiedMeans ==
  ASSUME NEW sub \in Submissions, NEW material, NEW time \in Nat,
         Verdict(sub, material, time).status = "Verified"
  PROVE  /\ sub.fails = {} /\ sub.receiptRun = sub.finalRun
         /\ Verdict(sub, material, time).run = sub.receiptRun
         /\ material.key /\ material.catalog[sub.kind]
         /\ time \in sub.issued..sub.deadline
         /\ Verdict(sub, material, time).at = time
<1> DEFINE checks == Checks(sub.kind)
           failed == Failed(sub, material, time)
<1>1. /\ sub.kind \in {"run", "attempt"} /\ sub.fails \subseteq Faults(sub.kind)
      /\ sub.issued \in Nat /\ sub.deadline \in Nat
  BY SubmissionsAssumption
<1>2. failed = {}
  BY VerdictIs
<1>3. /\ Verdict(sub, material, time).run = EchoedRun(sub, Len(checks))
      /\ Verdict(sub, material, time).at = time
  BY <1>2, VerdictIs
<1>4. ASSUME NEW n \in Faults(sub.kind) PROVE Passes(sub, n, material, time)
  <2>1. n \in Names(checks)
    BY <1>1, ChecksOf
  <2>2. PICK i \in 1..Len(checks) : n = checks[i].check
    BY <2>1 DEF Names
  <2> QED BY <1>2, <2>2 DEF Failed
<1>5. sub.fails = {}
  BY <1>1, <1>4 DEF Passes
<1>6. {"key", "catalog", "time", "receipt"} \subseteq Faults(sub.kind)
  BY DEF Faults
<1>7. /\ Passes(sub, "key", material, time) /\ Passes(sub, "catalog", material, time)
      /\ Passes(sub, "time", material, time) /\ Passes(sub, "receipt", material, time)
  BY <1>4, <1>6
<1>8. /\ sub.receiptRun = sub.finalRun /\ material.key /\ material.catalog[sub.kind]
      /\ sub.issued <= time /\ time <= sub.deadline
  BY <1>7 DEF Passes
<1>9. EchoedRun(sub, Len(checks)) = sub.finalRun
  <2>1. CASE sub.kind = "attempt"
    <3> DEFINE early == Len(AuthorizationChecks \o ResourceChecks \o EnvelopeChecks)
    <3>1. Len(checks) = 21 /\ early = 15
      BY <2>1, AttemptList, Zenon DEF Checks
    <3>2. ~(Len(checks) <= early)
      <4> HIDE DEF early, checks
      <4> QED BY <3>1
    <3> QED BY <2>1, <3>2, Zenon DEF EchoedRun
  <2>2. CASE sub.kind # "attempt"
    BY <1>5, <2>2, Zenon DEF EchoedRun
  <2> QED BY <2>1, <2>2
<1> QED BY <1>1, <1>3, <1>5, <1>8, <1>9

\* Pending: the first check that failed is the catalog's, so the keyring's were
\* passed.
LEMMA PendingMeans ==
  ASSUME NEW sub \in Submissions, NEW material, NEW time \in Nat,
         Verdict(sub, material, time).status = "Pending"
  PROVE  /\ sub.fails \cap AuthorizationNames = {}
         /\ material.key /\ time \in sub.issued..sub.deadline
         /\ "catalog" \in sub.fails \/ ~material.catalog[sub.kind]
         /\ Verdict(sub, material, time).at = time
<1> DEFINE checks == Checks(sub.kind)
           failed == Failed(sub, material, time)
           first == FirstFailed(sub, material, time)
<1>1. /\ sub.kind \in {"run", "attempt"} /\ sub.issued \in Nat /\ sub.deadline \in Nat
      /\ Leads(checks)
  BY SubmissionsAssumption, ChecksOf
<1>2. failed # {} /\ checks[first].check = "catalog" /\ Verdict(sub, material, time).at = time
  BY VerdictIs
<1>3. first \in failed /\ \A j \in failed : first <= j
  <2>1. failed \in SUBSET Nat
    BY DEF Failed
  <2>2. \E x \in failed : \A y \in failed : x <= y
    BY <1>2, <2>1, LeastNumber
  <2> QED BY <2>2 DEF FirstFailed
<1>4. first \in Nat /\ first \in 1..Len(checks) /\ ~Passes(sub, "catalog", material, time)
  BY <1>2, <1>3 DEF Failed
<1>5. first > 6
  <2> SUFFICES ASSUME first \in 1..6 PROVE FALSE
    BY <1>4
  <2>1. checks[first] = AuthorizationChecks[first]
    BY <1>1 DEF Leads
  <2>2. "catalog" \in Names(AuthorizationChecks)
    BY <1>2, <2>1, AuthorizationList DEF Names
  <2> QED BY <2>2, AuthorizationList
<1>6. ASSUME NEW n \in AuthorizationNames PROVE Passes(sub, n, material, time)
  <2>1. PICK i \in 1..6 : n = AuthorizationChecks[i].check
    BY AuthorizationList DEF Names, AuthorizationNames
  <2>2. i \in 1..Len(checks) /\ checks[i] = AuthorizationChecks[i]
    BY <1>1 DEF Leads
  <2>3. i \notin failed
    BY <1>3, <1>4, <1>5, <2>1
  <2> QED BY <2>1, <2>2, <2>3 DEF Failed
<1>7. sub.fails \cap AuthorizationNames = {}
  BY <1>6 DEF Passes
<1>8. Passes(sub, "key", material, time) /\ Passes(sub, "time", material, time)
  BY <1>6 DEF AuthorizationNames
<1>9. material.key /\ sub.issued <= time /\ time <= sub.deadline
  BY <1>8 DEF Passes
<1>10. "catalog" \in sub.fails \/ ~material.catalog[sub.kind]
  BY <1>4 DEF Passes
<1> QED BY <1>1, <1>2, <1>7, <1>9, <1>10

------------------------------------------------------------------------------
(* The service *)

\* What is known of one request at a time: its times are in order, and its verdict
\* was made from its own submission, clock and the material of its process.
Grounded(q, time) ==
  /\ q.phase # "idle" => q.sub \in Submissions /\ q.arrived \in Nat /\ q.arrived <= time
  /\ q.phase \in {"replaying", "orphan"} => q.clock \in Nat /\ q.arrived <= q.clock
  /\ \/ q.verdict = NoVerdict
     \/ /\ q.phase = "answered" /\ q.clock \in Nat /\ q.arrived <= q.clock
        /\ q.verdict = Verdict(q.sub, q.with, q.clock)

DecisionInv == now \in Nat /\ \A r \in Requests : Grounded(req[r], now)

\* Time that passes leaves a request as it is.
LEMMA LaterGrounded ==
  ASSUME NEW q, NEW t \in Nat, Grounded(q, t), NEW u \in Nat, t <= u
  PROVE  Grounded(q, u)
  BY DEF Grounded

\* A step that sets one request to a grounded record.
LEMMA OneGrounded ==
  ASSUME DecisionInv, SlotInv, NEW r \in Requests, NEW new, Grounded(new, now),
         req' = [req EXCEPT ![r] = new], now' = now
  PROVE  DecisionInv'
<1>1. \A q \in Requests : req'[q] = IF q = r THEN new ELSE req[q]
  BY DEF SlotInv, RequestShape
<1> QED BY <1>1 DEF DecisionInv

\* A submission arrives.
LEMMA ArriveGrounds ==
  ASSUME DecisionInv, SlotInv, NEW r \in Requests, NEW sub \in Submissions, Arrive(r, sub)
  PROVE  DecisionInv'
<1> DEFINE new == [req[r] EXCEPT !.phase = "waiting", !.sub = sub, !.arrived = now]
<1>1. req' = [req EXCEPT ![r] = new] /\ now' = now /\ req[r].phase = "idle"
  BY DEF Arrive
<1>2. /\ new.phase = "waiting" /\ new.sub = sub /\ new.arrived = now
      /\ new.verdict = req[r].verdict
  BY DEF SlotInv, RequestShape
<1>3. req[r].verdict = NoVerdict
  BY <1>1 DEF DecisionInv, Grounded
<1> HIDE DEF new
<1>4. Grounded(new, now)
  BY <1>2, <1>3 DEF Grounded, DecisionInv
<1> QED BY <1>1, <1>4, OneGrounded

\* The head of the queue reads the clock.
LEMMA AcquireGrounds ==
  ASSUME DecisionInv, SlotInv, Acquire
  PROVE  DecisionInv'
<1> DEFINE r == Head(queue)
           new == [req[r] EXCEPT !.phase = "replaying", !.clock = now]
<1>1. r \in Requests /\ req[r].phase = "waiting"
  BY DEF Acquire, SlotInv, QueueIsWaiters, Waiting
<1>2. req' = [req EXCEPT ![r] = new] /\ now' = now
  BY DEF Acquire
<1> HIDE DEF r
<1>3. /\ new.phase = "replaying" /\ new.sub = req[r].sub /\ new.arrived = req[r].arrived
      /\ new.clock = now /\ new.verdict = req[r].verdict
  BY <1>1 DEF SlotInv, RequestShape
<1>4. req[r].verdict = NoVerdict /\ req[r].sub \in Submissions /\ req[r].arrived \in Nat
      /\ req[r].arrived <= now /\ now \in Nat
  BY <1>1 DEF DecisionInv, Grounded
<1> HIDE DEF new
<1>5. Grounded(new, now)
  BY <1>3, <1>4 DEF Grounded
<1> QED BY <1>1, <1>2, <1>5, OneGrounded

\* The worker decides from the submission, the material and the clock it was given.
LEMMA DecideGrounds ==
  ASSUME DecisionInv, SlotInv, NEW r \in Requests, Decide(r)
  PROVE  DecisionInv'
<1> DEFINE v == IF req[r].phase = "orphan" THEN NoVerdict
                ELSE Verdict(req[r].sub, retained, req[r].clock)
           new == [req[r] EXCEPT !.phase = IF req[r].phase = "orphan" THEN "gone" ELSE "answered",
                                 !.verdict = v, !.with = retained]
<1>1. req' = [req EXCEPT ![r] = new] /\ now' = now /\ req[r].phase \in {"replaying", "orphan"}
  BY DEF Decide, Working
<1> HIDE DEF v
<1>2. /\ new.phase = (IF req[r].phase = "orphan" THEN "gone" ELSE "answered")
      /\ new.sub = req[r].sub /\ new.arrived = req[r].arrived /\ new.clock = req[r].clock
      /\ new.verdict = v /\ new.with = retained
  BY DEF SlotInv, RequestShape
<1> HIDE DEF new
<1>3. /\ req[r].sub \in Submissions /\ req[r].arrived \in Nat /\ req[r].arrived <= now
      /\ req[r].clock \in Nat /\ req[r].arrived <= req[r].clock
  BY <1>1 DEF DecisionInv, Grounded
<1>4. Grounded(new, now)
  <2>1. CASE req[r].phase = "orphan"
    BY <1>2, <1>3, <2>1 DEF Grounded, v
  <2>2. CASE req[r].phase = "replaying"
    <3>1. new.verdict = Verdict(new.sub, new.with, new.clock) /\ new.phase = "answered"
      BY <1>2, <2>2 DEF v
    <3> QED BY <1>2, <1>3, <3>1 DEF Grounded
  <2> QED BY <1>1, <2>1, <2>2
<1> QED BY <1>1, <1>4, OneGrounded

\* The steps that only end a request, or leave its worker alone.
LEMMA PhaseGrounds ==
  ASSUME DecisionInv, SlotInv, NEW r \in Requests, Fail(r) \/ LeaveQueue(r) \/ Abandon(r)
  PROVE  DecisionInv'
<1> DEFINE Ended(p) == [req[r] EXCEPT !.phase = p]
<1>1. /\ now' = now /\ req[r].phase \in {"waiting", "replaying", "orphan"}
      /\ \E p \in {"gone", "failed", "orphan"} :
           /\ req' = [req EXCEPT ![r] = Ended(p)]
           /\ p = "orphan" => req[r].phase = "replaying"
  BY DEF Fail, LeaveQueue, Abandon, Working
<1>2. PICK p \in {"gone", "failed", "orphan"} :
        req' = [req EXCEPT ![r] = Ended(p)] /\ (p = "orphan" => req[r].phase = "replaying")
  BY <1>1
<1> DEFINE new == Ended(p)
<1>3. /\ new.phase = p /\ new.sub = req[r].sub /\ new.arrived = req[r].arrived
      /\ new.clock = req[r].clock /\ new.verdict = req[r].verdict
  BY DEF SlotInv, RequestShape
<1> HIDE DEF new, Ended
<1>4. Grounded(req[r], now) /\ req[r].verdict = NoVerdict
  BY <1>1 DEF DecisionInv, Grounded
<1>5. Grounded(new, now)
  BY <1>1, <1>2, <1>3, <1>4 DEF Grounded
<1> QED BY <1>1, <1>2, <1>5, OneGrounded DEF new

\* A restart ends what was under way and keeps what was answered.
LEMMA RestartGrounds ==
  ASSUME DecisionInv, SlotInv, Restart
  PROVE  DecisionInv'
<1>1. now' = now
  BY DEF Restart
<1>2. ASSUME NEW r \in Requests PROVE Grounded(req'[r], now)
  <2>1. CASE req[r].phase \in {"waiting", "replaying", "orphan"}
    <3> DEFINE new == [req[r] EXCEPT !.phase = "gone"]
    <3>1. req'[r] = new
      BY <2>1 DEF Restart
    <3>2. /\ new.phase = "gone" /\ new.sub = req[r].sub /\ new.arrived = req[r].arrived
          /\ new.verdict = req[r].verdict
      BY DEF SlotInv, RequestShape
    <3> HIDE DEF new
    <3>3. Grounded(req[r], now) /\ req[r].verdict = NoVerdict
      BY <2>1 DEF DecisionInv, Grounded
    <3> QED BY <2>1, <3>1, <3>2, <3>3 DEF Grounded
  <2>2. CASE req[r].phase \notin {"waiting", "replaying", "orphan"}
    <3>1. req'[r] = req[r]
      BY <2>2 DEF Restart
    <3> QED BY <3>1 DEF DecisionInv
  <2> QED BY <2>1, <2>2
<1> QED BY <1>1, <1>2 DEF DecisionInv

\* The clock moves on, or nothing happens.
LEMMA TimeGrounds ==
  ASSUME DecisionInv, Tick \/ UNCHANGED vars
  PROVE  DecisionInv'
<1>1. req' = req /\ now \in Nat /\ now' \in Nat /\ now <= now'
  BY DEF Tick, vars, DecisionInv
<1>2. \A r \in Requests : Grounded(req[r], now')
  BY <1>1, LaterGrounded DEF DecisionInv
<1> QED BY <1>1, <1>2 DEF DecisionInv

\* What was decided stays decided on its own grounds.
LEMMA DecisionInvariant == Spec => []DecisionInv
<1>1. Init => DecisionInv
  BY DEF Init, DecisionInv, Grounded, Idle
<1>2. SlotInv /\ DecisionInv /\ [Next]_vars => DecisionInv'
  BY ArriveGrounds, AcquireGrounds, DecideGrounds, PhaseGrounds, RestartGrounds, TimeGrounds
     DEF Next
<1> QED BY <1>1, <1>2, SlotInvariant, PTL DEF Spec

\* A Verified verdict rests on every check and on a clock in the window, and Pending
\* is only said to authentic submissions for want of a catalog: for any number of
\* requests and slots, all submissions, and any restarts with other material.
THEOREM VerdictsSound == Spec => []VerdictsAreSound
<1>1. DecisionInv => VerifiedIsSound
  <2> SUFFICES ASSUME DecisionInv, NEW r \in Requests, req[r].verdict.status = "Verified"
               PROVE  LET sub == req[r].sub IN
                      /\ sub.fails = {} /\ sub.receiptRun = sub.finalRun
                      /\ req[r].verdict.run = sub.receiptRun
                      /\ req[r].with.key /\ req[r].with.catalog[sub.kind]
                      /\ req[r].verdict.at \in sub.issued..sub.deadline
                      /\ req[r].arrived <= req[r].verdict.at
    BY DEF VerifiedIsSound
  <2>1. /\ req[r].sub \in Submissions /\ req[r].clock \in Nat /\ req[r].arrived <= req[r].clock
        /\ req[r].verdict = Verdict(req[r].sub, req[r].with, req[r].clock)
    BY DEF DecisionInv, Grounded, NoVerdict
  <2> QED BY <2>1, VerifiedMeans
<1>2. DecisionInv => PendingIsAuthentic
  <2> SUFFICES ASSUME DecisionInv, NEW r \in Requests, req[r].verdict.status = "Pending"
               PROVE  LET sub == req[r].sub IN
                      /\ sub.fails \cap AuthorizationNames = {}
                      /\ req[r].with.key
                      /\ req[r].verdict.at \in sub.issued..sub.deadline
                      /\ "catalog" \in sub.fails \/ ~req[r].with.catalog[sub.kind]
    BY DEF PendingIsAuthentic, AuthorizationNames
  <2>1. /\ req[r].sub \in Submissions /\ req[r].clock \in Nat
        /\ req[r].verdict = Verdict(req[r].sub, req[r].with, req[r].clock)
    BY DEF DecisionInv, Grounded, NoVerdict
  <2> QED BY <2>1, PendingMeans
<1> QED BY <1>1, <1>2, DecisionInvariant, PTL DEF VerdictsAreSound
==============================================================================
