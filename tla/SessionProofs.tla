---------------------------- MODULE SessionProofs ----------------------------
(****************************************************************************)
(* The stream cursor keeps its contract for every set of batches; no host   *)
(* ever loses its session to another; and what a consumer saw completed,    *)
(* and a host was given, is a whole race and its own: for every number of   *)
(* handles, attempts, cars, laps and records.  Ownership alone is not       *)
(* inductive: a host may call with a handle it gave up, and only the order  *)
(* in which handles are issued keeps that handle from being somebody        *)
(* else's.  Nor is wholeness: a pull that fails uses numbers of the stream  *)
(* up, and what makes a gap show is that a record's number never falls      *)
(* behind its place and that a completion in its place means that no lap    *)
(* was refused.                                                             *)
(****************************************************************************)
EXTENDS RacingSession, StreamConsumer, FiniteSetTheorems, TLAPS

------------------------------------------------------------------------------
(* Numbers and sequences *)

\* Every nonempty set of numbers has a least one: what is proved by induction
\* below looks at the least counterexample.
LEMMA LeastNumber ==
  ASSUME NEW T \in SUBSET Nat, T # {}
  PROVE  \E x \in T : \A y \in T : x <= y
<1> DEFINE R == OpToRel(<, Nat)
<1>1. IsWellFoundedOn(R, Nat)
  BY NatLessThanWellFounded, Zenon
<1>2. \A x, y \in Nat : y < x => <<y, x>> \in R
  BY Zenon DEF OpToRel
<1> HIDE DEF R
<1>3. \E x \in T : \A y \in T : ~(<<y, x>> \in R)
  BY <1>1, WFMin, Zenon
<1>4. \E x \in T : \A y \in T : ~(y < x)
  BY <1>2, <1>3, Zenon
<1>5. \A x, y \in Nat : ~(y < x) => x <= y
  OBVIOUS
<1> QED BY <1>4, <1>5, Zenon

\* What a concatenation holds.
LEMMA Joined ==
  ASSUME NEW S, NEW s \in Seq(S), NEW t \in Seq(S)
  PROVE  /\ s \o t \in Seq(S)
         /\ Len(s \o t) = Len(s) + Len(t)
         /\ \A i \in 1..Len(s) : (s \o t)[i] = s[i]
         /\ \A i \in (Len(s) + 1)..(Len(s) + Len(t)) : (s \o t)[i] = t[i - Len(s)]
  OBVIOUS

------------------------------------------------------------------------------
(* The stream cursor *)

\* validate_batch_structure compares neighbours only; together the comparisons
\* give every record of a batch its place.
LEMMA BatchNumbers ==
  ASSUME NEW batch \in Seq(Record), ValidBatch(batch)
  PROVE  \A i \in 1..Len(batch) : batch[i].sequence = batch[1].sequence + i - 1
<1> DEFINE T == {i \in 1..Len(batch) : batch[i].sequence # batch[1].sequence + i - 1}
<1>1. SUFFICES ASSUME T # {} PROVE FALSE
  OBVIOUS
<1>2. T \in SUBSET Nat
  OBVIOUS
<1>3. \A i \in 1..Len(batch) : batch[i].sequence \in Nat
  <2>1. \A i \in 1..Len(batch) : batch[i] \in Record
    OBVIOUS
  <2>2. \A r \in Record : r.sequence \in Nat
    BY DEF Record
  <2> QED BY <2>1, <2>2, Zenon
<1>4. \A i \in 1..(Len(batch) - 1) : batch[i + 1].sequence = batch[i].sequence + 1
  BY DEF ValidBatch
<1> HIDE DEF T
<1>5. PICK x \in T : \A y \in T : x <= y
  BY <1>1, <1>2, LeastNumber, Zenon
<1>6. x \in 2..Len(batch) /\ x - 1 \in 1..(Len(batch) - 1)
  BY <1>3 DEF T
<1>7. x - 1 \notin T
  BY <1>5, <1>6
<1>8. batch[x - 1].sequence = batch[1].sequence + (x - 1) - 1
  BY <1>6, <1>7 DEF T
<1>9. batch[(x - 1) + 1].sequence = batch[x - 1].sequence + 1
  BY <1>4, <1>6
<1>10. (x - 1) + 1 = x
  BY <1>6
<1>11. x \in 1..Len(batch) /\ batch[x].sequence # batch[1].sequence + x - 1
  BY <1>5, Zenon DEF T
<1>12. batch[1].sequence \in Nat
  BY <1>3, <1>6
<1>13. batch[x].sequence = (batch[1].sequence + (x - 1) - 1) + 1
  BY ONLY <1>8, <1>9, <1>10, Zenon
<1> QED BY ONLY <1>6, <1>11, <1>12, <1>13

\* Accepting a batch keeps the stream ordered and the cursor truthful: neither half
\* would do alone, since a batch is compared with the cursor and must fit what was kept.
LEMMA AcceptKeeps ==
  ASSUME NEW c \in Cursor, NEW kept \in Seq(Record), Ordered(kept), Agrees(c, kept),
         NEW batch \in Seq(Record), Accepts(c, batch)
  PROVE  /\ Advanced(batch) \in Cursor /\ kept \o batch \in Seq(Record)
         /\ Ordered(kept \o batch) /\ Agrees(Advanced(batch), kept \o batch)
<1> DEFINE n == Len(kept)
           m == Len(batch)
           all == kept \o batch
           now == Advanced(batch)
<1>1. n \in Nat /\ m \in Nat /\ m > 0 /\ ValidBatch(batch)
  BY DEF Accepts, ValidBatch
<1>2. /\ all \in Seq(Record) /\ Len(all) = n + m
      /\ \A i \in 1..n : all[i] = kept[i]
      /\ \A i \in (n + 1)..(n + m) : all[i] = batch[i - n]
  BY Joined
<1>3. now = Advanced(batch)
  OBVIOUS
<1> HIDE DEF all, now
<1>4. batch[1] \in Record /\ batch[m] \in Record /\ all[n + m] = batch[m]
  BY <1>1, <1>2
<1>5. batch[1].sequence = n
  <2>1. CASE n = 0
    BY <2>1, <1>1 DEF Agrees, Accepts, NewCursor
  <2>2. CASE n > 0
    BY <2>2, <1>1 DEF Agrees, Accepts, Cursor
  <2> QED BY <1>1, <2>1, <2>2
<1>6. \A j \in 1..m : batch[j].sequence = n + j - 1
  <2>1. \A j \in 1..m : batch[j].sequence = batch[1].sequence + j - 1
    BY <1>1, BatchNumbers
  <2> QED BY <2>1, <1>5
<1>7. now \in Cursor
  <2>1. batch[m].sequence \in Nat /\ batch[m].tick \in Nat /\ batch[m].complete \in BOOLEAN
    BY <1>4 DEF Record
  <2>2. (IF batch[m].complete THEN batch[m].sequence ELSE batch[m].sequence + 1) \in Nat
    BY <2>1
  <2> QED BY <1>3, <2>1, <2>2 DEF Cursor, Advanced, LastRecord
<1>8. Ordered(all)
  <2> SUFFICES ASSUME NEW i \in 1..(n + m)
               PROVE  /\ all[i].sequence = i - 1
                      /\ i < n + m => all[i].tick <= all[i + 1].tick /\ ~all[i].complete
    BY <1>2 DEF Ordered
  <2>1. CASE i < n
    <3>1. i \in DOMAIN kept /\ all[i] = kept[i] /\ all[i + 1] = kept[i + 1]
      BY <2>1, <1>1, <1>2
    <3>2. /\ kept[i].sequence = i - 1
          /\ kept[i].tick <= kept[i + 1].tick /\ ~kept[i].complete
      BY <2>1, <3>1 DEF Ordered
    <3> QED BY <3>1, <3>2
  <2>2. CASE i = n
    <3>1. all[i] = kept[n] /\ all[i + 1] = batch[1] /\ kept # << >>
      <4>1. i \in 1..n /\ i + 1 \in (n + 1)..(n + m) /\ (i + 1) - n = 1 /\ n > 0
        BY <2>2, <1>1
      <4>2. all[i + 1] = batch[(i + 1) - n]
        BY <1>2, <4>1
      <4> QED BY <1>2, <2>2, <4>1, <4>2
    <3>2. c.lastTick = kept[n].tick /\ c.completed = kept[n].complete /\ c.started
      BY <3>1 DEF Agrees, LastRecord
    <3>3. kept[n].tick <= batch[1].tick /\ ~kept[n].complete
      BY <3>2, <1>1, <1>4 DEF Accepts, Record, Cursor
    <3>4. kept[n].sequence = n - 1
      <4>1. n \in 1..n /\ DOMAIN kept = 1..n
        BY <2>2, <1>1
      <4> QED BY <4>1 DEF Ordered
    <3> QED BY <2>2, <3>1, <3>3, <3>4
  <2>3. CASE i > n
    <3>1. i - n \in 1..m /\ all[i] = batch[i - n]
      BY <2>3, <1>1, <1>2
    <3>2. all[i].sequence = i - 1
      BY <3>1, <1>1, <1>6
    <3>3. ASSUME i < n + m
          PROVE  all[i].tick <= all[i + 1].tick /\ ~all[i].complete
      <4>1. i - n \in 1..(m - 1) /\ all[i + 1] = batch[(i - n) + 1]
        BY <3>1, <3>3, <1>1, <1>2
      <4> QED BY <3>1, <4>1, <1>1 DEF ValidBatch
    <3> QED BY <3>2, <3>3
  <2> QED BY <1>1, <2>1, <2>2, <2>3
<1>9. Agrees(now, all)
  <2>1. all # << >> /\ LastRecord(all) = batch[m]
    BY <1>1, <1>2, <1>4 DEF LastRecord
  <2>2. batch[m].sequence = n + m - 1
    BY <1>1, <1>6
  <2>3. Portable(batch[m].sequence)
    BY <1>1 DEF ValidBatch
  <2>4. LastRecord(batch) = batch[m]
    BY DEF LastRecord
  <2>5. now.completed = batch[m].complete /\ now.started = TRUE /\ now.lastTick = batch[m].tick
    BY <1>3, <2>4 DEF Advanced
  <2>6. now.next = (n + m) - (IF batch[m].complete THEN 1 ELSE 0)
    <3>1. now.next = IF batch[m].complete THEN batch[m].sequence ELSE batch[m].sequence + 1
      BY <1>3, <2>4 DEF Advanced
    <3>2. CASE batch[m].complete
      BY <3>1, <3>2, <2>2, <1>1
    <3>3. CASE ~batch[m].complete
      BY <3>1, <3>3, <2>2, <1>1
    <3> QED BY <3>2, <3>3
  <2>7. Portable(now.next)
    BY <1>3, <2>2, <2>3, <2>4, <1>1 DEF Advanced, Accepts
  <2> QED BY <1>2, <2>1, <2>5, <2>6, <2>7 DEF Agrees
<1> QED BY <1>2, <1>3, <1>7, <1>8, <1>9 DEF all, now

\* Whatever batches a transport hands over, the consumer always holds one ordered
\* stream, and its cursor describes it (validate_next).
THEOREM StreamCorrect == StreamSpec => [](StreamTypeOK /\ KeepsOneStream)
<1> DEFINE StreamInv == StreamTypeOK /\ KeepsOneStream
<1>1. StreamInit => StreamInv
  BY DEF StreamInit, StreamTypeOK, KeepsOneStream, Ordered, Agrees, NewCursor, Cursor
<1>2. StreamInv /\ [StreamNext]_streamVars => StreamInv'
  <2> SUFFICES ASSUME StreamInv, [StreamNext]_streamVars PROVE StreamInv'
    OBVIOUS
  <2>1. ASSUME NEW batch \in Batches, Accept(batch) PROVE StreamInv'
    <3>1. batch \in Seq(Record) /\ Accepts(cursor, batch)
      BY <2>1, BatchesAssumption DEF Accept
    <3>2. cursor' = Advanced(batch) /\ accepted' = accepted \o batch
      BY <2>1 DEF Accept
    <3> QED BY <3>1, <3>2, AcceptKeeps DEF StreamTypeOK, KeepsOneStream
  <2>2. CASE UNCHANGED streamVars
    BY <2>2 DEF streamVars, StreamTypeOK, KeepsOneStream, Agrees, Ordered
  <2> QED BY <2>1, <2>2 DEF StreamNext, Refuse
<1> QED BY <1>1, <1>2, PTL DEF StreamSpec

------------------------------------------------------------------------------
(* The handles *)

\* What the proof needs of the state's shape; the batches and the solvers do not matter.
Shape ==
  /\ nextHandle \in [Api -> 1..MaxHandle]
  /\ DOMAIN attempts = Attempts
  /\ \A a \in Attempts :
       /\ DOMAIN attempts[a] = DOMAIN NewAttempt
       /\ attempts[a].handle \in 0..MaxHandle /\ attempts[a].api \in Api
       /\ attempts[a].closed \in BOOLEAN /\ (attempts[a].closed => attempts[a].handle # 0)
  /\ DOMAIN sessions = Api
  /\ \A api \in Api : \A h \in DOMAIN sessions[api] :
       h \in 1..MaxHandle /\ "owner" \in DOMAIN sessions[api][h]

\* The converse of HandlesAreOwned: a live handle is held, open, by its owner.
OwnersHold ==
  \A api \in Api : \A h \in DOMAIN sessions[api] :
    LET o == sessions[api][h].owner
    IN  o \in Attempts /\ attempts[o].handle = h /\ attempts[o].api = api /\ ~attempts[o].closed

\* Until the counter has wrapped the handles are 1, 2, 3, ... in the order of the starts.
IssuedInOrder ==
  \A api \in Api :
    LET n == Cardinality(StartedWith(api)) IN
    /\ n < MaxHandle => nextHandle[api] = n + 1
    /\ n <= MaxHandle =>
         /\ \A a \in StartedWith(api) : attempts[a].handle <= n
         /\ \A a, b \in StartedWith(api) : attempts[a].handle = attempts[b].handle => a = b

SessionInv == Shape /\ HandlesAreOwned /\ OwnersHold /\ IssuedInOrder

\* The attempts that started are finitely many.
LEMMA StartedFinite ==
  ASSUME NEW api \in Api
  PROVE  IsFiniteSet(StartedWith(api)) /\ Cardinality(StartedWith(api)) \in Nat
<1>1. StartedWith(api) \subseteq Attempts
  BY DEF StartedWith, Started
<1>2. IsFiniteSet(StartedWith(api))
  BY SessionAssumption, <1>1, FS_Subset
<1> QED BY <1>2, FS_CardinalityType

\* wrapping_add(1).max(1) stays among the handles and counts up below the last one.
LEMMA NextHandle ==
  ASSUME NEW h \in 1..MaxHandle
  PROVE  /\ \A k \in Nat : HandleAt(h, k) \in 1..MaxHandle
         /\ HandleAt(h, 0) = h
         /\ h < MaxHandle => HandleAt(h, 1) = h + 1
<1>1. \A m \in Nat : m % MaxHandle \in 0..(MaxHandle - 1)
  BY SessionAssumption
<1>2. \A m \in 0..(MaxHandle - 1) : m % MaxHandle = m
  BY SessionAssumption
<1>3. \A k \in Nat : h - 1 + k \in Nat
  OBVIOUS
<1> QED BY SessionAssumption, <1>1, <1>2, <1>3 DEF HandleAt

\* register_racing_session takes a vacant handle, and below the wrap the next one.
LEMMA RegisterTakesVacant ==
  ASSUME SessionInv, NEW a \in Attempts, NEW api \in Api,
         Register(NewSession(a, api))
  PROVE  \E h \in 1..MaxHandle :
           /\ h \notin DOMAIN sessions[api]
           /\ Cardinality(StartedWith(api)) < MaxHandle => h = Cardinality(StartedWith(api)) + 1
           /\ sessions' = With(api, h, NewSession(a, api))
           /\ nextHandle' = [nextHandle EXCEPT ![api] = HandleAt(h, 1)]
           /\ attempts' = [attempts EXCEPT ![a].handle = h, ![a].api = api]
<1> DEFINE n == Cardinality(StartedWith(api))
           k == CHOOSE k \in Vacant(api) : \A j \in Vacant(api) : k <= j
           h == HandleAt(nextHandle[api], k)
<1>1. NewSession(a, api).api = api /\ NewSession(a, api).owner = a
  BY DEF NewSession
<1>2. Vacant(api) \in SUBSET Nat /\ Vacant(api) # {}
  BY SessionAssumption, <1>1 DEF Vacant, Register
<1>3. \E i \in Vacant(api) : \A j \in Vacant(api) : i <= j
  BY <1>2, LeastNumber, Zenon
<1>4. k \in Vacant(api) /\ \A j \in Vacant(api) : k <= j
  BY <1>3, Zenon
<1>5. k \in Nat /\ h \notin DOMAIN sessions[api]
  BY SessionAssumption, <1>4 DEF Vacant
<1>6. nextHandle[api] \in 1..MaxHandle
  BY DEF SessionInv, Shape
<1>7. h \in 1..MaxHandle
  BY <1>5, <1>6, NextHandle
<1>8. ASSUME n < MaxHandle PROVE h = n + 1
  <2>1. nextHandle[api] = n + 1 /\ n \in Nat
    BY <1>8, StartedFinite DEF SessionInv, IssuedInOrder
  <2>2. n + 1 \notin DOMAIN sessions[api]
    <3>1. SUFFICES ASSUME n + 1 \in DOMAIN sessions[api] PROVE FALSE
      OBVIOUS
    <3>2. PICK o \in Attempts : attempts[o].handle = n + 1 /\ attempts[o].api = api
      BY <3>1 DEF SessionInv, OwnersHold
    <3>3. o \in StartedWith(api)
      BY <2>1, <3>2 DEF StartedWith, Started
    <3>4. attempts[o].handle <= n
      BY SessionAssumption, <1>8, <2>1, <3>3 DEF SessionInv, IssuedInOrder
    <3> QED BY <2>1, <3>2, <3>4
  <2>3. HandleAt(nextHandle[api], 0) = n + 1
    BY <1>6, <2>1, NextHandle
  <2>4. 0 \in Vacant(api)
    BY SessionAssumption, <2>2, <2>3 DEF Vacant
  <2>5. k = 0
    BY <1>4, <1>5, <2>4
  <2> QED BY <2>3, <2>5, Zenon
<1>9. /\ sessions' = With(api, h, NewSession(a, api))
      /\ nextHandle' = [nextHandle EXCEPT ![api] = HandleAt(h, 1)]
      /\ attempts' = [attempts EXCEPT ![a].handle = h, ![a].api = api]
  BY <1>1, Zenon DEF Register
<1> QED BY <1>5, <1>7, <1>8, <1>9, Zenon

------------------------------------------------------------------------------
(* One lemma for each kind of step *)

\* start(): the new session is behind a handle nobody held.
LEMMA StartStep ==
  ASSUME SessionInv, NEW a \in Attempts, NEW api \in Api,
         attempts[a].handle = 0, Register(NewSession(a, api))
  PROVE  SessionInv'
<1>1. PICK h \in 1..MaxHandle :
        /\ h \notin DOMAIN sessions[api]
        /\ Cardinality(StartedWith(api)) < MaxHandle => h = Cardinality(StartedWith(api)) + 1
        /\ sessions' = With(api, h, NewSession(a, api))
        /\ nextHandle' = [nextHandle EXCEPT ![api] = HandleAt(h, 1)]
        /\ attempts' = [attempts EXCEPT ![a].handle = h, ![a].api = api]
  BY RegisterTakesVacant, Zenon
<1>2. /\ DOMAIN attempts' = Attempts
      /\ \A b \in Attempts : b # a => attempts'[b] = attempts[b]
      /\ DOMAIN attempts'[a] = DOMAIN NewAttempt
      /\ attempts'[a].handle = h /\ attempts'[a].api = api
      /\ attempts'[a].closed = attempts[a].closed
  BY <1>1 DEF SessionInv, Shape, NewAttempt
<1>3. /\ DOMAIN sessions' = Api
      /\ \A other \in Api : other # api => sessions'[other] = sessions[other]
      /\ DOMAIN sessions'[api] = DOMAIN sessions[api] \cup {h}
      /\ \A g \in DOMAIN sessions[api] : sessions'[api][g] = sessions[api][g]
      /\ sessions'[api][h] = NewSession(a, api)
  BY <1>1 DEF With, SessionInv, Shape
<1>4. NewSession(a, api).owner = a /\ "owner" \in DOMAIN NewSession(a, api)
  BY DEF NewSession
<1>5. ~attempts[a].closed
  BY DEF SessionInv, Shape
<1>6. Shape'
  <2>1. nextHandle' \in [Api -> 1..MaxHandle]
    BY <1>1, NextHandle, Zenon DEF SessionInv, Shape
  <2>2. \A b \in Attempts :
          /\ DOMAIN attempts'[b] = DOMAIN NewAttempt
          /\ attempts'[b].handle \in 0..MaxHandle /\ attempts'[b].api \in Api
          /\ attempts'[b].closed \in BOOLEAN /\ (attempts'[b].closed => attempts'[b].handle # 0)
    <3>1. /\ h \in 0..MaxHandle /\ h # 0
          /\ \A b \in Attempts :
               /\ DOMAIN attempts[b] = DOMAIN NewAttempt
               /\ attempts[b].handle \in 0..MaxHandle /\ attempts[b].api \in Api
               /\ attempts[b].closed \in BOOLEAN /\ (attempts[b].closed => attempts[b].handle # 0)
      BY SessionAssumption DEF SessionInv, Shape
    <3> QED BY <1>2, <3>1, Zenon
  <2>3. \A other \in Api : \A g \in DOMAIN sessions'[other] :
          g \in 1..MaxHandle /\ "owner" \in DOMAIN sessions'[other][g]
    <3>1. \A other \in Api : \A g \in DOMAIN sessions[other] :
            g \in 1..MaxHandle /\ "owner" \in DOMAIN sessions[other][g]
      BY DEF SessionInv, Shape
    <3> DEFINE Fine(g, session) == g \in 1..MaxHandle /\ "owner" \in DOMAIN session
    <3>2. \A other \in Api : \A g \in DOMAIN sessions[other] : Fine(g, sessions[other][g])
      BY <3>1, Zenon
    <3>3. Fine(h, NewSession(a, api))
      BY <1>4, Zenon
    <3> HIDE DEF Fine
    <3>4. ASSUME NEW other \in Api, NEW g \in DOMAIN sessions'[other]
          PROVE  Fine(g, sessions'[other][g])
      <4>1. CASE other # api
        BY ONLY <1>3, <3>2, <3>4, <4>1, Zenon
      <4>2. CASE other = api /\ g = h
        BY ONLY <1>3, <3>3, <4>2, Zenon
      <4>3. CASE other = api /\ g \in DOMAIN sessions[api]
        BY ONLY <1>3, <3>2, <4>3, Zenon
      <4> QED BY ONLY <1>3, <3>4, <4>1, <4>2, <4>3, Zenon
    <3> QED BY <3>4, Zenon DEF Fine
  <2> QED BY <1>2, <1>3, <2>1, <2>2, <2>3, Zenon DEF Shape
<1>7. HandlesAreOwned'
  <2>1. SUFFICES ASSUME NEW b \in Started', ~attempts'[b].closed
                 PROVE  Live(b)' /\ The(b)'.owner = b
    BY Zenon DEF HandlesAreOwned
  <2>2. b \in Attempts /\ attempts'[b].handle # 0
    BY <2>1, Zenon DEF Started
  <2>3. CASE b = a
    BY <1>2, <1>3, <1>4, <2>3, Zenon DEF Live, The
  <2>4. CASE b # a
    <3>1. attempts'[b] = attempts[b] /\ b \in Started
      BY <1>2, <2>2, <2>4, Zenon DEF Started
    <3>2. Live(b) /\ The(b).owner = b /\ attempts[b].api \in Api
      BY <2>1, <2>2, <3>1, Zenon DEF SessionInv, HandlesAreOwned, Shape
    <3>3. attempts[b].handle \in DOMAIN sessions'[attempts[b].api]
      BY <1>3, <3>2, Zenon DEF Live
    <3>4. sessions'[attempts[b].api][attempts[b].handle] = The(b)
      <4> DEFINE f == attempts[b].api
                 g == attempts[b].handle
      <4>1. f \in Api /\ g \in DOMAIN sessions[f]
        BY <3>2, Zenon DEF Live
      <4> HIDE DEF f, g
      <4>2. sessions'[f][g] = sessions[f][g]
        <5>1. CASE f = api
          BY ONLY <1>3, <4>1, <5>1, Zenon
        <5>2. CASE f # api
          BY ONLY <1>3, <4>1, <5>2, Zenon
        <5> QED BY ONLY <5>1, <5>2, Zenon
      <4> QED BY <4>2, Zenon DEF The, f, g
    <3> QED BY <3>1, <3>2, <3>3, <3>4, Zenon DEF Live, The
  <2> QED BY <2>3, <2>4, Zenon
<1>8. OwnersHold'
  <2>1. SUFFICES ASSUME NEW other \in Api, NEW g \in DOMAIN sessions'[other]
                 PROVE  LET o == sessions'[other][g].owner
                        IN  /\ o \in Attempts /\ attempts'[o].handle = g
                            /\ attempts'[o].api = other /\ ~attempts'[o].closed
    BY DEF OwnersHold
  <2>2. CASE other = api /\ g = h
    BY <1>2, <1>3, <1>4, <1>5, <2>2
  <2>3. CASE ~(other = api /\ g = h)
    <3>1. g \in DOMAIN sessions[other] /\ sessions'[other][g] = sessions[other][g]
      BY <1>3, <2>3
    <3>2. PICK o \in Attempts : /\ o = sessions[other][g].owner /\ attempts[o].handle = g
                                /\ attempts[o].api = other /\ ~attempts[o].closed
      BY <3>1 DEF SessionInv, OwnersHold
    <3>3. o # a
      BY <3>1, <3>2 DEF SessionInv, Shape
    <3> QED BY <1>2, <3>1, <3>2, <3>3
  <2> QED BY <2>2, <2>3
<1>9. IssuedInOrder'
  <2>1. SUFFICES ASSUME NEW other \in Api
                 PROVE  LET n == Cardinality(StartedWith(other)') IN
                        /\ n < MaxHandle => nextHandle'[other] = n + 1
                        /\ n <= MaxHandle =>
                             /\ \A b \in StartedWith(other)' : attempts'[b].handle <= n
                             /\ \A b, c \in StartedWith(other)' :
                                  attempts'[b].handle = attempts'[c].handle => b = c
    BY DEF IssuedInOrder
  <2>2. CASE other # api
    <3>1. StartedWith(other)' = StartedWith(other)
      BY <1>1, <1>2, <2>2 DEF StartedWith, Started
    <3>2. \A b \in StartedWith(other) : attempts'[b] = attempts[b]
      BY <1>2 DEF StartedWith, Started
    <3>3. nextHandle'[other] = nextHandle[other]
      BY <1>1, <2>2 DEF SessionInv, Shape
    <3> QED BY <3>1, <3>2, <3>3 DEF SessionInv, IssuedInOrder
  <2>3. CASE other = api
    <3> DEFINE n == Cardinality(StartedWith(api))
    <3>1. StartedWith(api)' = StartedWith(api) \cup {a}
      BY <1>1, <1>2 DEF StartedWith, Started
    <3>2. a \notin StartedWith(api) /\ \A b \in StartedWith(api) : b \in Attempts
      BY DEF StartedWith, Started
    <3>3. n \in Nat /\ Cardinality(StartedWith(api)') = n + 1
      <4> DEFINE S == StartedWith(api)
      <4>1. IsFiniteSet(S) /\ Cardinality(S) \in Nat
        BY StartedFinite, Zenon
      <4>2. a \notin S
        BY <3>2, Zenon
      <4>3. StartedWith(api)' = S \cup {a}
        BY <3>1, Zenon
      <4> HIDE DEF S
      <4>4. Cardinality(S \cup {a}) = Cardinality(S) + 1
        BY ONLY <4>1, <4>2, FS_AddElement, Zenon
      <4>5. Cardinality(StartedWith(api)') = Cardinality(S) + 1
        BY ONLY <4>3, <4>4, Zenon
      <4> QED BY <4>1, <4>5, Zenon DEF S
    <3>4. \A b \in StartedWith(api) : attempts'[b] = attempts[b] /\ attempts[b].handle \in Nat
      BY SessionAssumption, <1>2, <3>2 DEF SessionInv, Shape
    <3>5. ASSUME n + 1 < MaxHandle PROVE nextHandle'[api] = n + 2
      <4>1. h = n + 1 /\ h < MaxHandle
        BY SessionAssumption, <1>1, <3>3, <3>5
      <4>2. HandleAt(h, 1) = n + 2
        BY <3>3, <4>1, NextHandle
      <4> QED BY <1>1, <4>2 DEF SessionInv, Shape
    <3>6. ASSUME n + 1 <= MaxHandle
          PROVE  /\ \A b \in StartedWith(api)' : attempts'[b].handle <= n + 1
                 /\ \A b, c \in StartedWith(api)' :
                      attempts'[b].handle = attempts'[c].handle => b = c
      <4>1. attempts'[a].handle = n + 1
        BY SessionAssumption, <1>1, <1>2, <3>3, <3>6
      <4>2. /\ \A b \in StartedWith(api) : attempts[b].handle <= n
            /\ \A b, c \in StartedWith(api) : attempts[b].handle = attempts[c].handle => b = c
        BY SessionAssumption, <3>3, <3>6 DEF SessionInv, IssuedInOrder
      <4>3. \A b \in StartedWith(api) : attempts'[b].handle <= n /\ attempts'[b].handle # n + 1
        BY <3>3, <3>4, <4>2
      <4> QED BY <3>1, <3>3, <3>4, <4>1, <4>2, <4>3
    <3> QED BY <2>3, <3>3, <3>5, <3>6
  <2> QED BY <2>2, <2>3
<1> QED BY <1>6, <1>7, <1>8, <1>9 DEF SessionInv

\* A step that leaves handles, owners and what is open as they are.
LEMMA SameHandles ==
  ASSUME SessionInv, nextHandle' = nextHandle,
         DOMAIN attempts' = Attempts,
         \A b \in Attempts : /\ DOMAIN attempts'[b] = DOMAIN NewAttempt
                             /\ attempts'[b].handle = attempts[b].handle
                             /\ attempts'[b].api = attempts[b].api
                             /\ attempts'[b].closed = attempts[b].closed,
         DOMAIN sessions' = Api,
         \A api \in Api : /\ DOMAIN sessions'[api] = DOMAIN sessions[api]
                          /\ \A h \in DOMAIN sessions[api] :
                               /\ sessions'[api][h].owner = sessions[api][h].owner
                               /\ "owner" \in DOMAIN sessions'[api][h]
  PROVE  SessionInv'
<1>1. Shape'
  BY DEF SessionInv, Shape
<1>2. Started' = Started /\ \A b \in Started : b \in Attempts /\ attempts[b].api \in Api
  BY DEF Started, SessionInv, Shape
<1>3. HandlesAreOwned'
  BY <1>2 DEF SessionInv, HandlesAreOwned, Live, The
<1>4. OwnersHold'
  BY DEF SessionInv, OwnersHold
<1>5. \A api \in Api : StartedWith(api)' = StartedWith(api)
  BY <1>2 DEF StartedWith
<1>6. \A api \in Api : \A b \in StartedWith(api) : attempts'[b].handle = attempts[b].handle
  BY <1>2 DEF StartedWith
<1>7. IssuedInOrder'
  BY <1>5, <1>6 DEF SessionInv, IssuedInOrder
<1> QED BY <1>1, <1>3, <1>4, <1>7 DEF SessionInv

\* advance() never changes whose session it is.
LEMMA OutcomesKeepOwner ==
  ASSUME NEW session, "owner" \in DOMAIN session, NEW outcome \in AdvanceOutcomes(session)
  PROVE  outcome.session.owner = session.owner /\ "owner" \in DOMAIN outcome.session
<1> DEFINE Keeps(o) == o.session.owner = session.owner /\ "owner" \in DOMAIN o.session
<1>1. \A batch : Keeps([session |-> session, batch |-> batch])
  OBVIOUS
<1>2. \A solver, batch : Keeps([session |-> [session EXCEPT !.solver = solver], batch |-> batch])
  OBVIOUS
<1>3. \A solver, outputOk, resultOk : Keeps(Completion(session, solver, outputOk, resultOk))
  BY DEF Completion
<1>4. \A solver, n, made : Keeps(LapCompleted(session, solver, n, made))
  BY Zenon DEF LapCompleted
<1> HIDE DEF Keeps
<1>5. ASSUME NEW fails, outcome \in FieldOutcomes(session, fails) PROVE Keeps(outcome)
  <2> DEFINE solver == AfterField(session.solver, fails)
             stopped == {[session |-> [session EXCEPT !.solver = solver], batch |-> << >>]}
             completed == {Completion(session, solver, outputOk, resultOk) :
                             outputOk \in BOOLEAN, resultOk \in FinalStep(session)}
             lapped == {LapCompleted(session, solver, n, made) :
                          n \in LapRecords, made \in BOOLEAN}
  <2>1. outcome \in stopped \/ outcome \in completed \/ outcome \in lapped
    BY <1>5 DEF FieldOutcomes
  <2> HIDE DEF solver
  <2>2. outcome \in stopped => Keeps(outcome)
    BY <1>2, Zenon
  <2>3. outcome \in completed => Keeps(outcome)
    <3>1. SUFFICES ASSUME outcome \in completed PROVE Keeps(outcome)
      OBVIOUS
    <3>2. PICK outputOk \in BOOLEAN, resultOk \in FinalStep(session) :
            outcome = Completion(session, solver, outputOk, resultOk)
      BY <3>1
    <3> QED BY <1>3, <3>2, Zenon
  <2>4. outcome \in lapped => Keeps(outcome)
    <3>1. SUFFICES ASSUME outcome \in lapped PROVE Keeps(outcome)
      OBVIOUS
    <3>2. PICK n \in LapRecords, made \in BOOLEAN :
            outcome = LapCompleted(session, solver, n, made)
      BY <3>1
    <3> QED BY <1>4, <3>2, Zenon
  <2> HIDE DEF stopped, completed, lapped
  <2> QED BY <2>1, <2>2, <2>3, <2>4, Zenon
<1>6. \/ outcome = [session |-> session, batch |-> << >>]
      \/ \E fails : outcome \in FieldOutcomes(session, fails)
  BY Zenon DEF AdvanceOutcomes
<1>7. Keeps(outcome)
  BY <1>1, <1>5, <1>6, Zenon
<1> QED BY <1>7 DEF Keeps

\* pull(): whichever handle the host calls with, the session behind it keeps its owner.
LEMMA PullStep ==
  ASSUME SessionInv, NEW a \in Attempts, Advance(a)
  PROVE  SessionInv'
<1> DEFINE api == attempts[a].api
           h == attempts[a].handle
<1>1. PICK outcome \in AdvanceOutcomes(The(a)) :
        /\ sessions' = With(api, h, outcome.session)
        /\ attempts' = [attempts EXCEPT
             ![a].issued = IF outcome.batch = << >> THEN @ ELSE Append(@, outcome.batch),
             ![a].records = @ \o outcome.batch,
             ![a].failed = @ \/ outcome.batch = << >>]
  BY Zenon DEF Advance
<1>2. api \in Api /\ h \in DOMAIN sessions[api] /\ "owner" \in DOMAIN The(a)
  BY DEF Advance, Live, The, SessionInv, Shape
<1>3. outcome.session.owner = The(a).owner /\ "owner" \in DOMAIN outcome.session
  BY <1>2, OutcomesKeepOwner
<1>4. /\ DOMAIN attempts' = Attempts
      /\ \A b \in Attempts : /\ DOMAIN attempts'[b] = DOMAIN NewAttempt
                             /\ attempts'[b].handle = attempts[b].handle
                             /\ attempts'[b].api = attempts[b].api
                             /\ attempts'[b].closed = attempts[b].closed
  BY <1>1 DEF SessionInv, Shape, NewAttempt
<1>5. /\ DOMAIN sessions' = Api
      /\ \A other \in Api : other # api => sessions'[other] = sessions[other]
      /\ DOMAIN sessions'[api] = DOMAIN sessions[api]
      /\ \A g \in DOMAIN sessions[api] :
           sessions'[api][g] = IF g = h THEN outcome.session ELSE sessions[api][g]
  BY <1>1, <1>2, Zenon DEF With, SessionInv, Shape
<1>6. \A other \in Api : /\ DOMAIN sessions'[other] = DOMAIN sessions[other]
                         /\ \A g \in DOMAIN sessions[other] :
                              /\ sessions'[other][g].owner = sessions[other][g].owner
                              /\ "owner" \in DOMAIN sessions'[other][g]
  BY <1>2, <1>3, <1>5 DEF The, SessionInv, Shape
<1>7. nextHandle' = nextHandle
  BY DEF Advance
<1> QED BY <1>4, <1>5, <1>6, <1>7, SameHandles

\* A host that may still call with its handle calls its own session or none.
LEMMA CallsOwn ==
  ASSUME SessionInv, NEW a \in Attempts, NEW api \in Api, Calls(a, api), Live(a)
  PROVE  attempts[a].api = api /\ The(a).owner = a
<1>1. a \in Started /\ a \in StartedWith(api) /\ attempts[a].api = api
  BY DEF Calls, StartedWith
<1>2. CASE ~attempts[a].closed
  BY <1>1, <1>2 DEF SessionInv, HandlesAreOwned
<1>3. CASE attempts[a].closed
  <2>1. Cardinality(StartedWith(api)) <= MaxHandle
    BY <1>3 DEF Calls
  <2>2. PICK o \in Attempts : /\ o = The(a).owner /\ attempts[o].handle = attempts[a].handle
                              /\ attempts[o].api = api
    BY <1>1 DEF SessionInv, OwnersHold, Live, The
  <2>3. o \in StartedWith(api)
    BY <1>1, <2>2 DEF StartedWith, Started
  <2> QED BY <1>1, <2>1, <2>2, <2>3 DEF SessionInv, IssuedInOrder
<1> QED BY <1>1, <1>2, <1>3

\* complete() and release(): the handle and the attempt that held it go together.
LEMMA CloseStep ==
  ASSUME SessionInv, NEW a \in Attempts, NEW api \in Api, Calls(a, api),
         Consume(a) \/ Forget(a)
  PROVE  SessionInv'
<1> DEFINE h == attempts[a].handle
<1>1. Live(a) /\ attempts[a].api = api /\ The(a).owner = a
  BY CallsOwn DEF Consume, Forget
<1>2. h \in DOMAIN sessions[api] /\ sessions[api][h].owner = a /\ h # 0
  BY <1>1 DEF Live, The, SessionInv, Shape
<1>3. /\ DOMAIN attempts' = Attempts
      /\ \A b \in Attempts : b # a => attempts'[b] = attempts[b]
      /\ DOMAIN attempts'[a] = DOMAIN NewAttempt
      /\ attempts'[a].handle = h /\ attempts'[a].api = api /\ attempts'[a].closed = TRUE
  BY <1>1 DEF Consume, Forget, SessionInv, Shape, NewAttempt
<1>4. /\ DOMAIN sessions' = Api
      /\ \A other \in Api : other # api => sessions'[other] = sessions[other]
      /\ DOMAIN sessions'[api] = DOMAIN sessions[api] \ {h}
      /\ \A g \in DOMAIN sessions'[api] : sessions'[api][g] = sessions[api][g]
  BY <1>1 DEF Consume, Forget, Without, SessionInv, Shape
<1>5. nextHandle' = nextHandle
  BY DEF Consume, Forget
<1>6. Shape'
  <2>1. /\ \A b \in Attempts :
             /\ DOMAIN attempts[b] = DOMAIN NewAttempt
             /\ attempts[b].handle \in 0..MaxHandle /\ attempts[b].api \in Api
             /\ attempts[b].closed \in BOOLEAN /\ (attempts[b].closed => attempts[b].handle # 0)
        /\ \A other \in Api : \A g \in DOMAIN sessions[other] :
             g \in 1..MaxHandle /\ "owner" \in DOMAIN sessions[other][g]
        /\ nextHandle \in [Api -> 1..MaxHandle]
    BY DEF SessionInv, Shape
  <2>2. \A b \in Attempts :
          /\ DOMAIN attempts'[b] = DOMAIN NewAttempt
          /\ attempts'[b].handle \in 0..MaxHandle /\ attempts'[b].api \in Api
          /\ attempts'[b].closed \in BOOLEAN /\ (attempts'[b].closed => attempts'[b].handle # 0)
    <3> DEFINE Fine(one) ==
                 /\ DOMAIN one = DOMAIN NewAttempt
                 /\ one.handle \in 0..MaxHandle /\ one.api \in Api
                 /\ one.closed \in BOOLEAN /\ (one.closed => one.handle # 0)
    <3>1. \A b \in Attempts : Fine(attempts[b])
      BY <2>1, Zenon
    <3>2. Fine(attempts'[a])
      <4>1. h \in 0..MaxHandle
        BY <2>1, Zenon
      <4>2. attempts'[a].handle \in 0..MaxHandle /\ attempts'[a].handle # 0
        BY ONLY <1>2, <1>3, <4>1, Zenon
      <4> QED BY ONLY <1>3, <4>2, api \in Api, Zenon DEF Fine
    <3> HIDE DEF Fine
    <3>3. \A b \in Attempts : Fine(attempts'[b])
      BY ONLY <1>3, <3>1, <3>2, Zenon
    <3> QED BY <3>3, Zenon DEF Fine
  <2>3. \A other \in Api : \A g \in DOMAIN sessions'[other] :
          g \in 1..MaxHandle /\ "owner" \in DOMAIN sessions'[other][g]
    BY <1>4, <2>1, Zenon
  <2> QED BY <1>3, <1>4, <1>5, <2>1, <2>2, <2>3, Zenon DEF Shape
<1>7. HandlesAreOwned'
  <2>1. SUFFICES ASSUME NEW b \in Started', ~attempts'[b].closed
                 PROVE  Live(b)' /\ The(b)'.owner = b
    BY DEF HandlesAreOwned
  <2>2. b \in Attempts /\ b # a /\ attempts'[b] = attempts[b] /\ b \in Started
    BY <1>3, <2>1 DEF Started
  <2>3. Live(b) /\ The(b).owner = b /\ attempts[b].api \in Api
    BY <2>1, <2>2 DEF SessionInv, HandlesAreOwned, Shape
  <2>4. attempts[b].api = api => attempts[b].handle # h
    BY <1>2, <2>2, <2>3 DEF The
  <2>5. attempts[b].handle \in DOMAIN sessions'[attempts[b].api]
    BY <1>4, <2>3, <2>4, Zenon DEF Live
  <2>6. sessions'[attempts[b].api][attempts[b].handle] = The(b)
    <3> DEFINE f == attempts[b].api
               g == attempts[b].handle
    <3>1. f \in Api /\ g \in DOMAIN sessions'[f]
      BY <2>3, <2>5, Zenon
    <3> HIDE DEF f, g
    <3>2. sessions'[f][g] = sessions[f][g]
      <4>1. CASE f = api
        BY ONLY <1>4, <3>1, <4>1, Zenon
      <4>2. CASE f # api
        BY ONLY <1>4, <3>1, <4>2, Zenon
      <4> QED BY ONLY <4>1, <4>2, Zenon
    <3> QED BY <3>2, Zenon DEF The, f, g
  <2> QED BY <2>2, <2>3, <2>5, <2>6, Zenon DEF Live, The
<1>8. OwnersHold'
  <2>1. SUFFICES ASSUME NEW other \in Api, NEW g \in DOMAIN sessions'[other]
                 PROVE  LET o == sessions'[other][g].owner
                        IN  /\ o \in Attempts /\ attempts'[o].handle = g
                            /\ attempts'[o].api = other /\ ~attempts'[o].closed
    BY DEF OwnersHold
  <2>2. /\ g \in DOMAIN sessions[other] /\ sessions'[other][g] = sessions[other][g]
        /\ ~(other = api /\ g = h)
    BY <1>4
  <2>3. PICK o \in Attempts : /\ o = sessions[other][g].owner /\ attempts[o].handle = g
                              /\ attempts[o].api = other /\ ~attempts[o].closed
    BY <2>2 DEF SessionInv, OwnersHold
  <2>4. o # a
    BY <1>1, <2>2, <2>3
  <2> QED BY <1>3, <2>2, <2>3, <2>4
<1>9. IssuedInOrder'
  <2>1. \A b \in Attempts : /\ attempts'[b].handle = attempts[b].handle
                            /\ attempts'[b].api = attempts[b].api
    BY <1>1, <1>3
  <2>2. Started' = Started
    BY <2>1 DEF Started
  <2>3. \A other \in Api : /\ StartedWith(other)' = StartedWith(other)
                           /\ \A b \in StartedWith(other) : attempts'[b].handle = attempts[b].handle
    BY <2>1, <2>2 DEF StartedWith, Started
  <2> QED BY <1>5, <2>3 DEF SessionInv, IssuedInOrder
<1> QED BY <1>6, <1>7, <1>8, <1>9 DEF SessionInv

\* No session is registered and no attempt started.
LEMMA SessionInit == Init => SessionInv
<1>1. SUFFICES ASSUME Init PROVE SessionInv
  OBVIOUS
<1>2. \A api \in Api : DOMAIN sessions[api] = {}
  BY <1>1 DEF Init
<1>3. \A a \in Attempts : attempts[a] = NewAttempt
  BY <1>1 DEF Init
<1>4. Shape
  <2>1. nextHandle \in [Api -> 1..MaxHandle] /\ DOMAIN attempts = Attempts /\ DOMAIN sessions = Api
    BY SessionAssumption, <1>1 DEF Init
  <2>2. /\ NewAttempt.handle \in 0..MaxHandle /\ NewAttempt.api \in Api
        /\ NewAttempt.closed = FALSE
    BY SessionAssumption DEF NewAttempt, Api
  <2> QED BY <1>2, <1>3, <2>1, <2>2, Zenon DEF Shape
<1>5. Started = {}
  BY <1>3 DEF Started, NewAttempt
<1>6. \A api \in Api : StartedWith(api) = {} /\ Cardinality(StartedWith(api)) = 0
  BY <1>5, FS_EmptySet DEF StartedWith
<1>7. IssuedInOrder
  BY <1>1, <1>6 DEF IssuedInOrder, Init
<1> QED BY <1>2, <1>4, <1>5, <1>7 DEF SessionInv, HandlesAreOwned, OwnersHold

\* Every host call, and every batch that is delivered, keeps the sessions in order.
LEMMA SessionStep == SessionInv /\ [Next]_vars => SessionInv'
<1>1. SUFFICES ASSUME SessionInv, [Next]_vars PROVE SessionInv'
  OBVIOUS
<1>2. "authorized" \in Api /\ "local" \in Api
  BY DEF Api
<1>3. CASE UNCHANGED vars
  BY <1>1, <1>3, SameHandles DEF vars, SessionInv, Shape
<1>4. CASE Next
  <2>1. PICK a \in Attempts :
          \/ Start(a) \/ Pull(a) \/ Complete(a) \/ Release(a)
          \/ StartLocal(a) \/ PullLocal(a) \/ CompleteLocal(a) \/ ReleaseLocal(a)
          \/ Deliver(a)
    BY <1>4 DEF Next
  <2>2. CASE Start(a) \/ StartLocal(a)
    BY <1>1, <1>2, <2>2, StartStep DEF Start, StartLocal
  <2>3. CASE Pull(a) \/ PullLocal(a)
    BY <1>1, <2>3, PullStep DEF Pull, PullLocal
  <2>4. CASE Complete(a) \/ Release(a) \/ CompleteLocal(a) \/ ReleaseLocal(a)
    BY <1>1, <1>2, <2>4, CloseStep DEF Complete, Release, CompleteLocal, ReleaseLocal
  <2>5. CASE Deliver(a)
    <3>1. UNCHANGED <<sessions, nextHandle, attempts>>
      BY <2>5, Zenon DEF Deliver
    <3> QED BY <1>1, <3>1, SameHandles DEF SessionInv, Shape
  <2> QED BY <2>1, <2>2, <2>3, <2>4, <2>5, Zenon
<1> QED BY <1>1, <1>3, <1>4

\* No start(), call with a handle given up, or reuse of handles ends or replaces the
\* session of a host that holds one open, whatever the number of handles and of hosts
\* (register_racing_session, pull, complete and release of both APIs).
THEOREM SessionHandlesAreOwned == Spec => []HandlesAreOwned
<1>1. SessionInv => HandlesAreOwned
  BY DEF SessionInv
<1> QED BY <1>1, SessionInit, SessionStep, PTL DEF Spec

------------------------------------------------------------------------------
(* The race behind a handle *)

\* The records of a race end with its completion.
Ended(records) == records # << >> /\ records[Len(records)].complete

Ticks(records) == {records[i].tick : i \in DOMAIN records}

\* What is known of the records an attempt was issued, while its session lives and
\* after.  A record's number may run ahead of its place, by the numbers that refused
\* batches used, and never falls behind it; if the completion is in its place, no lap
\* was refused.
IssuedInPlace(me) ==
  /\ me.records \in Seq(Record) /\ me.issued \in Seq(Seq(Record)) /\ me.failed \in BOOLEAN
  /\ me.handle = 0 => me.records = << >> /\ ~me.failed
  /\ \A i \in DOMAIN me.records :
       /\ me.records[i].sequence >= i - 1
       /\ i < Len(me.records) => ~me.records[i].complete
  /\ \A i \in DOMAIN me.issued : \A j \in DOMAIN me.issued[i] :
       \E k \in DOMAIN me.records : me.records[k] = me.issued[i][j]
  /\ Ended(me.records) /\ me.records[Len(me.records)].sequence = Len(me.records) - 1 =>
       Ticks(me.records) = 1..Laps /\ ~me.failed

LastCompletes(batches) == batches # << >> /\ batches[Len(batches)][1].complete

\* A result was given only to the attempt that owns it, at the end of its session.
GivenAtTheEnd(a, me) ==
  me.given # {} => me.given = {a} /\ me.closed /\ LastCompletes(me.issued)

\* The solvers of a session stand on one lap, unless one of them is done.
Together(solver) == \/ \A c \in Car : solver[c] = solver[1]
                    \/ \E c \in Car : solver[c] = Done

CanGoOn(s) == ~s.completed /\ \A c \in Car : s.solver[c] # Done

\* How a session stands to the records its owner holds.  Numbers are only ever used
\* up; as long as none was used in vain and every solver can go on, the owner holds
\* every lap up to the one the field stands on.
Progress(s, me) ==
  /\ s \in Session /\ Together(s.solver)
  /\ s.seq >= Len(me.records)
  /\ s.result <=> Ended(me.records)
  /\ s.result => LastCompletes(me.issued)
  /\ CanGoOn(s) /\ s.seq = Len(me.records) =>
       ~me.failed /\ Ticks(me.records) = 1..s.solver[1]

\* A consumer keeps one stream, of records that were issued to its attempt.
KeptOfIssued(kept, records) ==
  /\ kept.cursor \in Cursor /\ kept.accepted \in Seq(Record)
  /\ Ordered(kept.accepted) /\ Agrees(kept.cursor, kept.accepted)
  /\ \A i \in DOMAIN kept.accepted : \E k \in DOMAIN records : records[k] = kept.accepted[i]

RaceInv ==
  /\ SessionInv
  /\ \A a \in Attempts : IssuedInPlace(attempts[a]) /\ GivenAtTheEnd(a, attempts[a])
  /\ \A api \in Api : \A h \in DOMAIN sessions[api] :
       Progress(sessions[api][h], attempts[sessions[api][h].owner])
  /\ DOMAIN consumer = Attempts
  /\ \A a \in Attempts : KeptOfIssued(consumer[a], attempts[a].records)

\* The loop over the competitors keeps the field together or leaves one solver done.
LEMMA FieldMoves ==
  ASSUME NEW solver \in [Car -> 0..Done], Together(solver), NEW fails \in 0..Competitors
  PROVE  /\ AfterField(solver, fails) \in [Car -> 0..Done]
         /\ Together(AfterField(solver, fails))
         /\ Stopped(solver, fails) => \E c \in Car : AfterField(solver, fails)[c] = Done
         /\ ~Stopped(solver, fails) =>
              /\ \A c \in Car : solver[c] # Done
              /\ \A c \in Car : AfterField(solver, fails)[c] = solver[1] + 1
              /\ solver[1] \in 0..Laps
<1> DEFINE stops == {c \in Car : solver[c] = Done \/ c = fails}
           Passed(c) == \A s \in stops : c < s
           moved == AfterField(solver, fails)
<1>1. \A c \in Car : moved[c] = IF Passed(c) THEN solver[c] + 1
                                ELSE IF c = fails /\ \A s \in stops : c <= s THEN Done
                                ELSE solver[c]
  BY Zenon DEF AfterField
<1>2. moved = [c \in Car |-> moved[c]]
  BY Zenon DEF AfterField
<1> HIDE DEF moved
<1>3. \A c \in Car : c \in Nat /\ ~(c < c) /\ c <= c
  BY SessionAssumption DEF Car
<1>4. \A c \in stops : c \in Car /\ ~Passed(c)
  BY <1>3
<1>5. \A c \in Car : solver[c] \in 0..Done /\ (solver[c] # Done => solver[c] + 1 \in 0..Done)
  BY SessionAssumption DEF Done
<1>6. Done \in 0..Done
  BY SessionAssumption DEF Done
<1>7. \A c \in Car : moved[c] \in 0..Done
  <2> SUFFICES ASSUME NEW c \in Car PROVE moved[c] \in 0..Done
    OBVIOUS
  <2>1. CASE Passed(c)
    <3>1. c \notin stops
      BY <2>1, <1>4, Zenon
    <3>2. solver[c] # Done
      BY <3>1, Zenon
    <3> QED BY <1>1, <1>5, <2>1, <3>2, Zenon
  <2>2. CASE ~Passed(c)
    BY <1>1, <1>5, <1>6, <2>2, Zenon
  <2> QED BY <2>1, <2>2
<1>8. moved \in [Car -> 0..Done]
  BY <1>2, <1>7, Zenon
<1>9. ASSUME Stopped(solver, fails) PROVE \E c \in Car : moved[c] = Done
  <2>1. CASE \E c \in Car : solver[c] = Done
    <3>1. PICK c \in Car : solver[c] = Done
      BY <2>1, Zenon
    <3>2. ~Passed(c)
      BY <3>1, <1>4, Zenon
    <3> QED BY <3>1, <3>2, <1>1, Zenon
  <2>2. CASE ~(\E c \in Car : solver[c] = Done)
    <3>1. fails \in Car
      BY <1>9, <2>2, Zenon DEF Stopped
    <3>2. \A s \in stops : s = fails
      BY <2>2, Zenon
    <3>3. ~Passed(fails)
      BY <3>1, <1>4, Zenon
    <3>4. \A s \in stops : fails <= s
      BY <3>1, <3>2, <1>3, Zenon
    <3> QED BY <3>1, <3>3, <3>4, <1>1, Zenon
  <2> QED BY <2>1, <2>2
<1>10. 1 \in Car
  BY SessionAssumption DEF Car
<1>11. ASSUME ~Stopped(solver, fails)
       PROVE  /\ \A c \in Car : solver[c] # Done
              /\ \A c \in Car : moved[c] = solver[1] + 1
              /\ solver[1] \in 0..Laps
  <2>1. \A c \in Car : solver[c] # Done
    BY <1>11, Zenon DEF Stopped
  <2>2. fails \notin Car
    BY <1>11, Zenon DEF Stopped
  <2>3. stops = {}
    BY <2>1, <2>2, Zenon
  <2>4. \A c \in Car : solver[c] = solver[1]
    BY <2>1, Zenon DEF Together
  <2>5. \A c \in Car : moved[c] = solver[c] + 1
    BY <2>3, <1>1, Zenon
  <2>6. solver[1] \in 0..Laps
    BY <2>1, <1>5, <1>10, SessionAssumption DEF Done
  <2> QED BY <2>1, <2>4, <2>5, <2>6, Zenon
<1>12. Together(moved)
  <2>1. CASE Stopped(solver, fails)
    BY <2>1, <1>9, Zenon DEF Together
  <2>2. CASE ~Stopped(solver, fails)
    BY <2>2, <1>10, <1>11, Zenon DEF Together
  <2> QED BY <2>1, <2>2
<1> QED BY <1>8, <1>9, <1>11, <1>12, Zenon DEF moved

\* The three ways a pull can end: an error, the batch of a lap, the completion.
\* After an error the session is over, or a number was used in vain.
ErrorOutcome(s, outcome) ==
  /\ outcome.batch = << >> /\ ~outcome.session.result
  /\ outcome.session.seq >= s.seq
  /\ CanGoOn(outcome.session) => outcome.session.seq > s.seq

LapOutcome(s, outcome) ==
  /\ outcome.batch # << >> /\ ~outcome.session.result /\ CanGoOn(s)
  /\ outcome.session.seq = s.seq + Len(outcome.batch)
  /\ s.solver[1] \in 0..(Laps - 1) /\ outcome.session.solver[1] = s.solver[1] + 1
  /\ \A i \in DOMAIN outcome.batch :
       outcome.batch[i] = [sequence |-> s.seq + i - 1, tick |-> s.solver[1] + 1, complete |-> FALSE]

FinalOutcome(s, outcome) ==
  /\ outcome.batch = <<[sequence |-> s.seq, tick |-> Laps, complete |-> TRUE]>>
  /\ outcome.session.result /\ outcome.session.completed /\ CanGoOn(s)
  /\ outcome.session.seq = s.seq + 1 /\ s.solver[1] = Laps

AnOutcome(s, outcome) ==
  /\ outcome.session \in Session /\ outcome.session.owner = s.owner
  /\ Together(outcome.session.solver) /\ outcome.batch \in Seq(Record)
  /\ ErrorOutcome(s, outcome) \/ LapOutcome(s, outcome) \/ FinalOutcome(s, outcome)

\* advance() up to the next common lap.
LEMMA FieldOutcome ==
  ASSUME NEW s \in Session, Together(s.solver), ~s.result, ~s.completed,
         NEW fails \in 0..Competitors, NEW outcome \in FieldOutcomes(s, fails)
  PROVE  AnOutcome(s, outcome)
<1> DEFINE solver == AfterField(s.solver, fails)
           together == \A c \in Car : solver[c] = solver[1]
           stopped == [session |-> [s EXCEPT !.solver = solver], batch |-> << >>]
           completions == {Completion(s, solver, outputOk, resultOk) :
                             outputOk \in BOOLEAN, resultOk \in FinalStep(s)}
           laps == {LapCompleted(s, solver, n, made) : n \in LapRecords, made \in BOOLEAN}
<1>1. /\ s.owner \in Attempts /\ s.api \in Api /\ s.solver \in [Car -> 0..Done] /\ s.seq \in Nat
      /\ s.completed = FALSE /\ s.result = FALSE
      /\ s = [owner |-> s.owner, api |-> s.api, solver |-> s.solver, seq |-> s.seq,
              completed |-> s.completed, result |-> s.result]
  BY DEF Session
<1>2. /\ solver \in [Car -> 0..Done] /\ Together(solver)
      /\ Stopped(s.solver, fails) => \E c \in Car : solver[c] = Done
      /\ ~Stopped(s.solver, fails) =>
           /\ \A c \in Car : s.solver[c] # Done
           /\ \A c \in Car : solver[c] = s.solver[1] + 1
           /\ s.solver[1] \in 0..Laps
  BY <1>1, FieldMoves, Zenon
<1>3. 1 \in Car
  BY SessionAssumption DEF Car
<1>4. ~together => Stopped(s.solver, fails)
  BY <1>2, <1>3, Zenon
<1>5. outcome \in IF Stopped(s.solver, fails) \/ ~together THEN {stopped}
                  ELSE IF solver[1] = Done THEN completions ELSE laps
  BY DEF FieldOutcomes
<1> HIDE DEF solver, together
<1>6. << >> \in Seq(Record)
  OBVIOUS
<1>7. CASE outcome = stopped /\ (Stopped(s.solver, fails) \/ ~together)
  <2>1. \E c \in Car : solver[c] = Done
    BY <1>2, <1>4, <1>7, Zenon
  <2>2. outcome.batch = << >>
    BY <1>7
  <2>3. outcome.session = [owner |-> s.owner, api |-> s.api, solver |-> solver, seq |-> s.seq,
                           completed |-> FALSE, result |-> FALSE]
    BY <1>1, <1>7
  <2>4. /\ outcome.session \in Session /\ outcome.session.owner = s.owner
        /\ outcome.session.solver = solver /\ outcome.session.seq = s.seq
        /\ outcome.session.result = FALSE
    BY <1>1, <1>2, <2>3 DEF Session
  <2>5. ~CanGoOn(outcome.session)
    BY <2>1, <2>4, Zenon DEF CanGoOn
  <2>6. ErrorOutcome(s, outcome)
    BY <1>1, <2>2, <2>4, <2>5 DEF ErrorOutcome
  <2> QED BY <1>2, <1>6, <2>2, <2>4, <2>6, Zenon DEF AnOutcome
<1>8. ASSUME ~Stopped(s.solver, fails), solver[1] = Done,
             NEW outputOk \in BOOLEAN, NEW resultOk \in BOOLEAN,
             outcome = Completion(s, solver, outputOk, resultOk)
      PROVE  AnOutcome(s, outcome)
  <2>1. s.solver[1] = Laps /\ CanGoOn(s)
    <3>1. s.solver[1] + 1 = Laps + 1 /\ s.solver[1] \in 0..Laps
      BY <1>2, <1>3, <1>8 DEF Done
    <3>2. CanGoOn(s)
      BY <1>1, <1>2, <1>8, Zenon DEF CanGoOn
    <3> QED BY <3>1, <3>2, SessionAssumption
  <2>2. CASE ~outputOk
    <3>1. outcome = stopped
      BY <1>8, <2>2, Zenon DEF Completion
    <3>2. outcome.batch = << >>
      BY <3>1
    <3>3. outcome.session = [owner |-> s.owner, api |-> s.api, solver |-> solver, seq |-> s.seq,
                             completed |-> FALSE, result |-> FALSE]
      BY <1>1, <3>1
    <3>4. /\ outcome.session \in Session /\ outcome.session.owner = s.owner
          /\ outcome.session.solver = solver /\ outcome.session.seq = s.seq
          /\ outcome.session.result = FALSE
      BY <1>1, <1>2, <3>3 DEF Session
    <3>5. ~CanGoOn(outcome.session)
      BY <1>3, <1>8, <3>4, Zenon DEF CanGoOn
    <3>6. ErrorOutcome(s, outcome)
      BY <1>1, <3>2, <3>4, <3>5 DEF ErrorOutcome
    <3> QED BY <1>2, <1>6, <3>2, <3>4, <3>6, Zenon DEF AnOutcome
  <2>3. CASE outputOk
    <3> DEFINE last == [sequence |-> s.seq, tick |-> Laps, complete |-> TRUE]
    <3>1. /\ outcome.session = [s EXCEPT !.solver = solver, !.seq = @ + 1,
                                         !.completed = TRUE, !.result = resultOk]
          /\ outcome.batch = IF resultOk THEN <<last>> ELSE << >>
      BY <1>8, <2>3 DEF Completion
    <3>2. outcome.session = [owner |-> s.owner, api |-> s.api, solver |-> solver, seq |-> s.seq + 1,
                             completed |-> TRUE, result |-> resultOk]
      BY <1>1, <3>1
    <3>3. s.seq + 1 \in Nat /\ s.seq + 1 >= s.seq
      BY <1>1
    <3>4. /\ outcome.session \in Session /\ outcome.session.owner = s.owner
          /\ outcome.session.solver = solver /\ outcome.session.seq = s.seq + 1
          /\ outcome.session.completed = TRUE /\ outcome.session.result = resultOk
      BY <1>1, <1>2, <3>2, <3>3 DEF Session
    <3>5. <<last>> \in Seq(Record)
      BY <1>1, SessionAssumption DEF Record
    <3>6. CASE resultOk
      <4>1. FinalOutcome(s, outcome)
        BY <2>1, <3>1, <3>4, <3>6, Zenon DEF FinalOutcome
      <4> QED BY <1>2, <3>1, <3>4, <3>5, <3>6, <4>1, Zenon DEF AnOutcome
    <3>7. CASE ~resultOk
      <4>1. ErrorOutcome(s, outcome)
        BY <3>1, <3>3, <3>4, <3>7, Zenon DEF ErrorOutcome, CanGoOn
      <4> QED BY <1>2, <1>6, <3>1, <3>4, <3>7, <4>1, Zenon DEF AnOutcome
    <3> QED BY <3>6, <3>7
  <2> QED BY <2>2, <2>3
<1>9. ASSUME ~Stopped(s.solver, fails), solver[1] # Done,
             NEW n \in LapRecords, NEW made \in BOOLEAN,
             outcome = LapCompleted(s, solver, n, made)
      PROVE  AnOutcome(s, outcome)
  <2> DEFINE batch == [i \in 1..n |-> [sequence |-> s.seq + i - 1, tick |-> solver[1],
                                       complete |-> FALSE]]
  <2>1. n \in Nat /\ n > 0
    BY SessionAssumption
  <2>2. s.solver[1] \in 0..(Laps - 1) /\ solver[1] = s.solver[1] + 1 /\ solver[1] \in Nat
    BY <1>2, <1>3, <1>9, SessionAssumption DEF Done
  <2>3. CanGoOn(s)
    BY <1>1, <1>2, <1>9, Zenon DEF CanGoOn
  <2>4. /\ outcome.session = [s EXCEPT !.solver = solver, !.seq = @ + n]
        /\ outcome.batch = IF ~made \/ n > MaxRecords THEN << >> ELSE batch
    BY <1>9 DEF LapCompleted
  <2>5. outcome.session = [owner |-> s.owner, api |-> s.api, solver |-> solver, seq |-> s.seq + n,
                           completed |-> FALSE, result |-> FALSE]
    BY <1>1, <2>4
  <2>6. s.seq + n \in Nat /\ s.seq + n > s.seq /\ s.seq + n >= s.seq
    BY <1>1, <2>1
  <2>7. /\ outcome.session \in Session /\ outcome.session.owner = s.owner
        /\ outcome.session.solver = solver /\ outcome.session.seq = s.seq + n
        /\ outcome.session.completed = FALSE /\ outcome.session.result = FALSE
    BY <1>1, <1>2, <2>5, <2>6 DEF Session
  <2>8. CASE ~made \/ n > MaxRecords
    <3>1. ErrorOutcome(s, outcome)
      BY <2>4, <2>6, <2>7, <2>8, Zenon DEF ErrorOutcome
    <3> QED BY <1>2, <1>6, <2>4, <2>7, <2>8, <3>1, Zenon DEF AnOutcome
  <2>9. CASE ~(~made \/ n > MaxRecords)
    <3>1. \A i \in 1..n : /\ batch[i] = [sequence |-> s.seq + i - 1, tick |-> s.solver[1] + 1,
                                         complete |-> FALSE]
                          /\ batch[i] \in Record
      BY <1>1, <2>2 DEF Record
    <3>2. batch \in [1..n -> Record]
      BY <3>1, Zenon
    <3>3. outcome.batch = batch
      BY <2>4, <2>9
    <3> HIDE DEF batch
    <3>4. batch \in Seq(Record) /\ Len(batch) = n /\ DOMAIN batch = 1..n /\ batch # << >>
      BY <2>1, <3>2
    <3>5. LapOutcome(s, outcome)
      BY <2>2, <2>3, <2>7, <3>1, <3>3, <3>4, Zenon DEF LapOutcome
    <3> QED BY <1>2, <2>7, <3>3, <3>4, <3>5, Zenon DEF AnOutcome
  <2> QED BY <2>8, <2>9
<1>10. FinalStep(s) \subseteq BOOLEAN
  BY DEF FinalStep
<1>11. ASSUME outcome \in completions
       PROVE  \E outputOk \in BOOLEAN, resultOk \in BOOLEAN :
                outcome = Completion(s, solver, outputOk, resultOk)
  BY <1>10, <1>11
<1>12. ASSUME outcome \in laps
       PROVE  \E n \in LapRecords, made \in BOOLEAN : outcome = LapCompleted(s, solver, n, made)
  BY <1>12
<1> HIDE DEF stopped, completions, laps
<1>13. CASE ~Stopped(s.solver, fails) /\ solver[1] = Done /\ outcome \in completions
  BY <1>8, <1>11, <1>13, Zenon
<1>14. CASE ~Stopped(s.solver, fails) /\ solver[1] # Done /\ outcome \in laps
  BY <1>9, <1>12, <1>14, Zenon
<1> QED BY <1>5, <1>7, <1>13, <1>14, Zenon

\* advance(), whatever it meets.
LEMMA EveryOutcome ==
  ASSUME NEW s \in Session, Together(s.solver), ~s.result, NEW outcome \in AdvanceOutcomes(s)
  PROVE  AnOutcome(s, outcome)
<1>1. CASE s.completed
  <2>1. outcome = [session |-> s, batch |-> << >>]
    BY <1>1, Zenon DEF AdvanceOutcomes
  <2>2. outcome.session = s /\ outcome.batch = << >>
    BY <2>1
  <2>3. << >> \in Seq(Record) /\ s.seq \in Nat
    BY DEF Session
  <2>4. s.seq >= s.seq /\ ~CanGoOn(s)
    BY <1>1, <2>3 DEF CanGoOn
  <2> QED BY <2>2, <2>3, <2>4, Zenon DEF AnOutcome, ErrorOutcome
<1>2. CASE ~s.completed
  <2>1. PICK fails \in 0..Competitors : outcome \in FieldOutcomes(s, fails)
    BY <1>2, Zenon DEF AdvanceOutcomes
  <2> QED BY <1>2, <2>1, FieldOutcome
<1> QED BY <1>1, <1>2

\* Where the records of two joined sequences are.
LEMMA JoinedPlaces ==
  ASSUME NEW s \in Seq(Record), NEW t \in Seq(Record), NEW u, u = s \o t
  PROVE  /\ u \in Seq(Record) /\ Len(u) = Len(s) + Len(t)
         /\ \A i \in DOMAIN s : i \in DOMAIN u /\ u[i] = s[i]
         /\ \A j \in DOMAIN t : Len(s) + j \in DOMAIN u /\ u[Len(s) + j] = t[j]
         /\ \A i \in DOMAIN u : i \notin DOMAIN s => i - Len(s) \in DOMAIN t /\ u[i] = t[i - Len(s)]
<1> DEFINE n == Len(s)
           m == Len(t)
<1>1. /\ u \in Seq(Record) /\ Len(u) = n + m /\ n \in Nat /\ m \in Nat
      /\ \A i \in 1..n : u[i] = s[i]
      /\ \A i \in (n + 1)..(n + m) : u[i] = t[i - n]
  BY Joined
<1>2. DOMAIN u = 1..(n + m) /\ DOMAIN s = 1..n /\ DOMAIN t = 1..m
  BY <1>1
<1> HIDE DEF n, m
<1>3. \A i \in 1..n : i \in 1..(n + m)
  BY <1>1
<1>4. \A j \in 1..m : n + j \in 1..(n + m) /\ u[n + j] = t[j]
  <2> SUFFICES ASSUME NEW j \in 1..m PROVE n + j \in 1..(n + m) /\ u[n + j] = t[j]
    OBVIOUS
  <2>1. n + j \in (n + 1)..(n + m) /\ n + j \in 1..(n + m) /\ (n + j) - n = j
    BY <1>1
  <2>2. u[n + j] = t[(n + j) - n]
    BY <1>1, <2>1
  <2> QED BY <2>1, <2>2
<1>5. \A i \in 1..(n + m) : i \notin 1..n => i - n \in 1..m /\ u[i] = t[i - n]
  <2> SUFFICES ASSUME NEW i \in 1..(n + m), i \notin 1..n PROVE i - n \in 1..m /\ u[i] = t[i - n]
    OBVIOUS
  <2>1. i - n \in 1..m /\ i \in (n + 1)..(n + m)
    BY <1>1
  <2> QED BY <1>1, <2>1
<1> QED BY <1>1, <1>2, <1>3, <1>4, <1>5 DEF n, m

\* The last element of joined sequences is the last of the second.
LEMMA JoinedLast ==
  ASSUME NEW s \in Seq(Record), NEW t \in Seq(Record), t # << >>, NEW u, u = s \o t
  PROVE  u # << >> /\ u[Len(u)] = t[Len(t)]
<1>1. /\ Len(u) = Len(s) + Len(t) /\ u \in Seq(Record)
      /\ \A j \in DOMAIN t : Len(s) + j \in DOMAIN u /\ u[Len(s) + j] = t[j]
  BY ONLY s \in Seq(Record), t \in Seq(Record), u = s \o t, JoinedPlaces
<1>2. Len(t) \in DOMAIN t
  <2>1. DOMAIN t = 1..Len(t) /\ Len(t) \in Nat /\ Len(t) # 0
    OBVIOUS
  <2> QED BY <2>1
<1>3. u[Len(u)] = t[Len(t)] /\ Len(u) \in DOMAIN u
  BY <1>1, <1>2, Zenon
<1>4. u # << >>
  BY <1>1, <1>3
<1> QED BY <1>3, <1>4

\* A batch of one lap, or the completion, adds one lap to the laps held.
LEMMA TicksGrow ==
  ASSUME NEW R \in Seq(Record), NEW b \in Seq(Record), b # << >>, NEW lap \in Nat,
         \A j \in DOMAIN b : b[j].tick = lap
  PROVE  Ticks(R \o b) = Ticks(R) \cup {lap}
<1> DEFINE all == R \o b
<1>0. all = R \o b
  OBVIOUS
<1> HIDE DEF all
<1>1. /\ \A i \in DOMAIN R : i \in DOMAIN all /\ all[i] = R[i]
      /\ \A j \in DOMAIN b : Len(R) + j \in DOMAIN all /\ all[Len(R) + j] = b[j]
      /\ \A i \in DOMAIN all : i \notin DOMAIN R => i - Len(R) \in DOMAIN b /\ all[i] = b[i - Len(R)]
  BY ONLY R \in Seq(Record), b \in Seq(Record), <1>0, JoinedPlaces
<1>2. 1 \in DOMAIN b
  <2>1. DOMAIN b = 1..Len(b) /\ Len(b) \in Nat /\ Len(b) # 0
    OBVIOUS
  <2> QED BY <2>1
<1>3. \A x : x \in Ticks(all) <=> \E i \in DOMAIN all : x = all[i].tick
  BY DEF Ticks
<1>4. \A x : x \in Ticks(R) <=> \E i \in DOMAIN R : x = R[i].tick
  BY DEF Ticks
<1>5. \A x \in Ticks(all) : x \in Ticks(R) \/ x = lap
  BY <1>1, <1>3, <1>4
<1>6. Ticks(R) \subseteq Ticks(all) /\ lap \in Ticks(all)
  <2>1. \A x \in Ticks(R) : x \in Ticks(all)
    BY <1>1, <1>3, <1>4
  <2>2. lap \in Ticks(all)
    <3>1. Len(R) + 1 \in DOMAIN all /\ all[Len(R) + 1].tick = lap
      BY <1>1, <1>2
    <3> QED BY <1>3, <3>1, Zenon
  <2> QED BY <2>1, <2>2
<1> QED BY <1>5, <1>6 DEF all

\* Numbers that do not fall behind their places still do not after a batch.
LEMMA PlacesGrow ==
  ASSUME NEW R \in Seq(Record), NEW b \in Seq(Record), b # << >>, NEW seq \in Nat, seq >= Len(R),
         \A i \in DOMAIN R : R[i].sequence >= i - 1 /\ ~R[i].complete,
         \A j \in DOMAIN b : b[j].sequence = seq + j - 1 /\ (j < Len(b) => ~b[j].complete),
         NEW all, all = R \o b
  PROVE  \A i \in DOMAIN all : all[i].sequence >= i - 1 /\ (i < Len(all) => ~all[i].complete)
<1>1. /\ all \in Seq(Record) /\ Len(all) = Len(R) + Len(b)
      /\ \A i \in DOMAIN R : i \in DOMAIN all /\ all[i] = R[i]
      /\ \A j \in DOMAIN b : Len(R) + j \in DOMAIN all /\ all[Len(R) + j] = b[j]
      /\ \A i \in DOMAIN all : i \notin DOMAIN R => i - Len(R) \in DOMAIN b /\ all[i] = b[i - Len(R)]
  BY ONLY R \in Seq(Record), b \in Seq(Record), all = R \o b, JoinedPlaces
<1>2. Len(R) \in Nat /\ Len(b) \in Nat /\ DOMAIN b = 1..Len(b)
  OBVIOUS
<1> SUFFICES ASSUME NEW i \in DOMAIN all
             PROVE  all[i].sequence >= i - 1 /\ (i < Len(all) => ~all[i].complete)
  OBVIOUS
<1>3. CASE i \in DOMAIN R
  BY <1>1, <1>3, Zenon
<1>4. CASE i \notin DOMAIN R
  <2> DEFINE j == i - Len(R)
  <2>1. j \in DOMAIN b /\ all[i] = b[j]
    BY <1>1, <1>4, Zenon
  <2>2. i \in Nat
    BY <1>1, <1>2
  <2>3. seq + j - 1 >= i - 1 /\ (i < Len(all) => j < Len(b))
    BY <1>1, <1>2, <2>2
  <2> HIDE DEF j
  <2>4. all[i].sequence >= i - 1
    BY <2>1, <2>3
  <2> QED BY <2>1, <2>3, <2>4, Zenon
<1> QED BY <1>3, <1>4

\* The batches an attempt holds once another is appended.
LEMMA IssuedGrow ==
  ASSUME NEW batches \in Seq(Seq(Record)), NEW b \in Seq(Record), NEW after, after = Append(batches, b)
  PROVE  /\ after \in Seq(Seq(Record)) /\ after # << >> /\ after[Len(after)] = b
         /\ \A i \in DOMAIN after : (i \in DOMAIN batches /\ after[i] = batches[i]) \/ after[i] = b
<1>1. Len(batches) \in Nat
  OBVIOUS
<1>2. /\ after \in Seq(Seq(Record)) /\ Len(after) = Len(batches) + 1 /\ after # << >>
      /\ DOMAIN after = 1..(Len(batches) + 1) /\ DOMAIN batches = 1..Len(batches)
      /\ after[Len(batches) + 1] = b /\ \A i \in 1..Len(batches) : after[i] = batches[i]
  BY <1>1
<1> QED BY <1>1, <1>2

\* A pull keeps what is known of the records and of the session behind them.
LEMMA PullKeeps ==
  ASSUME NEW me, NEW after, NEW s, NEW outcome,
         IssuedInPlace(me), Progress(s, me), ~s.result, AnOutcome(s, outcome),
         after.handle = me.handle, me.handle # 0,
         after.issued = IF outcome.batch = << >> THEN me.issued ELSE Append(me.issued, outcome.batch),
         after.records = me.records \o outcome.batch,
         after.failed = (me.failed \/ outcome.batch = << >>)
  PROVE  /\ IssuedInPlace(after)
         /\ Progress(outcome.session, after)
         /\ \A k \in DOMAIN me.records :
              k \in DOMAIN after.records /\ after.records[k] = me.records[k]
<1> DEFINE R == me.records
           b == outcome.batch
           all == after.records
           t == outcome.session
           given == me.issued
           issued == after.issued
<1>1. R \in Seq(Record) /\ b \in Seq(Record) /\ given \in Seq(Seq(Record)) /\ all = R \o b
  BY Zenon DEF IssuedInPlace, AnOutcome
<1>2. /\ me.failed \in BOOLEAN /\ after.failed = (me.failed \/ b = << >>) /\ after.failed \in BOOLEAN
      /\ issued = IF b = << >> THEN given ELSE Append(given, b)
      /\ after.handle # 0
  BY DEF IssuedInPlace
<1>3. \A i \in DOMAIN given : \A j \in DOMAIN given[i] : \E k \in DOMAIN R : R[k] = given[i][j]
  BY Zenon DEF IssuedInPlace
<1>4. /\ s.seq \in Nat /\ s.seq >= Len(R) /\ s.solver[1] \in Nat /\ t.seq \in Nat
      /\ t \in Session /\ Together(t.solver) /\ ~Ended(R)
      /\ CanGoOn(s) /\ s.seq = Len(R) => ~me.failed /\ Ticks(R) = 1..s.solver[1]
  <2>1. s \in Session /\ t \in Session
    BY Zenon DEF Progress, AnOutcome
  <2>2. s.seq \in Nat /\ t.seq \in Nat /\ s.solver[1] \in Nat
    BY <2>1, SessionAssumption DEF Session, Car
  <2> QED BY <2>1, <2>2, Zenon DEF Progress, AnOutcome
<1>5. \A i \in DOMAIN R : R[i].sequence >= i - 1 /\ ~R[i].complete
  <2>1. \A i \in DOMAIN R : R[i].sequence >= i - 1 /\ (i < Len(R) => ~R[i].complete)
    BY Zenon DEF IssuedInPlace
  <2>2. DOMAIN R = 1..Len(R) /\ Len(R) \in Nat /\ (Len(R) > 0 => R # << >>)
    BY <1>1
  <2>3. Len(R) > 0 => ~R[Len(R)].complete
    BY <1>4, <2>2, Zenon DEF Ended
  <2>4. \A i \in DOMAIN R : i < Len(R) \/ (i = Len(R) /\ Len(R) > 0)
    BY <2>2
  <2> QED BY <2>1, <2>3, <2>4, Zenon
<1>6. ErrorOutcome(s, outcome) \/ LapOutcome(s, outcome) \/ FinalOutcome(s, outcome)
  BY Zenon DEF AnOutcome
<1>7. \A k \in DOMAIN R : k \in DOMAIN all /\ all[k] = R[k]
  <2> HIDE DEF R, b, all
  <2> QED BY ONLY <1>1, JoinedPlaces
<1>8. Len(all) = Len(R) + Len(b) /\ Len(R) \in Nat /\ Len(b) \in Nat /\ all \in Seq(Record)
  BY ONLY <1>1, JoinedPlaces
<1>9. CASE ErrorOutcome(s, outcome)
  <2>1. b = << >> /\ ~t.result /\ t.seq >= s.seq /\ (CanGoOn(t) => t.seq > s.seq)
    BY <1>9, Zenon DEF ErrorOutcome
  <2>2. all = R /\ issued = given
    <3>1. all = R
      BY <1>1, <2>1
    <3> QED BY <1>2, <2>1, <3>1, Zenon
  <2>3. ~Ended(all)
    BY <1>4, <2>2, Zenon
  <2>4. \A i \in DOMAIN all : all[i].sequence >= i - 1 /\ (i < Len(all) => ~all[i].complete)
    BY <1>5, <2>2, Zenon
  <2>5. t.seq >= Len(all) /\ ~(CanGoOn(t) /\ t.seq = Len(all))
    <3>1. Len(all) = Len(R)
      BY <2>2, Zenon
    <3>2. t.seq >= Len(R) /\ (t.seq > s.seq => t.seq # Len(R))
      BY <1>4, <1>8, <2>1
    <3> QED BY <2>1, <3>1, <3>2, Zenon
  <2>6. IssuedInPlace(after)
    <3>1. \A i \in DOMAIN issued : \A j \in DOMAIN issued[i] : \E k \in DOMAIN all : all[k] = issued[i][j]
      <4> HIDE DEF R, all, given, issued
      <4> QED BY <1>3, <2>2
    <3>2. issued \in Seq(Seq(Record))
      BY <1>1, <2>2, Zenon
    <3> QED BY <1>2, <1>8, <2>3, <2>4, <3>1, <3>2, Zenon DEF IssuedInPlace
  <2>7. Progress(t, after)
    BY <1>4, <2>1, <2>3, <2>5, Zenon DEF Progress
  <2> QED BY <1>7, <2>6, <2>7, Zenon
<1>10. ASSUME b # << >>
       PROVE  /\ issued \in Seq(Seq(Record)) /\ issued # << >> /\ issued[Len(issued)] = b
              /\ \A i \in DOMAIN issued : \A j \in DOMAIN issued[i] :
                   \E k \in DOMAIN all : all[k] = issued[i][j]
              /\ all # << >> /\ all[Len(all)] = b[Len(b)]
  <2>1. issued = Append(given, b)
    BY <1>2, <1>10, Zenon
  <2>2. all # << >> /\ all[Len(all)] = b[Len(b)]
    <3>1. R \in Seq(Record) /\ b \in Seq(Record) /\ b # << >> /\ all = R \o b
      BY <1>1, <1>10, Zenon
    <3> HIDE DEF R, b, all
    <3> QED BY ONLY <3>1, JoinedLast
  <2> HIDE DEF R, b, all, given, issued
  <2>3. /\ issued \in Seq(Seq(Record)) /\ issued # << >> /\ issued[Len(issued)] = b
        /\ \A i \in DOMAIN issued : (i \in DOMAIN given /\ issued[i] = given[i]) \/ issued[i] = b
    BY ONLY <1>1, <2>1, IssuedGrow
  <2>4. \A j \in DOMAIN b : \E k \in DOMAIN all : all[k] = b[j]
    <3>1. \A j \in DOMAIN b : Len(R) + j \in DOMAIN all /\ all[Len(R) + j] = b[j]
      BY ONLY <1>1, JoinedPlaces
    <3> QED BY <3>1, Zenon
  <2>5. \A i \in DOMAIN given : \A j \in DOMAIN given[i] : \E k \in DOMAIN all : all[k] = given[i][j]
    BY <1>3, <1>7, Zenon
  <2>6. \A i \in DOMAIN issued : \A j \in DOMAIN issued[i] : \E k \in DOMAIN all : all[k] = issued[i][j]
    BY ONLY <2>3, <2>4, <2>5
  <2> QED BY <2>2, <2>3, <2>6, Zenon
<1>11. CASE LapOutcome(s, outcome)
  <2> DEFINE lap == s.solver[1] + 1
  <2>1. /\ b # << >> /\ ~t.result /\ CanGoOn(s) /\ t.seq = s.seq + Len(b)
        /\ s.solver[1] \in 0..(Laps - 1) /\ t.solver[1] = lap
        /\ \A j \in DOMAIN b : b[j] = [sequence |-> s.seq + j - 1, tick |-> lap, complete |-> FALSE]
    BY <1>11, Zenon DEF LapOutcome
  <2>2. \A j \in DOMAIN b : b[j].sequence = s.seq + j - 1 /\ b[j].tick = lap /\ ~b[j].complete
    <3> HIDE DEF b, lap
    <3> SUFFICES ASSUME NEW j \in DOMAIN b
                 PROVE  b[j].sequence = s.seq + j - 1 /\ b[j].tick = lap /\ ~b[j].complete
      OBVIOUS
    <3>1. b[j] = [sequence |-> s.seq + j - 1, tick |-> lap, complete |-> FALSE]
      BY <2>1
    <3> QED BY <3>1
  <2>21. (\A j \in DOMAIN b : b[j].tick = lap) /\ lap \in Nat
    BY <1>4, <2>2
  <2>22. b # << >>
    BY <2>1, Zenon
  <2> HIDE DEF R, b, all, given, issued, lap
  <2>3. \A i \in DOMAIN all : all[i].sequence >= i - 1 /\ (i < Len(all) => ~all[i].complete)
    <3>1. \A j \in DOMAIN b : b[j].sequence = s.seq + j - 1 /\ (j < Len(b) => ~b[j].complete)
      BY ONLY <2>2, Zenon
    <3>2. R \in Seq(Record) /\ b \in Seq(Record) /\ all = R \o b
      BY ONLY <1>1, Zenon
    <3>3. s.seq \in Nat /\ s.seq >= Len(R)
      BY ONLY <1>4, Zenon
    <3> QED BY ONLY <1>5, <2>22, <3>1, <3>2, <3>3, PlacesGrow, Zenon
  <2>4. Ticks(all) = Ticks(R) \cup {lap}
    <3>1. Ticks(R \o b) = Ticks(R) \cup {lap}
      <4>1. R \in Seq(Record)
        BY ONLY <1>1
      <4>2. b \in Seq(Record)
        BY ONLY <1>1
      <4>3. lap \in Nat
        BY ONLY <2>21
      <4>4. \A j \in DOMAIN b : b[j].tick = lap
        BY ONLY <2>21
      <4> QED BY ONLY <4>1, <4>2, <4>3, <4>4, <2>22, TicksGrow
    <3> QED BY ONLY <1>1, <3>1
  <2>5. ~Ended(all)
    <3>1. Len(b) \in DOMAIN b
      <4>1. Len(b) # 0 /\ DOMAIN b = 1..Len(b)
        BY <1>1, <2>1
      <4> QED BY <1>8, <4>1
    <3> QED BY <1>10, <2>1, <2>2, <3>1, Zenon DEF Ended
  <2>6. IssuedInPlace(after)
    BY <1>2, <1>8, <1>10, <2>1, <2>3, <2>5, Zenon DEF IssuedInPlace, all, issued
  <2>7. t.seq >= Len(all) /\ (t.seq = Len(all) => s.seq = Len(R))
    BY <1>4, <1>8, <2>1
  <2>8. (1..s.solver[1]) \cup {lap} = 1..lap
    BY <1>4 DEF lap
  <2>9. t.seq = Len(all) => ~after.failed /\ Ticks(all) = 1..t.solver[1]
    BY <1>2, <1>4, <2>1, <2>4, <2>7, <2>8, Zenon
  <2>10. Progress(t, after)
    BY <1>4, <2>1, <2>5, <2>7, <2>9, Zenon DEF Progress, all
  <2> QED BY <1>7, <2>6, <2>10, Zenon DEF R, all
<1>12. CASE FinalOutcome(s, outcome)
  <2> DEFINE last == [sequence |-> s.seq, tick |-> Laps, complete |-> TRUE]
  <2>1. /\ b = <<last>> /\ t.result /\ t.completed /\ CanGoOn(s)
        /\ t.seq = s.seq + 1 /\ s.solver[1] = Laps
    BY <1>12, Zenon DEF FinalOutcome
  <2>2. last.complete = TRUE /\ last.sequence = s.seq /\ last.tick = Laps
    OBVIOUS
  <2> HIDE DEF last, R, b, all, given, issued
  <2>3. b # << >> /\ Len(b) = 1 /\ DOMAIN b = {1} /\ b[1] = last
    BY <2>1
  <2>4. \A j \in DOMAIN b : b[j].sequence = s.seq + j - 1 /\ (j < Len(b) => ~b[j].complete)
    BY <1>4, <2>2, <2>3
  <2>5. \A j \in DOMAIN b : b[j].tick = Laps
    BY <2>2, <2>3
  <2>6. \A i \in DOMAIN all : all[i].sequence >= i - 1 /\ (i < Len(all) => ~all[i].complete)
    <3>1. R \in Seq(Record) /\ b \in Seq(Record) /\ all = R \o b
      BY ONLY <1>1, Zenon
    <3>2. s.seq \in Nat /\ s.seq >= Len(R) /\ b # << >>
      BY ONLY <1>4, <2>3, Zenon
    <3> QED BY ONLY <1>5, <2>4, <3>1, <3>2, PlacesGrow, Zenon
  <2>7. Ticks(all) = Ticks(R) \cup {Laps}
    <3>1. Ticks(R \o b) = Ticks(R) \cup {Laps}
      BY ONLY <1>1, <2>3, <2>5, SessionAssumption, TicksGrow, Zenon
    <3> QED BY ONLY <1>1, <3>1
  <2>8. all[Len(all)] = last /\ all # << >>
    BY <1>10, <2>3, Zenon
  <2>9. Ended(all)
    BY <2>2, <2>8, Zenon DEF Ended
  <2>10. all[Len(all)].sequence = Len(all) - 1 => s.seq = Len(R)
    BY <1>4, <1>8, <2>2, <2>3, <2>8
  <2>11. (1..Laps) \cup {Laps} = 1..Laps
    BY SessionAssumption
  <2>12. all[Len(all)].sequence = Len(all) - 1 => Ticks(all) = 1..Laps /\ ~after.failed
    BY <1>2, <1>4, <2>1, <2>3, <2>7, <2>10, <2>11, Zenon
  <2>13. IssuedInPlace(after)
    BY <1>2, <1>8, <1>10, <2>3, <2>6, <2>12, Zenon DEF IssuedInPlace, all, issued
  <2>14. LastCompletes(issued)
    BY <1>10, <2>2, <2>3, Zenon DEF LastCompletes
  <2>15. t.seq >= Len(all) /\ ~CanGoOn(t)
    <3>1. t.seq = s.seq + 1 /\ Len(all) = Len(R) + 1
      BY ONLY <1>8, <2>1, <2>3, Zenon
    <3>2. s.seq \in Nat /\ s.seq >= Len(R) /\ Len(R) \in Nat
      BY ONLY <1>4, <1>8, Zenon
    <3>3. t.seq >= Len(all)
      BY ONLY <3>1, <3>2
    <3> QED BY <2>1, <3>3, Zenon DEF CanGoOn
  <2>16. Progress(t, after)
    BY <1>4, <2>1, <2>9, <2>14, <2>15, Zenon DEF Progress, all, issued
  <2> QED BY <1>7, <2>13, <2>16, Zenon DEF R, all
<1> QED BY <1>6, <1>9, <1>11, <1>12, Zenon

\* A consumer that has seen the completion holds every record that was issued.
LEMMA KeptWhole ==
  ASSUME NEW me, NEW kept, IssuedInPlace(me), KeptOfIssued(kept, me.records), kept.cursor.completed
  PROVE  kept.accepted = me.records /\ Ticks(me.records) = 1..Laps /\ ~me.failed
<1> DEFINE K == kept.accepted
           R == me.records
           n == Len(K)
           N == Len(R)
<1>1. K \in Seq(Record) /\ R \in Seq(Record) /\ Ordered(K) /\ Agrees(kept.cursor, K)
  BY Zenon DEF IssuedInPlace, KeptOfIssued
<1>2. n \in Nat /\ N \in Nat /\ DOMAIN K = 1..n /\ DOMAIN R = 1..N
  BY <1>1
<1>3. \A i \in DOMAIN R : R[i].sequence >= i - 1 /\ (i < N => ~R[i].complete)
  BY Zenon DEF IssuedInPlace
<1>4. \A i \in DOMAIN K : \E k \in DOMAIN R : R[k] = K[i]
  BY Zenon DEF KeptOfIssued
<1>5. Ended(R) /\ R[N].sequence = N - 1 => Ticks(R) = 1..Laps /\ ~me.failed
  BY Zenon DEF IssuedInPlace
<1>6. \A i \in DOMAIN K : K[i].sequence = i - 1
  BY <1>1, Zenon DEF Ordered
<1>7. K # << >> /\ K[n].complete
  <2>1. K # << >>
    <3>1. SUFFICES ASSUME K = << >> PROVE FALSE
      OBVIOUS
    <3>2. kept.cursor = NewCursor
      BY <1>1, <3>1, Zenon DEF Agrees
    <3> QED BY <3>2 DEF NewCursor
  <2>2. kept.cursor.completed = K[n].complete
    BY <1>1, <2>1, Zenon DEF Agrees, LastRecord
  <2> QED BY <2>1, <2>2
<1> HIDE DEF K, R, n, N
<1>8. \A i \in 1..n : i \in 1..N /\ K[i] = R[i]
  <2> DEFINE T == {i \in 1..n : ~(i \in 1..N /\ K[i] = R[i])}
  <2>1. SUFFICES ASSUME T # {} PROVE FALSE
    OBVIOUS
  <2>2. T \in SUBSET Nat
    BY <1>2
  <2> HIDE DEF T
  <2>3. PICK x \in T : \A y \in T : x <= y
    BY <2>1, <2>2, LeastNumber, Zenon
  <2>4. x \in 1..n /\ ~(x \in 1..N /\ K[x] = R[x])
    BY DEF T
  <2>5. PICK k \in 1..N : R[k] = K[x]
    BY <1>2, <1>4, <2>4
  <2>6. R[k].sequence = x - 1 /\ R[k].sequence >= k - 1
    BY <1>2, <1>3, <1>6, <2>4, <2>5
  <2>7. k <= x
    BY <2>4, <2>6
  <2>8. k # x
    BY <2>4, <2>5
  <2>9. k \in 1..n /\ k \notin T /\ ~(x <= k)
    BY <1>2, <2>3, <2>4, <2>7, <2>8
  <2>10. K[k] = R[k]
    BY <2>9 DEF T
  <2>11. K[k].sequence = k - 1 /\ K[x].sequence = x - 1
    BY <1>2, <1>6, <2>4, <2>9
  <2> QED BY <2>4, <2>5, <2>8, <2>10, <2>11
<1>9. n \in 1..n
  <2>1. n # 0
    BY <1>1, <1>7 DEF n
  <2> QED BY <1>2, <2>1
<1>10. n = N
  <2>1. n \in 1..N /\ K[n] = R[n]
    BY <1>8, <1>9
  <2>2. n < N => ~R[n].complete
    BY <1>2, <1>3, <2>1
  <2>3. ~(n < N)
    BY <1>7, <2>1, <2>2
  <2> QED BY <1>2, <2>1, <2>3
<1>11. K = R
  BY <1>1, <1>2, <1>8, <1>10 DEF n, N
<1>12. R # << >> /\ R[N].complete /\ R[N].sequence = N - 1
  BY <1>2, <1>6, <1>7, <1>9, <1>10, <1>11
<1>13. Ended(R)
  BY <1>12 DEF Ended, N
<1> QED BY <1>5, <1>11, <1>12, <1>13 DEF K, R

\* Only its own session has an attempt as its owner.
LEMMA OtherOwner ==
  ASSUME SessionInv, NEW a \in Attempts, NEW api \in Api, NEW g \in DOMAIN sessions[api],
         ~(attempts[a].api = api /\ attempts[a].handle = g)
  PROVE  sessions[api][g].owner \in Attempts /\ sessions[api][g].owner # a
BY DEF SessionInv, OwnersHold

\* What was issued does not depend on the rest of an attempt.
LEMMA SameIssued ==
  ASSUME NEW me, NEW after, IssuedInPlace(me), after.records = me.records,
         after.issued = me.issued, after.failed = me.failed,
         after.handle = 0 => me.handle = 0
  PROVE  IssuedInPlace(after)
BY DEF IssuedInPlace

\* start(): a new session, whose attempt has been issued nothing.
LEMMA StartKeepsRace ==
  ASSUME RaceInv, NEW a \in Attempts, NEW api \in Api, attempts[a].handle = 0,
         Register(NewSession(a, api)), consumer' = consumer
  PROVE  RaceInv'
<1>1. PICK h \in 1..MaxHandle :
        /\ h \notin DOMAIN sessions[api]
        /\ sessions' = With(api, h, NewSession(a, api))
        /\ attempts' = [attempts EXCEPT ![a].handle = h, ![a].api = api]
  <2>1. SessionInv
    BY Zenon DEF RaceInv
  <2> QED BY ONLY a \in Attempts, api \in Api, Register(NewSession(a, api)), <2>1, RegisterTakesVacant
<1>2. /\ \A b \in Attempts : b # a => attempts'[b] = attempts[b]
      /\ attempts'[a].handle = h
      /\ attempts'[a].closed = attempts[a].closed /\ attempts'[a].issued = attempts[a].issued
      /\ attempts'[a].records = attempts[a].records /\ attempts'[a].failed = attempts[a].failed
      /\ attempts'[a].given = attempts[a].given
  BY <1>1 DEF RaceInv, SessionInv, Shape, NewAttempt
<1>3. /\ \A other \in Api : other # api => sessions'[other] = sessions[other]
      /\ DOMAIN sessions'[api] = DOMAIN sessions[api] \cup {h}
      /\ \A g \in DOMAIN sessions[api] : sessions'[api][g] = sessions[api][g]
      /\ sessions'[api][h] = NewSession(a, api)
  BY <1>1 DEF With, RaceInv, SessionInv, Shape
<1>4. /\ \A b \in Attempts : IssuedInPlace(attempts[b]) /\ GivenAtTheEnd(b, attempts[b])
      /\ \A other \in Api : \A g \in DOMAIN sessions[other] :
           Progress(sessions[other][g], attempts[sessions[other][g].owner])
      /\ DOMAIN consumer = Attempts
      /\ \A b \in Attempts : KeptOfIssued(consumer[b], attempts[b].records)
  BY Zenon DEF RaceInv
<1>5. attempts[a].records = << >> /\ ~attempts[a].failed /\ h # 0
  <2>1. h # 0
    BY SessionAssumption
  <2> QED BY <1>4, <2>1, Zenon DEF IssuedInPlace
<1>6. IssuedInPlace(attempts'[a]) /\ GivenAtTheEnd(a, attempts'[a])
  <2>1. IssuedInPlace(attempts[a]) /\ GivenAtTheEnd(a, attempts[a])
    BY <1>4, Zenon
  <2>2. IssuedInPlace(attempts'[a])
    BY <1>2, <1>5, <2>1, SameIssued, Zenon
  <2>3. GivenAtTheEnd(a, attempts'[a])
    BY <1>2, <2>1 DEF GivenAtTheEnd
  <2> QED BY <2>2, <2>3
<1>7. Progress(NewSession(a, api), attempts'[a])
  <2> DEFINE s == NewSession(a, api)
  <2>1. /\ s \in Session /\ s.seq = 0 /\ s.result = FALSE
        /\ \A c \in Car : s.solver[c] = 0
    BY SessionAssumption DEF NewSession, Session, Done
  <2>2. 1 \in Car
    BY SessionAssumption DEF Car
  <2>3. s.solver[1] = 0 /\ Together(s.solver)
    BY <2>1, <2>2, Zenon DEF Together
  <2> HIDE DEF s
  <2>4. attempts'[a].records = << >> /\ ~attempts'[a].failed
    BY <1>2, <1>5, Zenon
  <2>5. Len(<< >>) = 0 /\ s.seq >= Len(<< >>) /\ 1..s.solver[1] = {}
    BY <2>1, <2>3
  <2>6. ~Ended(<< >>) /\ Ticks(<< >>) = {}
    BY DEF Ended, Ticks
  <2>7. Progress(s, attempts'[a])
    BY <2>1, <2>3, <2>4, <2>5, <2>6, Zenon DEF Progress
  <2> QED BY <2>7 DEF s
<1>8. ASSUME NEW other \in Api, NEW g \in DOMAIN sessions'[other]
      PROVE  Progress(sessions'[other][g], attempts'[sessions'[other][g].owner])
  <2>1. CASE other = api /\ g = h
    <3>1. NewSession(a, api).owner = a
      BY DEF NewSession
    <3> QED BY <1>3, <1>7, <2>1, <3>1, Zenon
  <2>2. CASE ~(other = api /\ g = h)
    <3>1. g \in DOMAIN sessions[other] /\ sessions'[other][g] = sessions[other][g]
      BY <1>3, <1>8, <2>2, Zenon
    <3>2. g # 0
      <4>1. g \in 1..MaxHandle
        BY <3>1, Zenon DEF RaceInv, SessionInv, Shape
      <4> QED BY ONLY <4>1, SessionAssumption
    <3>3. sessions[other][g].owner \in Attempts /\ sessions[other][g].owner # a
      BY <3>1, <3>2, OtherOwner, Zenon DEF RaceInv
    <3> QED BY <1>2, <1>4, <3>1, <3>3, Zenon
  <2> QED BY <2>1, <2>2
<1>9. \A b \in Attempts : IssuedInPlace(attempts'[b]) /\ GivenAtTheEnd(b, attempts'[b])
  BY <1>2, <1>4, <1>6, Zenon
<1>10. \A b \in Attempts : KeptOfIssued(consumer'[b], attempts'[b].records)
  BY <1>2, <1>4, Zenon
<1>11. SessionInv'
  BY StartStep, Zenon DEF RaceInv
<1>12. DOMAIN consumer' = Attempts
  BY <1>4, Zenon
<1> QED BY <1>8, <1>9, <1>10, <1>11, <1>12, Zenon DEF RaceInv

\* pull(): the records of the batch are added to those of the session's owner.
LEMMA PullKeepsRace ==
  ASSUME RaceInv, NEW a \in Attempts, NEW api \in Api, Calls(a, api), Advance(a)
  PROVE  RaceInv'
<1> DEFINE h == attempts[a].handle
           s == The(a)
<1>1. PICK outcome \in AdvanceOutcomes(s) :
        /\ sessions' = With(attempts[a].api, h, outcome.session)
        /\ attempts' = [attempts EXCEPT
             ![a].issued = IF outcome.batch = << >> THEN @ ELSE Append(@, outcome.batch),
             ![a].records = @ \o outcome.batch,
             ![a].failed = @ \/ outcome.batch = << >>]
  BY Zenon DEF Advance
<1>2. SessionInv /\ Live(a) /\ ~s.result /\ consumer' = consumer
  BY Zenon DEF RaceInv, Advance
<1>3. attempts[a].api = api /\ s.owner = a
  BY <1>2, CallsOwn, Zenon
<1>4. h \in DOMAIN sessions[api] /\ s = sessions[api][h] /\ h # 0
  BY <1>2, <1>3 DEF Live, The, Calls, StartedWith, Started
<1>5. /\ \A b \in Attempts : IssuedInPlace(attempts[b]) /\ GivenAtTheEnd(b, attempts[b])
      /\ \A other \in Api : \A g \in DOMAIN sessions[other] :
           Progress(sessions[other][g], attempts[sessions[other][g].owner])
      /\ DOMAIN consumer = Attempts
      /\ \A b \in Attempts : KeptOfIssued(consumer[b], attempts[b].records)
  BY Zenon DEF RaceInv
<1>6. /\ \A b \in Attempts : b # a => attempts'[b] = attempts[b]
      /\ attempts'[a].handle = h
      /\ attempts'[a].closed = attempts[a].closed /\ attempts'[a].given = attempts[a].given
      /\ attempts'[a].issued = IF outcome.batch = << >> THEN attempts[a].issued
                               ELSE Append(attempts[a].issued, outcome.batch)
      /\ attempts'[a].records = attempts[a].records \o outcome.batch
      /\ attempts'[a].failed = (attempts[a].failed \/ outcome.batch = << >>)
  <2>1. DOMAIN attempts = Attempts /\ DOMAIN attempts[a] = DOMAIN NewAttempt
    BY <1>2, Zenon DEF SessionInv, Shape
  <2>2. DOMAIN attempts[a] =
          {"handle", "api", "issued", "records", "failed", "given", "closed"}
    BY <2>1 DEF NewAttempt
  <2> DEFINE more == IF outcome.batch = << >> THEN attempts[a].issued
                     ELSE Append(attempts[a].issued, outcome.batch)
             longer == attempts[a].records \o outcome.batch
             bad == attempts[a].failed \/ outcome.batch = << >>
  <2>3. attempts' = [attempts EXCEPT ![a].issued = more, ![a].records = longer, ![a].failed = bad]
    BY <1>1
  <2> HIDE DEF more, longer, bad
  <2>4. /\ \A b \in Attempts : b # a => attempts'[b] = attempts[b]
        /\ attempts'[a].handle = h
        /\ attempts'[a].closed = attempts[a].closed /\ attempts'[a].given = attempts[a].given
        /\ attempts'[a].issued = more /\ attempts'[a].records = longer
        /\ attempts'[a].failed = bad
    BY <2>1, <2>2, <2>3
  <2> QED BY <2>4, Zenon DEF more, longer, bad
<1>7. /\ \A other \in Api : other # api => sessions'[other] = sessions[other]
      /\ DOMAIN sessions'[api] = DOMAIN sessions[api]
      /\ \A g \in DOMAIN sessions[api] :
           sessions'[api][g] = IF g = h THEN outcome.session ELSE sessions[api][g]
  BY <1>1, <1>2, <1>3, <1>4, Zenon DEF With, SessionInv, Shape
<1>8. Progress(s, attempts[a])
  BY <1>3, <1>4, <1>5, Zenon
<1>9. AnOutcome(s, outcome)
  BY <1>1, <1>2, <1>8, EveryOutcome, Zenon DEF Progress
<1> HIDE DEF s
<1>10. /\ IssuedInPlace(attempts'[a]) /\ Progress(outcome.session, attempts'[a])
       /\ \A k \in DOMAIN attempts[a].records :
            k \in DOMAIN attempts'[a].records /\ attempts'[a].records[k] = attempts[a].records[k]
  <2> DEFINE me == attempts[a]
             after == attempts'[a]
  <2>1. IssuedInPlace(me) /\ Progress(s, me) /\ me.handle # 0
    BY <1>4, <1>5, <1>8, Zenon
  <2>2. ~s.result
    BY <1>2
  <2>3. /\ after.handle = me.handle
        /\ after.issued = IF outcome.batch = << >> THEN me.issued
                          ELSE Append(me.issued, outcome.batch)
        /\ after.records = me.records \o outcome.batch
        /\ after.failed = (me.failed \/ outcome.batch = << >>)
    BY <1>6
  <2> HIDE DEF me, after
  <2>4. /\ IssuedInPlace(after) /\ Progress(outcome.session, after)
        /\ \A k \in DOMAIN me.records :
             k \in DOMAIN after.records /\ after.records[k] = me.records[k]
    BY ONLY <1>9, <2>1, <2>2, <2>3, PullKeeps, Zenon
  <2> QED BY <2>4 DEF me, after
<1>11. outcome.session.owner = a
  BY <1>3, <1>9, Zenon DEF AnOutcome
<1>12. GivenAtTheEnd(a, attempts'[a])
  <2>1. ~attempts[a].closed
    <3>1. sessions[api][h].owner = a
      BY <1>3, <1>4, Zenon
    <3>2. OwnersHold
      BY <1>2, Zenon DEF SessionInv
    <3>3. \A g \in DOMAIN sessions[api] : ~attempts[sessions[api][g].owner].closed
      BY ONLY <3>2, api \in Api, Zenon DEF OwnersHold
    <3>4. ~attempts[sessions[api][h].owner].closed
      BY ONLY <1>4, <3>3, Zenon
    <3> QED BY ONLY <3>1, <3>4, Zenon
  <2> QED BY <1>5, <1>6, <2>1, Zenon DEF GivenAtTheEnd
<1>13. ASSUME NEW other \in Api, NEW g \in DOMAIN sessions'[other]
       PROVE  Progress(sessions'[other][g], attempts'[sessions'[other][g].owner])
  <2>1. CASE other = api /\ g = h
    BY <1>4, <1>7, <1>10, <1>11, <2>1, Zenon
  <2>2. CASE ~(other = api /\ g = h)
    <3>1. g \in DOMAIN sessions[other] /\ sessions'[other][g] = sessions[other][g]
      BY <1>7, <1>13, <2>2, Zenon
    <3>2. sessions[other][g].owner \in Attempts /\ sessions[other][g].owner # a
      BY <1>2, <1>3, <2>2, <3>1, OtherOwner, Zenon
    <3> QED BY <1>5, <1>6, <3>1, <3>2, Zenon
  <2> QED BY <2>1, <2>2
<1>14. \A b \in Attempts : IssuedInPlace(attempts'[b]) /\ GivenAtTheEnd(b, attempts'[b])
  BY <1>5, <1>6, <1>10, <1>12, Zenon
<1>15. \A b \in Attempts : KeptOfIssued(consumer'[b], attempts'[b].records)
  <2>1. KeptOfIssued(consumer[a], attempts'[a].records)
    <3>1. KeptOfIssued(consumer[a], attempts[a].records)
      BY <1>5, Zenon
    <3>2. \A i \in DOMAIN consumer[a].accepted :
            \E k \in DOMAIN attempts'[a].records : attempts'[a].records[k] = consumer[a].accepted[i]
      BY <1>10, <3>1 DEF KeptOfIssued
    <3> QED BY <3>1, <3>2, Zenon DEF KeptOfIssued
  <2> QED BY <1>2, <1>5, <1>6, <2>1, Zenon
<1>16. SessionInv'
  BY <1>2, PullStep, Zenon
<1>17. DOMAIN consumer' = Attempts
  BY <1>2, <1>5, Zenon
<1> QED BY <1>13, <1>14, <1>15, <1>16, <1>17, Zenon DEF RaceInv

\* complete() and release(): a result is given to the session's owner, as its last act.
LEMMA CloseKeepsRace ==
  ASSUME RaceInv, NEW a \in Attempts, NEW api \in Api, Calls(a, api), Consume(a) \/ Forget(a)
  PROVE  RaceInv'
<1> DEFINE h == attempts[a].handle
           s == The(a)
<1>1. SessionInv /\ Live(a) /\ consumer' = consumer
  BY Zenon DEF RaceInv, Consume, Forget
<1>2. attempts[a].api = api /\ s.owner = a
  BY <1>1, CallsOwn, Zenon
<1>3. h \in DOMAIN sessions[api] /\ s = sessions[api][h]
  BY <1>1, <1>2, Zenon DEF Live, The
<1>4. /\ \A b \in Attempts : IssuedInPlace(attempts[b]) /\ GivenAtTheEnd(b, attempts[b])
      /\ \A other \in Api : \A g \in DOMAIN sessions[other] :
           Progress(sessions[other][g], attempts[sessions[other][g].owner])
      /\ DOMAIN consumer = Attempts
      /\ \A b \in Attempts : KeptOfIssued(consumer[b], attempts[b].records)
  BY Zenon DEF RaceInv
<1>5. /\ \A b \in Attempts : b # a => attempts'[b] = attempts[b]
      /\ attempts'[a].handle = h /\ attempts'[a].closed = TRUE
      /\ attempts'[a].issued = attempts[a].issued
      /\ attempts'[a].records = attempts[a].records
      /\ attempts'[a].failed = attempts[a].failed
  BY <1>1 DEF Consume, Forget, SessionInv, Shape, NewAttempt
<1>6. /\ \A other \in Api : other # api => sessions'[other] = sessions[other]
      /\ DOMAIN sessions'[api] = DOMAIN sessions[api] \ {h}
      /\ \A g \in DOMAIN sessions'[api] : sessions'[api][g] = sessions[api][g]
  BY <1>1, <1>2 DEF Consume, Forget, Without, SessionInv, Shape
<1>7. attempts[a].given = {}
  <2>1. ~attempts[a].closed
    BY <1>1, <1>2, <1>3 DEF SessionInv, OwnersHold
  <2> QED BY <1>4, <2>1, Zenon DEF GivenAtTheEnd
<1>8. \/ attempts'[a].given = attempts[a].given
      \/ attempts'[a].given = attempts[a].given \cup {s.owner} /\ s.result
  BY <1>1 DEF Consume, Forget, SessionInv, Shape, NewAttempt
<1>9. GivenAtTheEnd(a, attempts'[a])
  <2>1. CASE attempts'[a].given = {}
    BY <2>1, Zenon DEF GivenAtTheEnd
  <2>2. CASE attempts'[a].given # {}
    <3>1. attempts'[a].given = {a} /\ s.result
      BY <1>2, <1>7, <1>8, <2>2
    <3>2. LastCompletes(attempts[a].issued)
      <4>1. Progress(s, attempts[a])
        BY <1>2, <1>3, <1>4, Zenon
      <4> QED BY <3>1, <4>1, Zenon DEF Progress
    <3> QED BY <1>5, <3>1, <3>2, Zenon DEF GivenAtTheEnd
  <2> QED BY <2>1, <2>2
<1>10. IssuedInPlace(attempts'[a])
  <2>1. IssuedInPlace(attempts[a])
    BY <1>4, Zenon
  <2> QED BY <1>5, <2>1, SameIssued, Zenon
<1>11. ASSUME NEW other \in Api, NEW g \in DOMAIN sessions'[other]
       PROVE  Progress(sessions'[other][g], attempts'[sessions'[other][g].owner])
  <2>1. /\ g \in DOMAIN sessions[other] /\ sessions'[other][g] = sessions[other][g]
        /\ ~(other = api /\ g = h)
    BY <1>6, <1>11
  <2>2. sessions[other][g].owner \in Attempts /\ sessions[other][g].owner # a
    BY <1>1, <1>2, <2>1, OtherOwner, Zenon
  <2> QED BY <1>4, <1>5, <2>1, <2>2, Zenon
<1>12. \A b \in Attempts : IssuedInPlace(attempts'[b]) /\ GivenAtTheEnd(b, attempts'[b])
  BY <1>4, <1>5, <1>9, <1>10, Zenon
<1>13. \A b \in Attempts : KeptOfIssued(consumer'[b], attempts'[b].records)
  BY <1>1, <1>4, <1>5, Zenon
<1>14. SessionInv'
  BY <1>1, CloseStep, Zenon
<1>15. DOMAIN consumer' = Attempts
  BY <1>1, <1>4, Zenon
<1> QED BY <1>11, <1>12, <1>13, <1>14, <1>15, Zenon DEF RaceInv

\* A batch that was issued is handed to the consumer.
LEMMA DeliverKeepsRace ==
  ASSUME RaceInv, NEW a \in Attempts, Deliver(a)
  PROVE  RaceInv'
<1> DEFINE kept == consumer[a]
           R == attempts[a].records
<1>1. PICK i \in DOMAIN attempts[a].issued :
        /\ Accepts(kept.cursor, attempts[a].issued[i])
        /\ consumer' = [consumer EXCEPT ![a] =
             [cursor |-> Advanced(attempts[a].issued[i]),
              accepted |-> kept.accepted \o attempts[a].issued[i]]]
  BY DEF Deliver
<1>2. UNCHANGED <<sessions, nextHandle, attempts>>
  BY Zenon DEF Deliver
<1> DEFINE batch == attempts[a].issued[i]
           all == kept.accepted \o batch
<1>3. /\ \A b \in Attempts : IssuedInPlace(attempts[b]) /\ GivenAtTheEnd(b, attempts[b])
      /\ \A other \in Api : \A g \in DOMAIN sessions[other] :
           Progress(sessions[other][g], attempts[sessions[other][g].owner])
      /\ DOMAIN consumer = Attempts
      /\ \A b \in Attempts : KeptOfIssued(consumer[b], attempts[b].records)
  BY Zenon DEF RaceInv
<1>4. /\ kept.cursor \in Cursor /\ kept.accepted \in Seq(Record)
      /\ Ordered(kept.accepted) /\ Agrees(kept.cursor, kept.accepted)
      /\ \A j \in DOMAIN kept.accepted : \E k \in DOMAIN R : R[k] = kept.accepted[j]
  BY <1>3, Zenon DEF KeptOfIssued
<1>5. batch \in Seq(Record) /\ \A j \in DOMAIN batch : \E k \in DOMAIN R : R[k] = batch[j]
  <2>1. /\ attempts[a].issued \in Seq(Seq(Record))
        /\ \A n \in DOMAIN attempts[a].issued : \A j \in DOMAIN attempts[a].issued[n] :
             \E k \in DOMAIN R : R[k] = attempts[a].issued[n][j]
    BY <1>3, Zenon DEF IssuedInPlace
  <2>2. batch \in Seq(Record)
    <3> DEFINE S == attempts[a].issued
               B == Seq(Record)
    <3>1. S \in Seq(B) /\ i \in DOMAIN S
      BY <1>1, <2>1, Zenon
    <3> HIDE DEF S, B
    <3>2. S[i] \in B
      BY ONLY <3>1
    <3> QED BY <3>2, Zenon DEF S, B
  <2> QED BY <1>1, <2>1, <2>2, Zenon
<1>6. DOMAIN consumer' = Attempts /\ \A b \in Attempts :
        consumer'[b] = IF b = a THEN [cursor |-> Advanced(batch), accepted |-> all] ELSE consumer[b]
  BY <1>1, <1>3, Zenon
<1> HIDE DEF batch
<1>7. /\ Advanced(batch) \in Cursor /\ all \in Seq(Record)
      /\ Ordered(all) /\ Agrees(Advanced(batch), all)
  BY <1>1, <1>4, <1>5, AcceptKeeps, Zenon DEF batch
<1>8. \A j \in DOMAIN all : \E k \in DOMAIN R : R[k] = all[j]
  <2> HIDE DEF R, kept, all
  <2>1. all = kept.accepted \o batch
    BY DEF all
  <2>2. /\ \A j \in DOMAIN kept.accepted : j \in DOMAIN all /\ all[j] = kept.accepted[j]
        /\ \A j \in DOMAIN all : j \notin DOMAIN kept.accepted =>
             j - Len(kept.accepted) \in DOMAIN batch /\ all[j] = batch[j - Len(kept.accepted)]
    BY ONLY <1>4, <1>5, <2>1, JoinedPlaces
  <2>3. ASSUME NEW j \in DOMAIN all PROVE \E k \in DOMAIN R : R[k] = all[j]
    <3>1. CASE j \in DOMAIN kept.accepted
      BY <1>4, <2>2, <3>1, Zenon
    <3>2. CASE j \notin DOMAIN kept.accepted
      <4> DEFINE m == j - Len(kept.accepted)
      <4>1. m \in DOMAIN batch /\ all[j] = batch[m]
        BY <2>2, <3>2, Zenon
      <4> HIDE DEF m
      <4> QED BY <1>5, <4>1, Zenon
    <3> QED BY <3>1, <3>2
  <2> QED BY <2>3
<1>9. KeptOfIssued([cursor |-> Advanced(batch), accepted |-> all], R)
  <2> DEFINE now == [cursor |-> Advanced(batch), accepted |-> all]
  <2>1. now.cursor = Advanced(batch) /\ now.accepted = all
    OBVIOUS
  <2> HIDE DEF now, all
  <2>2. KeptOfIssued(now, R)
    BY <1>7, <1>8, <2>1, Zenon DEF KeptOfIssued
  <2> QED BY <2>2 DEF now
<1>10. \A b \in Attempts : KeptOfIssued(consumer'[b], attempts'[b].records)
  <2> SUFFICES ASSUME NEW b \in Attempts PROVE KeptOfIssued(consumer'[b], attempts[b].records)
    BY <1>2
  <2>1. CASE b = a
    BY <1>6, <1>9, <2>1, Zenon
  <2>2. CASE b # a
    BY <1>3, <1>6, <2>2, Zenon
  <2> QED BY <2>1, <2>2
<1>11. SessionInv'
  BY <1>2, SameHandles DEF RaceInv, SessionInv, Shape
<1>12. /\ \A b \in Attempts : IssuedInPlace(attempts'[b]) /\ GivenAtTheEnd(b, attempts'[b])
       /\ \A other \in Api : \A g \in DOMAIN sessions'[other] :
            Progress(sessions'[other][g], attempts'[sessions'[other][g].owner])
  BY <1>2, <1>3, Zenon
<1> QED BY <1>6, <1>10, <1>11, <1>12, Zenon DEF RaceInv

\* The invariant says what a host and a consumer may rely on.
LEMMA RaceInvMeans == RaceInv => RaceIsWholeAndOwn /\ LockStep
<1> SUFFICES ASSUME RaceInv PROVE RaceIsWholeAndOwn /\ LockStep
  OBVIOUS
<1>1. /\ SessionInv
      /\ \A b \in Attempts : IssuedInPlace(attempts[b]) /\ GivenAtTheEnd(b, attempts[b])
      /\ \A other \in Api : \A g \in DOMAIN sessions[other] :
           Progress(sessions[other][g], attempts[sessions[other][g].owner])
      /\ \A b \in Attempts : KeptOfIssued(consumer[b], attempts[b].records)
  BY Zenon DEF RaceInv
<1>2. CompleteMeansWhole
  <2> SUFFICES ASSUME NEW a \in Attempts, consumer[a].cursor.completed
               PROVE  /\ consumer[a].accepted = attempts[a].records
                      /\ {consumer[a].accepted[i].tick : i \in DOMAIN consumer[a].accepted} = 1..Laps
                      /\ ~attempts[a].failed
    BY Zenon DEF CompleteMeansWhole
  <2>1. /\ consumer[a].accepted = attempts[a].records /\ ~attempts[a].failed
        /\ Ticks(attempts[a].records) = 1..Laps
    BY <1>1, KeptWhole, Zenon
  <2> QED BY <2>1 DEF Ticks
<1>3. ResultIsOwnAndFinal
  <2> SUFFICES ASSUME NEW a \in Attempts, attempts[a].given # {}
               PROVE  /\ attempts[a].given = {a}
                      /\ attempts[a].issued # << >> /\ attempts[a].issued[Len(attempts[a].issued)][1].complete
                      /\ ~Live(a) \/ The(a).owner # a
    BY Zenon DEF ResultIsOwnAndFinal
  <2>1. attempts[a].given = {a} /\ attempts[a].closed /\ LastCompletes(attempts[a].issued)
    BY <1>1, Zenon DEF GivenAtTheEnd
  <2>2. Live(a) /\ The(a).owner = a => ~attempts[a].closed
    <3>1. attempts[a].api \in Api
      BY <1>1, Zenon DEF SessionInv, Shape
    <3>2. OwnersHold
      BY <1>1, Zenon DEF SessionInv
    <3>3. ASSUME Live(a), The(a).owner = a PROVE ~attempts[a].closed
      <4> DEFINE f == attempts[a].api
                 g == attempts[a].handle
      <4>1. f \in Api /\ g \in DOMAIN sessions[f] /\ sessions[f][g].owner = a
        BY <3>1, <3>3, Zenon DEF Live, The
      <4> HIDE DEF f, g
      <4>2. ~attempts[sessions[f][g].owner].closed
        BY ONLY <3>2, <4>1, Zenon DEF OwnersHold
      <4> QED BY ONLY <4>1, <4>2, Zenon
    <3> QED BY <3>3, Zenon
  <2> QED BY <2>1, <2>2, Zenon DEF LastCompletes
<1>4. LockStep
  BY <1>1, Zenon DEF LockStep, Progress, Together
<1> QED BY <1>2, <1>3, <1>4, Zenon DEF RaceIsWholeAndOwn

\* No attempt has been started: nothing was issued and nothing kept.
LEMMA RaceInit == Init => RaceInv
<1> SUFFICES ASSUME Init PROVE RaceInv
  OBVIOUS
<1>1. SessionInv
  BY SessionInit
<1>2. \A api \in Api : DOMAIN sessions[api] = {}
  BY DEF Init
<1>3. /\ \A a \in Attempts : attempts[a] = NewAttempt
      /\ DOMAIN consumer = Attempts
      /\ \A a \in Attempts : consumer[a] = [cursor |-> NewCursor, accepted |-> << >>]
  BY DEF Init
<1>4. << >> \in Seq(Record) /\ << >> \in Seq(Seq(Record)) /\ ~Ended(<< >>)
  BY DEF Ended
<1>5. /\ NewAttempt.records = << >> /\ NewAttempt.issued = << >> /\ NewAttempt.failed = FALSE
      /\ NewAttempt.given = {}
  BY DEF NewAttempt
<1>6. IssuedInPlace(NewAttempt)
  <2>1. \A i \in DOMAIN << >> : FALSE
    OBVIOUS
  <2> QED BY <1>4, <1>5, <2>1, Zenon DEF IssuedInPlace
<1>7. \A a \in Attempts : GivenAtTheEnd(a, NewAttempt)
  BY <1>5, Zenon DEF GivenAtTheEnd
<1>8. KeptOfIssued([cursor |-> NewCursor, accepted |-> << >>], NewAttempt.records)
  <2>1. NewCursor \in Cursor /\ Ordered(<< >>) /\ Agrees(NewCursor, << >>)
    BY DEF NewCursor, Cursor, Ordered, Agrees
  <2>2. \A i \in DOMAIN << >> : FALSE
    OBVIOUS
  <2> DEFINE kept == [cursor |-> NewCursor, accepted |-> << >>]
  <2>3. kept.cursor = NewCursor /\ kept.accepted = << >>
    OBVIOUS
  <2> HIDE DEF kept
  <2>4. KeptOfIssued(kept, NewAttempt.records)
    BY <1>4, <2>1, <2>2, <2>3, Zenon DEF KeptOfIssued
  <2> QED BY <2>4 DEF kept
<1> QED BY <1>1, <1>2, <1>3, <1>6, <1>7, <1>8, Zenon DEF RaceInv

\* Every step keeps the invariant.
LEMMA RaceStep == RaceInv /\ [Next]_vars => RaceInv'
<1> SUFFICES ASSUME RaceInv, [Next]_vars PROVE RaceInv'
  OBVIOUS
<1>1. "authorized" \in Api /\ "local" \in Api
  BY DEF Api
<1>2. CASE UNCHANGED vars
  <2>1. sessions' = sessions /\ attempts' = attempts /\ consumer' = consumer
    BY <1>2 DEF vars
  <2>2. SessionInv'
    BY SessionStep DEF RaceInv
  <2> QED BY <2>1, <2>2, Zenon DEF RaceInv
<1>3. CASE Next
  <2>1. PICK a \in Attempts :
          \/ Start(a) \/ Pull(a) \/ Complete(a) \/ Release(a)
          \/ StartLocal(a) \/ PullLocal(a) \/ CompleteLocal(a) \/ ReleaseLocal(a)
          \/ Deliver(a)
    BY <1>3, Zenon DEF Next
  <2>2. CASE Start(a) \/ StartLocal(a)
    BY <1>1, <2>2, StartKeepsRace, Zenon DEF Start, StartLocal
  <2>3. CASE Pull(a) \/ PullLocal(a)
    BY <1>1, <2>3, PullKeepsRace, Zenon DEF Pull, PullLocal
  <2>4. CASE Complete(a) \/ Release(a) \/ CompleteLocal(a) \/ ReleaseLocal(a)
    BY <1>1, <2>4, CloseKeepsRace, Zenon DEF Complete, Release, CompleteLocal, ReleaseLocal
  <2>5. CASE Deliver(a)
    BY <2>5, DeliverKeepsRace, Zenon
  <2> QED BY <2>1, <2>2, <2>3, <2>4, <2>5, Zenon
<1> QED BY <1>2, <1>3

\* A consumer that saw a race complete holds all of it, every lap, and none of it was
\* refused on the way; a host is given the result of its own race and no other, once
\* and only after the completion: for every number of attempts, cars, laps, records
\* and handles, and whatever the host calls in whatever order.
THEOREM RacesAreWholeAndOwn == Spec => []RaceIsWholeAndOwn
<1>1. RaceInv => RaceIsWholeAndOwn
  BY RaceInvMeans
<1> QED BY <1>1, RaceInit, RaceStep, PTL DEF Spec

\* The solvers of a session stand on one lap whenever it can still issue one.
THEOREM FieldInLockStep == Spec => []LockStep
<1>1. RaceInv => LockStep
  BY RaceInvMeans
<1> QED BY <1>1, RaceInit, RaceStep, PTL DEF Spec

==============================================================================
