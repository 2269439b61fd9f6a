---------------------------- MODULE AccessProofs -----------------------------
(****************************************************************************)
(* AccessControl keeps its promises for every set of readers, tokens,       *)
(* settings and keys.  Four arguments: a window of the limiter bounds the   *)
(* admissions in it and in the seconds just before it; a table that was     *)
(* cleaned up differs from one that was not only in windows that are over;  *)
(* the entries of a reader in the log are the end of its checks, through    *)
(* every append and every drop of the oldest entry; and a reader's verdict  *)
(* stands, between the check and the log, because nobody may change the     *)
(* controller meanwhile.                                                    *)
(****************************************************************************)
EXTENDS AccessControl, FiniteSetTheorems, TLAPS

------------------------------------------------------------------------------
(* The limiter *)

Request == [key : Keys, at : Nat, ok : BOOLEAN]

AWindow == [count : 0..MaxRequests, start : Nat]

\* The requests of a key that were admitted from lo to hi.
Hits(asked, k, lo, hi) ==
  {i \in DOMAIN asked : /\ asked[i].key = k /\ asked[i].ok
                        /\ asked[i].at \in lo..hi}

\* How a key's window stands to the requests it was asked.  None was admitted after
\* the window, those in it are counted, and those of the seconds just before it are
\* all of one window, the last.
WindowHolds(asked, k, w, t) ==
  /\ w \in AWindow /\ w.start <= t
  /\ \A i \in DOMAIN asked : asked[i].key = k /\ asked[i].ok =>
       asked[i].at <= t /\ asked[i].at <= w.start + WindowSecs
  /\ Cardinality(Hits(asked, k, w.start, w.start + WindowSecs)) <= w.count
  /\ \A lo \in Nat : lo + WindowSecs >= w.start =>
       Cardinality(Hits(asked, k, lo, w.start - 1)) <= MaxRequests
  /\ \A lo \in Nat : Cardinality(Hits(asked, k, lo, lo + WindowSecs)) <= 2 * MaxRequests

LimiterInv ==
  /\ now \in Nat /\ admitted \in Seq(Request)
  /\ DOMAIN counts \subseteq DOMAIN uncleaned /\ DOMAIN uncleaned \subseteq Keys
  /\ \A k \in DOMAIN uncleaned : WindowHolds(admitted, k, uncleaned[k], now)
  /\ \A k \in Keys \ DOMAIN uncleaned : \A i \in DOMAIN admitted : admitted[i].key # k
  /\ \A k \in DOMAIN uncleaned :
       IF k \in DOMAIN counts THEN counts[k] = uncleaned[k]
       ELSE now - uncleaned[k].start > WindowSecs

\* Requests are counted in finite sets.
LEMMA HitsFinite ==
  ASSUME NEW asked \in Seq(Request), NEW k, NEW lo, NEW hi
  PROVE  /\ IsFiniteSet(Hits(asked, k, lo, hi))
         /\ Cardinality(Hits(asked, k, lo, hi)) \in Nat
<1>1. IsFiniteSet(1..Len(asked)) /\ DOMAIN asked = 1..Len(asked)
  BY FS_Interval
<1>2. Hits(asked, k, lo, hi) \in SUBSET (1..Len(asked))
  BY <1>1 DEF Hits
<1>3. IsFiniteSet(Hits(asked, k, lo, hi))
  BY <1>1, <1>2, FS_Subset
<1> QED BY <1>3, FS_CardinalityType

\* More seconds hold more requests.
LEMMA HitsWithin ==
  ASSUME NEW asked \in Seq(Request), NEW k, NEW lo, NEW hi, NEW lo2, NEW hi2,
         Hits(asked, k, lo, hi) \subseteq Hits(asked, k, lo2, hi2)
  PROVE  Cardinality(Hits(asked, k, lo, hi)) <= Cardinality(Hits(asked, k, lo2, hi2))
BY HitsFinite, FS_Subset

\* A request that is admitted is one more in the seconds it falls in.
LEMMA HitsGrow ==
  ASSUME NEW asked \in Seq(Request), NEW e \in Request, NEW k, NEW lo, NEW hi
  PROVE  Cardinality(Hits(Append(asked, e), k, lo, hi)) =
           IF e.key = k /\ e.ok /\ e.at \in lo..hi
           THEN Cardinality(Hits(asked, k, lo, hi)) + 1
           ELSE Cardinality(Hits(asked, k, lo, hi))
<1> DEFINE n == Len(asked) + 1
           new == Append(asked, e)
           before == Hits(asked, k, lo, hi)
<1>1. /\ DOMAIN new = DOMAIN asked \cup {n} /\ n \notin DOMAIN asked /\ new[n] = e
      /\ \A i \in DOMAIN asked : new[i] = asked[i]
  OBVIOUS
<1>2. IsFiniteSet(before) /\ n \notin before
  <2>1. IsFiniteSet(before)
    BY HitsFinite, Zenon
  <2>2. n \notin before
    BY <1>1, Zenon DEF Hits
  <2> QED BY <2>1, <2>2
<1>3. CASE e.key = k /\ e.ok /\ e.at \in lo..hi
  <2>1. Hits(new, k, lo, hi) = before \cup {n}
    BY <1>1, <1>3, Zenon DEF Hits
  <2> HIDE DEF before, n, new
  <2>2. Cardinality(before \cup {n}) = Cardinality(before) + 1
    BY <1>2, FS_AddElement
  <2> QED BY <1>3, <2>1, <2>2 DEF before, new
<1>4. CASE ~(e.key = k /\ e.ok /\ e.at \in lo..hi)
  <2>1. Hits(new, k, lo, hi) = before
    BY <1>1, <1>4, Zenon DEF Hits
  <2> QED BY <1>4, <2>1
<1> QED BY <1>3, <1>4

\* A span that ends in or after the current window holds at most the requests before
\* the window and those in it.
LEMMA HitsSplit ==
  ASSUME NEW asked \in Seq(Request), NEW k, NEW lo \in Nat, NEW s \in Nat,
         \A i \in DOMAIN asked : asked[i].key = k /\ asked[i].ok => asked[i].at <= s + WindowSecs
  PROVE  Cardinality(Hits(asked, k, lo, lo + WindowSecs)) <=
           Cardinality(Hits(asked, k, lo, s - 1)) + Cardinality(Hits(asked, k, s, s + WindowSecs))
<1> DEFINE A == Hits(asked, k, lo, s - 1)
           B == Hits(asked, k, s, s + WindowSecs)
           C == Hits(asked, k, lo, lo + WindowSecs)
<1>0. WindowSecs \in Nat
  BY AccessAssumption
<1>1. C \in SUBSET (A \cup B)
  <2> SUFFICES ASSUME NEW i \in C PROVE i \in A \cup B
    OBVIOUS
  <2>1. i \in DOMAIN asked /\ asked[i].key = k /\ asked[i].ok /\ asked[i].at \in lo..(lo + WindowSecs)
    BY DEF Hits
  <2>2. asked[i].at \in Int /\ asked[i].at <= s + WindowSecs
    BY <2>1
  <2>3. asked[i].at \in lo..(s - 1) \/ asked[i].at \in s..(s + WindowSecs)
    BY <1>0, <2>1, <2>2
  <2> QED BY <2>1, <2>3, Zenon DEF Hits
<1>2. /\ IsFiniteSet(A) /\ Cardinality(A) \in Nat /\ IsFiniteSet(B) /\ Cardinality(B) \in Nat
      /\ Cardinality(C) \in Nat
  BY HitsFinite
<1> HIDE DEF A, B, C
<1>3. IsFiniteSet(A \cap B) /\ Cardinality(A \cap B) \in Nat
  BY <1>2, FS_Intersection, FS_CardinalityType
<1>4. IsFiniteSet(A \cup B) /\ Cardinality(A \cup B) = Cardinality(A) + Cardinality(B) - Cardinality(A \cap B)
  BY <1>2, FS_Union
<1>5. Cardinality(C) <= Cardinality(A \cup B)
  BY <1>1, <1>4, FS_Subset
<1>6. Cardinality(C) <= Cardinality(A) + Cardinality(B)
  BY <1>2, <1>3, <1>4, <1>5
<1> QED BY <1>6 DEF A, B, C

\* RateLimiter::check on one window: the request is admitted in a window that has room
\* or that is over, and the window stands to all requests as before.
LEMMA WindowAsked ==
  ASSUME NEW asked \in Seq(Request), NEW k \in Keys, NEW w, NEW t \in Nat,
         WindowHolds(asked, k, w, t), NEW e \in Request,
         e.key = k, e.at = t,
         e.ok <=> (t - w.start > WindowSecs \/ w.count < MaxRequests)
  PROVE  WindowHolds(Append(asked, e), k,
                     IF t - w.start > WindowSecs THEN [count |-> 1, start |-> t]
                     ELSE IF w.count < MaxRequests THEN [w EXCEPT !.count = @ + 1] ELSE w,
                     t)
<1> DEFINE new == Append(asked, e)
           s == w.start
           c == w.count
           W == WindowSecs
           M == MaxRequests
           Card(r, lo, hi) == Cardinality(Hits(r, k, lo, hi))
<1>1. W \in Nat /\ M \in Nat /\ M > 0
  BY AccessAssumption
<1>2. w \in AWindow /\ s \in Nat /\ s <= t /\ c \in 0..M
  BY DEF WindowHolds, AWindow
<1>3. \A i \in DOMAIN asked : asked[i].key = k /\ asked[i].ok => asked[i].at <= t /\ asked[i].at <= s + W
  BY Zenon DEF WindowHolds
<1>4. /\ Card(asked, s, s + W) <= c
      /\ \A lo \in Nat : lo + W >= s => Card(asked, lo, s - 1) <= M
      /\ \A lo \in Nat : Card(asked, lo, lo + W) <= 2 * M
  BY Zenon DEF WindowHolds
<1>5. /\ new \in Seq(Request) /\ DOMAIN new = DOMAIN asked \cup {Len(asked) + 1}
      /\ new[Len(asked) + 1] = e /\ \A i \in DOMAIN asked : new[i] = asked[i]
  OBVIOUS
<1>6. \A lo, hi \in Int : Card(asked, lo, hi) \in Nat /\ Card(new, lo, hi) \in Nat
  BY <1>5, HitsFinite
<1>61. \A lo, hi \in Int : Card(new, lo, hi) = IF e.ok /\ t \in lo..hi THEN Card(asked, lo, hi) + 1
                                               ELSE Card(asked, lo, hi)
  <2> SUFFICES ASSUME NEW lo \in Int, NEW hi \in Int
               PROVE  Card(new, lo, hi) = IF e.ok /\ t \in lo..hi THEN Card(asked, lo, hi) + 1
                                          ELSE Card(asked, lo, hi)
    OBVIOUS
  <2>1. Card(new, lo, hi) = IF e.key = k /\ e.ok /\ e.at \in lo..hi
                            THEN Card(asked, lo, hi) + 1 ELSE Card(asked, lo, hi)
    BY HitsGrow
  <2> HIDE DEF Card, new
  <2> QED BY <2>1, Zenon
<1>7. \A i \in DOMAIN asked : asked[i].at \in Nat
  <2> SUFFICES ASSUME NEW i \in DOMAIN asked PROVE asked[i].at \in Nat
    OBVIOUS
  <2>1. asked[i] \in Request
    BY ONLY asked \in Seq(Request), i \in DOMAIN asked
  <2> QED BY ONLY <2>1 DEF Request
<1>8. CASE t - s > W
  <2> DEFINE after == [count |-> 1, start |-> t]
  <2>1. after \in AWindow /\ after.start = t /\ after.count = 1
    BY <1>1 DEF AWindow
  <2>2. \A lo, hi \in Int : Card(new, lo, hi) = IF t \in lo..hi THEN Card(asked, lo, hi) + 1
                                                 ELSE Card(asked, lo, hi)
    <3>1. e.ok
      BY <1>8
    <3> HIDE DEF Card, new
    <3> QED BY <1>61, <3>1, Zenon
  <2>3. \A i \in DOMAIN new : new[i].key = k /\ new[i].ok => new[i].at <= t /\ new[i].at <= t + W
    BY <1>1, <1>3, <1>5, <1>7
  <2>4. Card(new, t, t + W) <= 1
    <3>1. Hits(asked, k, t, t + W) = {}
      BY <1>1, <1>2, <1>3, <1>7, <1>8 DEF Hits
    <3>2. Card(asked, t, t + W) = 0
      BY <3>1, FS_EmptySet
    <3>3. t \in t..(t + W) /\ t + W \in Int /\ t \in Int
      BY <1>1
    <3> HIDE DEF Card, new
    <3> HIDE DEF new
    <3> QED BY ONLY <2>2, <3>2, <3>3
  <2>5. \A lo \in Nat : lo + W >= t => Card(asked, lo, t - 1) <= M /\ Card(new, lo, t - 1) <= M
    <3> SUFFICES ASSUME NEW lo \in Nat, lo + W >= t
                 PROVE  Card(asked, lo, t - 1) <= M /\ Card(new, lo, t - 1) <= M
      OBVIOUS
    <3>1. Hits(asked, k, lo, t - 1) \subseteq Hits(asked, k, s, s + W)
      BY <1>1, <1>2, <1>3, <1>7, <1>8 DEF Hits
    <3>2. Card(asked, lo, t - 1) <= Card(asked, s, s + W)
      BY <3>1, HitsWithin
    <3>3. t \notin lo..(t - 1) /\ t - 1 \in Int /\ lo \in Int /\ s \in Int /\ s + W \in Int
      BY <1>1, <1>2
    <3> HIDE DEF Card, new
    <3>4. Card(new, lo, t - 1) = Card(asked, lo, t - 1)
      BY <1>6, <2>2, <3>3
    <3>5. Card(asked, lo, t - 1) \in Nat /\ Card(asked, s, s + W) \in Nat
      BY <1>6, <3>3, Zenon
    <3>6. Card(asked, s, s + W) <= c
      BY <1>4, Zenon
    <3> QED BY ONLY <1>1, <1>2, <3>2, <3>4, <3>5, <3>6
  <2>6. \A lo \in Nat : Card(new, lo, lo + W) <= 2 * M
    <3> SUFFICES ASSUME NEW lo \in Nat PROVE Card(new, lo, lo + W) <= 2 * M
      OBVIOUS
    <3>1. lo \in Int /\ lo + W \in Int /\ t - 1 \in Int
      BY <1>1
    <3>2. CASE t \in lo..(lo + W)
      <4>1. Hits(asked, k, lo, lo + W) \subseteq Hits(asked, k, lo, t - 1)
        BY <1>1, <1>2, <1>3, <1>7, <1>8 DEF Hits
      <4>2. Card(asked, lo, lo + W) <= Card(asked, lo, t - 1)
        BY <4>1, HitsWithin
      <4>3. lo + W >= t
        BY <3>2
      <4> HIDE DEF Card, new
      <4>4. Card(asked, lo, t - 1) <= M
        BY <2>5, <4>3
      <4>5. Card(new, lo, lo + W) = Card(asked, lo, lo + W) + 1
        BY <1>6, <2>2, <3>1, <3>2
      <4>6. Card(asked, lo, lo + W) \in Nat /\ Card(asked, lo, t - 1) \in Nat
        BY <1>6, <3>1, Zenon
      <4> QED BY ONLY <1>1, <4>2, <4>4, <4>5, <4>6
    <3>3. CASE t \notin lo..(lo + W)
      <4> HIDE DEF Card, new
      <4> QED BY <1>4, <1>6, <2>2, <3>1, <3>3
    <3> QED BY <3>2, <3>3
  <2>7. WindowHolds(new, k, after, t)
    <3>1. after.start <= t
      BY <2>1
    <3> HIDE DEF after, new
    <3> QED BY <2>1, <2>3, <2>4, <2>5, <2>6, <3>1 DEF WindowHolds
  <2> QED BY <1>8, <2>7
<1>9. CASE ~(t - s > W) /\ c < M
  <2> DEFINE after == [w EXCEPT !.count = @ + 1]
  <2>1. after \in AWindow /\ after.start = s /\ after.count = c + 1
    BY <1>1, <1>2, <1>9 DEF AWindow
  <2>2. \A lo, hi \in Int : Card(new, lo, hi) = IF t \in lo..hi THEN Card(asked, lo, hi) + 1
                                                 ELSE Card(asked, lo, hi)
    <3>1. e.ok
      BY <1>9
    <3> HIDE DEF Card, new
    <3> QED BY <1>61, <3>1, Zenon
  <2>3. \A i \in DOMAIN new : new[i].key = k /\ new[i].ok => new[i].at <= t /\ new[i].at <= s + W
    BY <1>1, <1>2, <1>3, <1>5, <1>9
  <2>4. Card(new, s, s + W) <= c + 1
    <3>1. t \in s..(s + W) /\ s \in Int /\ s + W \in Int
      BY <1>1, <1>2, <1>9
    <3> HIDE DEF Card, new
    <3>2. Card(new, s, s + W) = Card(asked, s, s + W) + 1
      BY <2>2, <3>1, Zenon
    <3>3. Card(asked, s, s + W) \in Nat
      BY <1>6, <3>1, Zenon
    <3> QED BY ONLY <1>2, <1>4, <3>2, <3>3
  <2>5. \A lo \in Nat : lo + W >= s => Card(new, lo, s - 1) <= M
    <3> SUFFICES ASSUME NEW lo \in Nat, lo + W >= s PROVE Card(new, lo, s - 1) <= M
      OBVIOUS
    <3>1. t \notin lo..(s - 1) /\ s - 1 \in Int /\ lo \in Int
      BY <1>2
    <3> HIDE DEF Card, new
    <3> QED BY <1>4, <1>6, <2>2, <3>1
  <2>6. \A lo \in Nat : Card(new, lo, lo + W) <= 2 * M
    <3> SUFFICES ASSUME NEW lo \in Nat PROVE Card(new, lo, lo + W) <= 2 * M
      OBVIOUS
    <3>1. lo \in Int /\ lo + W \in Int /\ s - 1 \in Int /\ s \in Int /\ s + W \in Int
      BY <1>1, <1>2
    <3>2. CASE t \in lo..(lo + W)
      <4>1. Card(new, lo, lo + W) <= Card(new, lo, s - 1) + Card(new, s, s + W)
        BY <1>2, <1>5, <2>3, HitsSplit
      <4>2. lo + W >= s
        BY <1>1, <1>2, <3>2
      <4> HIDE DEF Card, new
      <4>3. Card(new, lo, s - 1) <= M
        BY <2>5, <4>2
      <4>4. Card(new, s, s + W) <= M
        <5>1. Card(new, s, s + W) \in Nat
          BY <1>6, <3>1, Zenon
        <5> QED BY ONLY <1>1, <1>2, <1>9, <2>4, <5>1
      <4>5. /\ Card(new, lo, lo + W) \in Nat /\ Card(new, lo, s - 1) \in Nat
            /\ Card(new, s, s + W) \in Nat
        BY <1>6, <3>1, Zenon
      <4> QED BY ONLY <1>1, <4>1, <4>3, <4>4, <4>5
    <3>3. CASE t \notin lo..(lo + W)
      <4> HIDE DEF Card, new
      <4> QED BY <1>4, <1>6, <2>2, <3>1, <3>3
    <3> QED BY <3>2, <3>3
  <2>7. WindowHolds(new, k, after, t)
    <3>1. after.start <= t
      BY <1>2, <2>1
    <3> HIDE DEF after, new
    <3> QED BY <2>1, <2>3, <2>4, <2>5, <2>6, <3>1 DEF WindowHolds
  <2> QED BY <1>9, <2>7
<1>10. CASE ~(t - s > W) /\ ~(c < M)
  <2>1. ~e.ok
    BY <1>10
  <2>2. \A i \in DOMAIN new : new[i].key = k /\ new[i].ok => new[i].at <= t /\ new[i].at <= s + W
    BY <1>3, <1>5, <2>1
  <2>3. \A lo, hi \in Int : Card(new, lo, hi) = Card(asked, lo, hi)
    <3> HIDE DEF Card, new
    <3> HIDE DEF new
    <3> QED BY <1>61, <2>1, Zenon
  <2>4. \A lo \in Nat : lo \in Int /\ lo + W \in Int
    BY <1>1
  <2>5. s \in Int /\ s + W \in Int /\ s - 1 \in Int
    BY <1>1, <1>2
  <2>6. /\ Card(new, s, s + W) <= c
        /\ \A lo \in Nat : lo + W >= s => Card(new, lo, s - 1) <= M
        /\ \A lo \in Nat : Card(new, lo, lo + W) <= 2 * M
    <3> HIDE DEF Card, new
    <3> QED BY <1>4, <2>3, <2>4, <2>5
  <2>7. WindowHolds(new, k, w, t)
    <3> HIDE DEF new
    <3> QED BY <1>2, <2>2, <2>6, Zenon DEF WindowHolds
  <2> QED BY <1>10, <2>7
<1> QED BY <1>8, <1>9, <1>10

\* A request of another key leaves a window as it is.
LEMMA OtherAsked ==
  ASSUME NEW asked \in Seq(Request), NEW k, NEW w, NEW t, WindowHolds(asked, k, w, t),
         NEW e \in Request, e.key # k
  PROVE  WindowHolds(Append(asked, e), k, w, t)
<1> DEFINE new == Append(asked, e)
<1>1. /\ DOMAIN new = DOMAIN asked \cup {Len(asked) + 1} /\ new[Len(asked) + 1] = e
      /\ \A i \in DOMAIN asked : new[i] = asked[i]
  OBVIOUS
<1> HIDE DEF new
<1>2. \A lo, hi : Hits(new, k, lo, hi) = Hits(asked, k, lo, hi)
  BY <1>1, Zenon DEF Hits
<1>3. \A i \in DOMAIN new : new[i].key = k => i \in DOMAIN asked /\ new[i] = asked[i]
  BY <1>1, Zenon
<1>4. WindowHolds(new, k, w, t)
  BY <1>2, <1>3, Zenon DEF WindowHolds
<1> QED BY <1>4 DEF new

\* The window of a key that was never asked holds nothing.
LEMMA FreshWindow ==
  ASSUME NEW asked \in Seq(Request), NEW k, NEW t \in Nat,
         \A i \in DOMAIN asked : asked[i].key # k
  PROVE  WindowHolds(asked, k, [count |-> 0, start |-> t], t)
<1> DEFINE w == [count |-> 0, start |-> t]
<1>1. w \in AWindow /\ w.start <= t /\ w.count = 0
  BY AccessAssumption DEF AWindow
<1>2. \A lo, hi : Cardinality(Hits(asked, k, lo, hi)) = 0
  <2>1. \A lo, hi : Hits(asked, k, lo, hi) = {}
    BY Zenon DEF Hits
  <2> QED BY <2>1, FS_EmptySet
<1>3. 0 <= MaxRequests /\ 0 <= 2 * MaxRequests /\ 0 <= 0
  BY AccessAssumption
<1> HIDE DEF w
<1>4. WindowHolds(asked, k, w, t)
  BY <1>1, <1>2, <1>3, Zenon DEF WindowHolds
<1> QED BY <1>4 DEF w

\* Time does not disturb a window.
LEMMA WindowLater ==
  ASSUME NEW asked \in Seq(Request), NEW k, NEW w, NEW t \in Nat, WindowHolds(asked, k, w, t)
  PROVE  WindowHolds(asked, k, w, t + 1)
<1>1. w.start \in Nat /\ w.start <= t /\ w.start <= t + 1
  BY DEF WindowHolds, AWindow
<1>2. ASSUME NEW i \in DOMAIN asked, asked[i].key = k, asked[i].ok PROVE asked[i].at <= t + 1
  <2>1. asked[i].at <= t
    BY <1>2, Zenon DEF WindowHolds
  <2>2. asked[i] \in Request
    OBVIOUS
  <2>3. asked[i].at \in Nat
    BY ONLY <2>2 DEF Request
  <2> QED BY ONLY t \in Nat, <2>1, <2>3
<1> QED BY <1>1, <1>2, Zenon DEF WindowHolds

\* Whatever was cleaned up, a request is answered, and its window left, as if nothing
\* had been.
LEMMA CleanedAlike ==
  ASSUME LimiterInv, NEW k \in Keys
  PROVE  /\ Allowed(counts, k) <=> Allowed(uncleaned, k)
         /\ WindowHolds(admitted, k, Window(uncleaned, k), now)
         /\ AfterCheck(counts, k)[k] = AfterCheck(uncleaned, k)[k]
<1>1. /\ now \in Nat /\ admitted \in Seq(Request) /\ WindowSecs \in Nat /\ MaxRequests \in Nat /\ MaxRequests > 0
  BY AccessAssumption DEF LimiterInv
<1> DEFINE asked(w) == IF now - w.start > WindowSecs THEN [count |-> 1, start |-> now]
                       ELSE IF w.count < MaxRequests THEN [w EXCEPT !.count = @ + 1] ELSE w
<1>2. AfterCheck(counts, k)[k] = asked(Window(counts, k))
  BY DEF AfterCheck, Enter
<1>3. AfterCheck(uncleaned, k)[k] = asked(Window(uncleaned, k))
  BY DEF AfterCheck, Enter
<1> HIDE DEF asked
<1> DEFINE fresh == [count |-> 0, start |-> now]
<1>4. CASE k \notin DOMAIN uncleaned
  <2>1. k \notin DOMAIN counts
    BY <1>4 DEF LimiterInv
  <2>2. Window(counts, k) = fresh /\ Window(uncleaned, k) = fresh
    BY <1>4, <2>1 DEF Window
  <2>3. \A i \in DOMAIN admitted : admitted[i].key # k
    BY <1>4, Zenon DEF LimiterInv
  <2>4. WindowHolds(admitted, k, fresh, now)
    BY <1>1, <2>3, FreshWindow
  <2> HIDE DEF fresh
  <2>5. Allowed(counts, k) <=> Allowed(uncleaned, k)
    BY <2>2, Zenon DEF Allowed
  <2>6. AfterCheck(counts, k)[k] = AfterCheck(uncleaned, k)[k]
    BY <1>2, <1>3, <2>2, Zenon
  <2> QED BY <2>2, <2>4, <2>5, <2>6, Zenon
<1>5. CASE k \in DOMAIN counts
  <2>1. k \in DOMAIN uncleaned /\ counts[k] = uncleaned[k]
    BY <1>5 DEF LimiterInv
  <2>2. Window(counts, k) = uncleaned[k] /\ Window(uncleaned, k) = uncleaned[k]
    BY <1>5, <2>1 DEF Window
  <2>3. WindowHolds(admitted, k, uncleaned[k], now)
    BY <2>1, Zenon DEF LimiterInv
  <2> QED BY <1>2, <1>3, <2>2, <2>3, Zenon DEF Allowed
<1>6. CASE k \in DOMAIN uncleaned /\ k \notin DOMAIN counts
  <2>1. now - uncleaned[k].start > WindowSecs
    BY <1>6, Zenon DEF LimiterInv
  <2>2. Window(counts, k) = fresh /\ Window(uncleaned, k) = uncleaned[k]
    BY <1>6 DEF Window
  <2>3. WindowHolds(admitted, k, uncleaned[k], now)
    BY <1>6, Zenon DEF LimiterInv
  <2>4. /\ fresh.start = now /\ fresh.count = 0 /\ ~(now - now > WindowSecs) /\ 0 < MaxRequests
        /\ [fresh EXCEPT !.count = @ + 1] = [count |-> 1, start |-> now]
    BY ONLY <1>1
  <2>5. AfterCheck(counts, k)[k] = [count |-> 1, start |-> now]
    <3> HIDE DEF fresh
    <3> QED BY <1>2, <2>2, <2>4, Zenon DEF asked
  <2>6. AfterCheck(uncleaned, k)[k] = [count |-> 1, start |-> now]
    BY <1>3, <2>1, <2>2, Zenon DEF asked
  <2>7. Allowed(counts, k) /\ Allowed(uncleaned, k)
    <3> HIDE DEF fresh
    <3> QED BY <2>1, <2>2, <2>4, Zenon DEF Allowed
  <2> QED BY <2>2, <2>3, <2>5, <2>6, <2>7, Zenon
<1> QED BY <1>4, <1>5, <1>6, Zenon DEF LimiterInv

\* A request, a cleanup and the clock keep the limiter's invariant.
LEMMA LimiterStep ==
  ASSUME LimiterInv, \/ UNCHANGED <<now, limiter>>
                     \/ Tick
                     \/ Cleanup
                     \/ \E k \in Keys : Ask(k)
  PROVE  LimiterInv'
<1>1. /\ now \in Nat /\ admitted \in Seq(Request) /\ WindowSecs \in Nat
      /\ DOMAIN counts \subseteq DOMAIN uncleaned /\ DOMAIN uncleaned \subseteq Keys
  BY AccessAssumption DEF LimiterInv
<1>2. /\ \A k \in DOMAIN uncleaned : WindowHolds(admitted, k, uncleaned[k], now)
      /\ \A k \in Keys \ DOMAIN uncleaned : \A i \in DOMAIN admitted : admitted[i].key # k
      /\ \A k \in DOMAIN uncleaned :
           IF k \in DOMAIN counts THEN counts[k] = uncleaned[k]
           ELSE now - uncleaned[k].start > WindowSecs
  BY Zenon DEF LimiterInv
<1>3. CASE UNCHANGED <<now, limiter>>
  BY <1>3, Zenon DEF LimiterInv, limiter
<1>4. CASE Tick
  <2>1. /\ now' = now + 1 /\ now' \in Nat
        /\ counts' = counts /\ uncleaned' = uncleaned /\ admitted' = admitted
    BY <1>1, <1>4 DEF Tick, limiter
  <2>2. \A k \in DOMAIN uncleaned : WindowHolds(admitted, k, uncleaned[k], now + 1)
    BY <1>1, <1>2, WindowLater
  <2>3. ASSUME NEW k \in DOMAIN uncleaned, k \notin DOMAIN counts
        PROVE  (now + 1) - uncleaned[k].start > WindowSecs
    <3>1. now - uncleaned[k].start > WindowSecs
      BY <1>2, <2>3, Zenon
    <3>2. uncleaned[k].start \in Nat
      BY <1>2, <2>3 DEF WindowHolds, AWindow
    <3> QED BY <1>1, <3>1, <3>2
  <2>4. \A k \in DOMAIN uncleaned :
          IF k \in DOMAIN counts THEN counts[k] = uncleaned[k]
          ELSE (now + 1) - uncleaned[k].start > WindowSecs
    BY <1>2, <2>3, Zenon
  <2>5. /\ \A k \in DOMAIN uncleaned' : WindowHolds(admitted', k, uncleaned'[k], now')
        /\ \A k \in DOMAIN uncleaned' :
             IF k \in DOMAIN counts' THEN counts'[k] = uncleaned'[k]
             ELSE now' - uncleaned'[k].start > WindowSecs
    <3> DEFINE t == now + 1
    <3>1. now' = t
      BY <2>1
    <3>2. /\ \A k \in DOMAIN uncleaned : WindowHolds(admitted, k, uncleaned[k], t)
          /\ \A k \in DOMAIN uncleaned :
               IF k \in DOMAIN counts THEN counts[k] = uncleaned[k]
               ELSE t - uncleaned[k].start > WindowSecs
      BY <2>2, <2>4, Zenon
    <3> HIDE DEF t
    <3> QED BY <2>1, <3>1, <3>2, Zenon
  <2> QED BY <1>1, <1>2, <2>1, <2>5, Zenon DEF LimiterInv
<1>5. CASE Cleanup
  <2>1. /\ DOMAIN counts' = Kept(counts) /\ \A k \in Kept(counts) : counts'[k] = counts[k]
        /\ now' = now /\ uncleaned' = uncleaned /\ admitted' = admitted
    BY <1>5 DEF Cleanup
  <2>2. Kept(counts) \subseteq DOMAIN counts
    BY DEF Kept
  <2>3. ASSUME NEW k \in DOMAIN uncleaned, k \notin Kept(counts)
        PROVE  now - uncleaned[k].start > WindowSecs
    <3>1. CASE k \in DOMAIN counts
      <4>1. ~(now - counts[k].start <= WindowSecs) /\ counts[k] = uncleaned[k]
        BY <1>2, <2>3, <3>1, Zenon DEF Kept
      <4>2. uncleaned[k].start \in Nat
        BY <1>2, <2>3 DEF WindowHolds, AWindow
      <4> QED BY <1>1, <4>1, <4>2
    <3>2. CASE k \notin DOMAIN counts
      BY <1>2, <2>3, <3>2, Zenon
    <3> QED BY <3>1, <3>2
  <2>4. \A k \in DOMAIN uncleaned :
          IF k \in DOMAIN counts' THEN counts'[k] = uncleaned[k]
          ELSE now - uncleaned[k].start > WindowSecs
    BY <1>2, <2>1, <2>2, <2>3, Zenon
  <2>5. DOMAIN counts' \subseteq DOMAIN uncleaned
    BY <1>1, <2>1, <2>2, Zenon
  <2> QED BY <1>1, <1>2, <2>1, <2>4, <2>5, Zenon DEF LimiterInv
<1>6. CASE \E k \in Keys : Ask(k)
  <2>1. PICK k \in Keys : Ask(k)
    BY <1>6
  <2> DEFINE e == [key |-> k, at |-> now, ok |-> Allowed(counts, k)]
             w == Window(uncleaned, k)
  <2>2. /\ counts' = AfterCheck(counts, k) /\ uncleaned' = AfterCheck(uncleaned, k)
        /\ admitted' = Append(admitted, e) /\ now' = now
    BY <2>1 DEF Ask
  <2>3. e \in Request /\ e.key = k /\ e.at = now
    <3>1. Allowed(counts, k) \in BOOLEAN
      BY Zenon DEF Allowed
    <3> QED BY <1>1, <3>1, Zenon DEF Request
  <2>4. e.ok <=> (now - w.start > WindowSecs \/ w.count < MaxRequests)
    <3>1. e.ok <=> Allowed(counts, k)
      OBVIOUS
    <3> QED BY <3>1, CleanedAlike, Zenon DEF Allowed
  <2>5. /\ DOMAIN counts' = DOMAIN counts \cup {k}
        /\ \A j \in DOMAIN counts : j # k => counts'[j] = counts[j]
        /\ DOMAIN uncleaned' = DOMAIN uncleaned \cup {k}
        /\ \A j \in DOMAIN uncleaned : j # k => uncleaned'[j] = uncleaned[j]
        /\ counts'[k] = uncleaned'[k]
    <3>1. counts'[k] = uncleaned'[k]
      BY <2>2, CleanedAlike, Zenon
    <3> QED BY <2>2, <3>1 DEF AfterCheck, Enter
  <2>6. uncleaned'[k] = IF now - w.start > WindowSecs THEN [count |-> 1, start |-> now]
                        ELSE IF w.count < MaxRequests THEN [w EXCEPT !.count = @ + 1] ELSE w
    BY <2>2 DEF AfterCheck, Enter
  <2>7. admitted' \in Seq(Request)
    <3> HIDE DEF e
    <3> QED BY <1>1, <2>2, <2>3
  <2> HIDE DEF e, w
  <2>8. WindowHolds(admitted', k, uncleaned'[k], now)
    <3>1. WindowHolds(admitted, k, w, now)
      BY CleanedAlike, Zenon DEF w
    <3>2. WindowHolds(Append(admitted, e), k,
                      IF now - w.start > WindowSecs THEN [count |-> 1, start |-> now]
                      ELSE IF w.count < MaxRequests THEN [w EXCEPT !.count = @ + 1] ELSE w,
                      now)
      BY <1>1, <2>3, <2>4, <3>1, WindowAsked, Zenon
    <3> QED BY <2>2, <2>6, <3>2, Zenon
  <2>9. ASSUME NEW j \in DOMAIN uncleaned, j # k
        PROVE  WindowHolds(admitted', j, uncleaned'[j], now)
    <3>1. WindowHolds(admitted, j, uncleaned[j], now) /\ e.key # j
      BY <1>2, <2>3, <2>9, Zenon
    <3>2. WindowHolds(Append(admitted, e), j, uncleaned[j], now)
      BY <1>1, <2>3, <3>1, OtherAsked, Zenon
    <3> QED BY <2>2, <2>5, <2>9, <3>2, Zenon
  <2>10. \A j \in DOMAIN uncleaned' : WindowHolds(admitted', j, uncleaned'[j], now)
    BY <2>5, <2>8, <2>9, Zenon
  <2>11. ASSUME NEW j \in Keys \ DOMAIN uncleaned', NEW i \in DOMAIN admitted'
         PROVE  admitted'[i].key # j
    <3>1. j \notin DOMAIN uncleaned /\ j # k
      BY <2>5, <2>11, Zenon
    <3>2. (i \in DOMAIN admitted /\ admitted'[i] = admitted[i]) \/ admitted'[i] = e
      BY <1>1, <2>2, <2>11
    <3> QED BY <1>2, <2>3, <3>1, <3>2, Zenon
  <2>12. \A j \in DOMAIN uncleaned' :
           IF j \in DOMAIN counts' THEN counts'[j] = uncleaned'[j]
           ELSE now - uncleaned'[j].start > WindowSecs
    BY <1>1, <1>2, <2>5, Zenon
  <2>13. DOMAIN counts' \subseteq DOMAIN uncleaned' /\ DOMAIN uncleaned' \subseteq Keys
    BY <1>1, <2>5, Zenon
  <2> QED BY <1>1, <2>2, <2>7, <2>10, <2>11, <2>12, <2>13, Zenon DEF LimiterInv
<1> QED BY <1>3, <1>4, <1>5, <1>6

\* A limiter that was never asked.
LEMMA LimiterStarts == now = 0 /\ LimiterInit => LimiterInv
BY DEF LimiterInit, LimiterInv

\* What the limiter's invariant says of the answers.
LEMMA LimiterInvMeans == LimiterInv => WindowsBounded /\ CleanupIsInvisible
<1> SUFFICES ASSUME LimiterInv PROVE WindowsBounded /\ CleanupIsInvisible
  OBVIOUS
<1>1. CleanupIsInvisible
  <2> SUFFICES ASSUME NEW k \in Keys PROVE Allowed(counts, k) = Allowed(uncleaned, k)
    BY Zenon DEF CleanupIsInvisible
  <2>1. Allowed(counts, k) <=> Allowed(uncleaned, k)
    BY CleanedAlike, Zenon
  <2> QED BY <2>1, Zenon DEF Allowed
<1>2. WindowsBounded
  <2> SUFFICES ASSUME NEW k \in Keys, NEW t \in 0..MaxTime
               PROVE  Cardinality(Hits(admitted, k, t, t + WindowSecs)) <= 2 * MaxRequests
    BY Zenon DEF WindowsBounded, Hits
  <2>1. t \in Nat
    BY AccessAssumption
  <2> QED BY <2>1, CleanedAlike, Zenon DEF WindowHolds
<1> QED BY <1>1, <1>2

------------------------------------------------------------------------------
(* The audit log *)

Reasons == {None, "granted", "expired", "level", "team", "role"}

Entry == [subject : Readers, parameter : Parameters, time : Nat, granted : BOOLEAN, reason : Reasons]

\* The entries of s behind entry i.
Newer(entries, s, i) == {j \in DOMAIN entries : entries[j].subject = s /\ j > i}

\* The entries of s are the end of its checks.
EndOf(entries, s, checks) ==
  \A i \in DOMAIN entries : entries[i].subject = s =>
    /\ Cardinality(Newer(entries, s, i)) < Len(checks)
    /\ entries[i] = checks[Len(checks) - Cardinality(Newer(entries, s, i))]

\* Entries are counted in finite sets.
LEMMA NewerFinite ==
  ASSUME NEW entries \in Seq(Entry), NEW s, NEW i
  PROVE  IsFiniteSet(Newer(entries, s, i)) /\ Cardinality(Newer(entries, s, i)) \in Nat
<1>1. IsFiniteSet(1..Len(entries)) /\ DOMAIN entries = 1..Len(entries)
  BY FS_Interval
<1>2. Newer(entries, s, i) \in SUBSET (1..Len(entries))
  BY <1>1 DEF Newer
<1>3. IsFiniteSet(Newer(entries, s, i))
  BY <1>1, <1>2, FS_Subset
<1> QED BY <1>3, FS_CardinalityType

\* A new entry is newer than all of its subject.
LEMMA NewerAppended ==
  ASSUME NEW entries \in Seq(Entry), NEW e \in Entry, NEW s, NEW i \in 0..Len(entries)
  PROVE  Cardinality(Newer(Append(entries, e), s, i)) =
           IF e.subject = s THEN Cardinality(Newer(entries, s, i)) + 1
           ELSE Cardinality(Newer(entries, s, i))
<1> DEFINE n == Len(entries) + 1
           new == Append(entries, e)
           before == Newer(entries, s, i)
<1>1. /\ DOMAIN new = DOMAIN entries \cup {n} /\ n \notin DOMAIN entries /\ new[n] = e
      /\ \A j \in DOMAIN entries : new[j] = entries[j]
      /\ n > i
  OBVIOUS
<1>2. IsFiniteSet(before)
  BY NewerFinite, Zenon
<1>3. n \notin before
  BY <1>1, Zenon DEF Newer
<1> HIDE DEF n, new
<1>4. CASE e.subject = s
  <2>1. Newer(new, s, i) = before \cup {n}
    BY <1>1, <1>4, Zenon DEF Newer
  <2> HIDE DEF before
  <2>2. Cardinality(before \cup {n}) = Cardinality(before) + 1
    BY <1>2, <1>3, FS_AddElement
  <2> QED BY <1>4, <2>1, <2>2 DEF before, new
<1>5. CASE e.subject # s
  <2>1. Newer(new, s, i) = before
    BY <1>1, <1>5, Zenon DEF Newer
  <2> QED BY <1>5, <2>1 DEF new
<1> QED BY <1>4, <1>5

\* Dropping the oldest entry moves the others up by one.
LEMMA NewerMoved ==
  ASSUME NEW entries \in Seq(Entry), entries # << >>, NEW s, NEW i \in Nat
  PROVE  Cardinality(Newer(Tail(entries), s, i)) = Cardinality(Newer(entries, s, i + 1))
<1> DEFINE rest == Tail(entries)
           A == Newer(rest, s, i)
           B == Newer(entries, s, i + 1)
           f == [j \in A |-> j + 1]
<1>1. /\ rest \in Seq(Entry) /\ Len(rest) = Len(entries) - 1 /\ Len(entries) \in Nat /\ Len(rest) \in Nat
      /\ DOMAIN rest = 1..Len(rest) /\ DOMAIN entries = 1..Len(entries)
      /\ \A j \in 1..Len(rest) : rest[j] = entries[j + 1]
  OBVIOUS
<1> HIDE DEF rest
<1>2. \A j \in A : j \in Nat /\ j + 1 \in B
  BY <1>1 DEF Newer
<1>3. \A m \in B : m - 1 \in A /\ m \in Nat
  BY <1>1 DEF Newer
<1> HIDE DEF A, B
<1>4. f \in Injection(A, B)
  BY <1>2 DEF Injection, IsInjective
<1>5. f \in Surjection(A, B)
  <2>1. \A m \in B : (m - 1) \in A /\ f[m - 1] = m
    BY <1>3
  <2>2. \A m \in B : \E j \in A : f[j] = m
    BY <2>1
  <2>3. f \in [A -> B]
    BY <1>2
  <2> HIDE DEF f
  <2> QED BY <2>2, <2>3 DEF Surjection
<1>6. ExistsBijection(A, B)
  BY <1>4, <1>5, Zenon DEF ExistsBijection, Bijection
<1>7. IsFiniteSet(A)
  BY <1>1, NewerFinite, Zenon DEF A
<1>8. Cardinality(B) = Cardinality(A)
  BY <1>6, <1>7, FS_Bijection, Zenon
<1> QED BY <1>8 DEF A, B, rest

\* InMemoryAuditLog::log, when there is room.
LEMMA AppendedEnd ==
  ASSUME NEW entries \in Seq(Entry), NEW s, NEW checks \in Seq(Entry), NEW e \in Entry,
         EndOf(entries, s, checks)
  PROVE  EndOf(Append(entries, e), s, IF e.subject = s THEN Append(checks, e) ELSE checks)
<1> DEFINE new == Append(entries, e)
           n == Len(entries)
           C == IF e.subject = s THEN Append(checks, e) ELSE checks
<1> SUFFICES ASSUME NEW i \in DOMAIN new, new[i].subject = s
             PROVE  /\ Cardinality(Newer(new, s, i)) < Len(C)
                    /\ new[i] = C[Len(C) - Cardinality(Newer(new, s, i))]
  BY Zenon DEF EndOf
<1>1. /\ n \in Nat /\ i \in 1..(n + 1) /\ DOMAIN entries = 1..n /\ new[n + 1] = e
      /\ \A j \in 1..n : new[j] = entries[j]
  OBVIOUS
<1>2. CASE i = n + 1
  <2>1. e.subject = s
    BY <1>1, <1>2
  <2>2. Newer(new, s, i) = {}
    BY <1>1, <1>2 DEF Newer
  <2>3. Cardinality(Newer(new, s, i)) = 0
    BY <2>2, FS_EmptySet
  <2>4. C = Append(checks, e)
    BY <2>1
  <2> HIDE DEF C
  <2> QED BY <1>1, <1>2, <2>3, <2>4
<1>3. CASE i \in 1..n
  <2> DEFINE before == Cardinality(Newer(entries, s, i))
             after == Cardinality(Newer(new, s, i))
  <2>1. entries[i].subject = s /\ new[i] = entries[i]
    BY <1>1, <1>3
  <2>2. before < Len(checks) /\ entries[i] = checks[Len(checks) - before]
    BY <1>1, <1>3, <2>1, Zenon DEF EndOf
  <2>3. before \in Nat
    BY NewerFinite
  <2>4. after = IF e.subject = s THEN before + 1 ELSE before
    <3>1. i \in 0..n
      BY <1>1, <1>3
    <3> QED BY <3>1, NewerAppended
  <2> HIDE DEF before, after
  <2>5. CASE e.subject = s
    <3>1. C = Append(checks, e) /\ after = before + 1
      BY <2>4, <2>5
    <3> HIDE DEF C
    <3>2. after < Len(C) /\ new[i] = C[Len(C) - after]
      BY <2>1, <2>2, <2>3, <3>1
    <3> QED BY <3>2 DEF after
  <2>6. CASE e.subject # s
    <3>1. C = checks /\ after = before
      BY <2>4, <2>6
    <3> QED BY <2>1, <2>2, <3>1 DEF after
  <2> QED BY <2>5, <2>6
<1>4. i = n + 1 \/ i \in 1..n
  BY <1>1
<1> QED BY <1>2, <1>3, <1>4, Zenon

\* InMemoryAuditLog::log, when the oldest entry must go first.
LEMMA MovedEnd ==
  ASSUME NEW entries \in Seq(Entry), entries # << >>, NEW s, NEW checks \in Seq(Entry),
         EndOf(entries, s, checks)
  PROVE  EndOf(Tail(entries), s, checks)
<1> DEFINE rest == Tail(entries)
<1>1. /\ Len(entries) \in Nat /\ DOMAIN rest = 1..(Len(entries) - 1) /\ DOMAIN entries = 1..Len(entries)
      /\ \A j \in DOMAIN rest : j \in Nat /\ j + 1 \in DOMAIN entries /\ rest[j] = entries[j + 1]
  OBVIOUS
<1>2. \A i \in Nat : Cardinality(Newer(rest, s, i)) = Cardinality(Newer(entries, s, i + 1))
  BY NewerMoved
<1> HIDE DEF rest
<1>3. ASSUME NEW i \in DOMAIN rest, rest[i].subject = s
      PROVE  /\ Cardinality(Newer(rest, s, i)) < Len(checks)
             /\ rest[i] = checks[Len(checks) - Cardinality(Newer(rest, s, i))]
  <2> DEFINE m == i + 1
  <2>1. m \in DOMAIN entries /\ rest[i] = entries[m] /\ i \in Nat
    BY <1>1, <1>3
  <2>2. Cardinality(Newer(rest, s, i)) = Cardinality(Newer(entries, s, m))
    BY <1>2, <2>1
  <2> HIDE DEF m
  <2> QED BY <1>3, <2>1, <2>2, Zenon DEF EndOf
<1>4. EndOf(rest, s, checks)
  BY <1>3, Zenon DEF EndOf
<1> QED BY <1>4 DEF rest

------------------------------------------------------------------------------
(* The readers *)

Taken == [at : Nat, verdict : Reasons]

ReaderState ==
  [pc : {"idle", "check", "stamp", "record"}, at : Nat, kept : Seq(Nat), verdict : Reasons,
   stamp : Nat, checks : Seq(Entry), frames : Nat]

\* The samples of the frame that the configuration and the token entitle a reader to.
May(r) == {i \in DOMAIN Frame : Entitled(ClaimsOf[r], Frame[i])}

Good(claims, times, i) == claims.expires_at = None \/ times[i].at <= claims.expires_at

\* What a reader holds of its frame so far, and the verdict it carries on the next
\* sample from the check to the log.
Filtering(me, times, claims, may) ==
  /\ me.at \in 1..(Len(Frame) + 1)
  /\ Len(times) = IF me.pc = "check" THEN me.at - 1 ELSE me.at
  /\ me.pc # "check" => /\ me.at <= Len(Frame)
                        /\ me.verdict = "granted" <=> me.at \in may /\ Good(claims, times, me.at)
  /\ Range(me.kept) = {i \in 1..(me.at - 1) : i \in may /\ Good(claims, times, i)}
  /\ \A i, j \in DOMAIN me.kept : i < j => me.kept[i] < me.kept[j]

ReadersType ==
  /\ now \in Nat /\ default_level \in Levels /\ auditing \in BOOLEAN
  /\ \A id \in DOMAIN access : access[id].level \in Levels
  /\ reader \in [Readers -> ReaderState] /\ log \in Seq(Entry) /\ taken \in [Readers -> Seq(Taken)]

\* The audit log, reader by reader.
AuditHolds ==
  /\ Len(log) <= MaxEntries
  /\ \A r \in Readers : /\ EndOf(log, r, reader[r].checks)
                        /\ Cardinality(Newer(log, r, 0)) < Len(reader[r].checks) => Len(log) = MaxEntries

ReadersInv ==
  /\ ReadersType
  /\ AuditHolds
  /\ \A r \in Readers : reader[r].pc # "idle" => Filtering(reader[r], taken[r], ClaimsOf[r], May(r))

\* check grants what the configuration and the token entitle to, while the token is
\* good, whichever test answers first.
LEMMA CheckGrants ==
  ASSUME ReadersType, NEW r \in Readers, NEW id
  PROVE  /\ Check(ClaimsOf[r], id, now) \in Reasons
         /\ Check(ClaimsOf[r], id, now) = "granted" <=>
              Entitled(ClaimsOf[r], id) /\ ~IsExpired(ClaimsOf[r], now)
<1> DEFINE claims == ClaimsOf[r]
           a == GetAccess(id)
<1>1. claims \in Claims /\ claims.max_level \in Levels
  BY AccessAssumption DEF Claims
<1>2. a.level \in Levels
  BY DEF ReadersType, GetAccess
<1>3. claims.max_level < a.level <=> ~(a.level <= claims.max_level)
  BY <1>1, <1>2 DEF Levels
<1> HIDE DEF claims, a
<1>4. /\ a.team \in claims.teams \cup {None} <=> ~(a.team # None /\ a.team \notin claims.teams)
      /\ a.role \in claims.roles \cup {None} <=> ~(a.role # None /\ a.role \notin claims.roles)
  BY Zenon
<1>5. Check(claims, id, now) =
        IF IsExpired(claims, now) THEN "expired"
        ELSE IF "admin" \in claims.roles \/ id \in claims.granted THEN "granted"
        ELSE IF claims.max_level < a.level THEN "level"
             ELSE IF a.team # None /\ a.team \notin claims.teams THEN "team"
             ELSE IF a.role # None /\ a.role \notin claims.roles THEN "role"
             ELSE "granted"
  BY Zenon DEF Check, a
<1>6. Entitled(claims, id) <=>
        \/ "admin" \in claims.roles
        \/ id \in claims.granted
        \/ /\ ~(claims.max_level < a.level)
           /\ ~(a.team # None /\ a.team \notin claims.teams)
           /\ ~(a.role # None /\ a.role \notin claims.roles)
  BY <1>3, <1>4, Zenon DEF Entitled, a
<1>7. "expired" # "granted" /\ "level" # "granted" /\ "team" # "granted" /\ "role" # "granted"
  OBVIOUS
<1>8. /\ Check(claims, id, now) \in Reasons
      /\ Check(claims, id, now) = "granted" <=> Entitled(claims, id) /\ ~IsExpired(claims, now)
  BY <1>5, <1>6, <1>7, Zenon DEF Reasons
<1> QED BY <1>8 DEF claims

\* A reader starts on a frame with nothing kept.
LEMMA BeginFilters ==
  ASSUME NEW me, NEW claims, NEW may, me.pc = "check", me.at = 1, me.kept = << >>
  PROVE  Filtering(me, << >>, claims, may)
<1>1. Len(Frame) \in Nat
  BY AccessAssumption
<1>2. Range(me.kept) = {} /\ {i \in 1..(me.at - 1) : i \in may /\ Good(claims, << >>, i)} = {}
  BY DEF Range
<1>3. \A i, j \in DOMAIN me.kept : i < j => me.kept[i] < me.kept[j]
  <2>1. \A i \in DOMAIN << >> : FALSE
    OBVIOUS
  <2> QED BY <2>1, Zenon
<1>4. me.at \in 1..(Len(Frame) + 1) /\ Len(<< >>) = me.at - 1
  BY <1>1
<1> QED BY <1>2, <1>3, <1>4, Zenon DEF Filtering

\* The verdict on the next sample, taken at time t.
LEMMA DecideFilters ==
  ASSUME NEW me, NEW after, NEW times \in Seq(Taken), NEW claims, NEW may, NEW e \in Taken,
         Filtering(me, times, claims, may), me.pc = "check", me.at <= Len(Frame),
         after.pc = "stamp", after.at = me.at, after.kept = me.kept,
         after.verdict = "granted" <=>
           me.at \in may /\ (claims.expires_at = None \/ e.at <= claims.expires_at)
  PROVE  Filtering(after, Append(times, e), claims, may)
<1> DEFINE n == me.at
           new == Append(times, e)
<1>1. /\ Len(Frame) \in Nat /\ n \in 1..(Len(Frame) + 1) /\ Len(times) = n - 1
      /\ Range(me.kept) = {i \in 1..(n - 1) : i \in may /\ Good(claims, times, i)}
      /\ \A i, j \in DOMAIN me.kept : i < j => me.kept[i] < me.kept[j]
  BY AccessAssumption DEF Filtering
<1>2. Len(new) = n /\ new[n] = e /\ \A i \in 1..(n - 1) : new[i] = times[i]
  <2>1. n \in Nat /\ Len(times) = n - 1
    BY <1>1
  <2> HIDE DEF n
  <2>2. Len(times) + 1 = n
    BY <2>1
  <2>3. /\ Len(new) = Len(times) + 1 /\ new[Len(times) + 1] = e
        /\ \A i \in 1..Len(times) : new[i] = times[i]
    OBVIOUS
  <2> HIDE DEF new
  <2> QED BY <2>1, <2>2, <2>3, Zenon
<1> HIDE DEF new
<1>3. Good(claims, new, n) <=> claims.expires_at = None \/ e.at <= claims.expires_at
  BY <1>2, Zenon DEF Good
<1>4. {i \in 1..(n - 1) : i \in may /\ Good(claims, times, i)} =
      {i \in 1..(n - 1) : i \in may /\ Good(claims, new, i)}
  BY <1>2, Zenon DEF Good
<1>5. after.pc # "check"
  OBVIOUS
<1>6. Filtering(after, new, claims, may)
  BY <1>1, <1>2, <1>3, <1>4, <1>5, Zenon DEF Filtering
<1> QED BY <1>6 DEF new

\* The sample stays if it was granted.
LEMMA RecordFilters ==
  ASSUME NEW me, NEW after, NEW times \in Seq(Taken), NEW claims, NEW may,
         Filtering(me, times, claims, may), me.pc = "record", me.kept \in Seq(Nat),
         after.pc = "check", after.at = me.at + 1,
         after.kept = IF me.verdict = "granted" THEN Append(me.kept, me.at) ELSE me.kept
  PROVE  Filtering(after, times, claims, may) /\ after.kept \in Seq(Nat)
<1> DEFINE n == me.at
           K == me.kept
           in(i) == i \in may /\ Good(claims, times, i)
<1>1. /\ Len(Frame) \in Nat /\ n \in 1..(Len(Frame) + 1) /\ Len(times) = n /\ n <= Len(Frame)
      /\ n \in Nat
  BY AccessAssumption DEF Filtering
<1>2. /\ me.verdict = "granted" <=> in(n)
      /\ Range(K) = {i \in 1..(n - 1) : in(i)}
      /\ \A i, j \in DOMAIN K : i < j => K[i] < K[j]
  BY Zenon DEF Filtering
<1> HIDE DEF in, n, K
<1>3. 1..n = 1..(n - 1) \cup {n} /\ n \notin 1..(n - 1) /\ (n + 1) - 1 = n /\ n + 1 \in 1..(Len(Frame) + 1)
  BY <1>1
<1>4. CASE in(n)
  <2> DEFINE new == Append(K, n)
  <2>1. after.kept = new /\ K \in Seq(Nat)
    BY <1>2, <1>4, Zenon DEF n, K
  <2>2. /\ DOMAIN new = DOMAIN K \cup {Len(K) + 1} /\ new[Len(K) + 1] = n
        /\ \A i \in DOMAIN K : new[i] = K[i] /\ i < Len(K) + 1 /\ i \in Nat
        /\ new \in Seq(Nat) /\ Len(K) \in Nat
    BY <1>1, <2>1
  <2>3. Range(new) = Range(K) \cup {n}
    <3> HIDE DEF new
    <3>1. ASSUME NEW x \in Range(new) PROVE x \in Range(K) \cup {n}
      <4>1. PICK i \in DOMAIN new : x = new[i]
        BY Zenon DEF Range
      <4>2. CASE i \in DOMAIN K
        BY ONLY <2>2, <4>1, <4>2, Zenon DEF Range
      <4>3. CASE i = Len(K) + 1
        BY ONLY <2>2, <4>1, <4>3, Zenon
      <4> QED BY ONLY <2>2, <4>1, <4>2, <4>3, Zenon
    <3>2. ASSUME NEW x \in Range(K) PROVE x \in Range(new)
      <4>1. PICK i \in DOMAIN K : x = K[i]
        BY Zenon DEF Range
      <4>2. i \in DOMAIN new /\ new[i] = x
        BY ONLY <2>2, <4>1, Zenon
      <4> QED BY ONLY <4>2, Zenon DEF Range
    <3>3. n \in Range(new)
      BY ONLY <2>2, Zenon DEF Range
    <3> QED BY ONLY <3>1, <3>2, <3>3, Zenon
  <2>4. Range(new) = {i \in 1..n : in(i)}
    <3> HIDE DEF new
    <3> QED BY <1>2, <1>3, <1>4, <2>3, Zenon
  <2>5. \A i \in DOMAIN K : K[i] < n
    <3>1. \A i \in DOMAIN K : K[i] \in 1..(n - 1)
      BY <1>2, Zenon DEF Range
    <3> QED BY <1>1, <3>1
  <2>6. ASSUME NEW i \in DOMAIN new, NEW j \in DOMAIN new, i < j PROVE new[i] < new[j]
    <3> HIDE DEF new
    <3>1. i \in DOMAIN K
      BY <2>2, <2>6
    <3>2. CASE j \in DOMAIN K
      BY <1>2, <2>2, <2>6, <3>1, <3>2, Zenon
    <3>3. CASE j = Len(K) + 1
      BY <2>2, <2>5, <3>1, <3>3, Zenon
    <3> QED BY <2>2, <3>2, <3>3, Zenon
  <2> HIDE DEF new
  <2>7. /\ Range(after.kept) = {i \in 1..(after.at - 1) : i \in may /\ Good(claims, times, i)}
        /\ Len(times) = after.at - 1
    <3>1. after.at = n + 1
      BY DEF n
    <3> QED BY <1>1, <1>3, <2>1, <2>4, <3>1, Zenon DEF in
  <2>8. after.at \in 1..(Len(Frame) + 1)
    BY <1>3 DEF n
  <2>9. after.pc = "check"
    OBVIOUS
  <2> QED BY <2>1, <2>2, <2>6, <2>7, <2>8, <2>9, Zenon DEF Filtering
<1>5. CASE ~in(n)
  <2>1. after.kept = K /\ K \in Seq(Nat)
    BY <1>2, <1>5, Zenon DEF n, K
  <2>2. Range(K) = {i \in 1..n : in(i)}
    BY <1>2, <1>3, <1>5, Zenon
  <2>3. /\ Range(after.kept) = {i \in 1..(after.at - 1) : i \in may /\ Good(claims, times, i)}
        /\ Len(times) = after.at - 1
    <3>1. after.at = n + 1
      BY DEF n
    <3> QED BY <1>1, <1>3, <2>1, <2>2, <3>1, Zenon DEF in
  <2>4. after.at \in 1..(Len(Frame) + 1)
    BY <1>3 DEF n
  <2>5. after.pc = "check"
    OBVIOUS
  <2> QED BY <1>2, <2>1, <2>3, <2>4, <2>5, Zenon DEF Filtering
<1> QED BY <1>4, <1>5

\* The configuration decides what a reader may have.
LEMMA MaySame ==
  ASSUME NEW r, default_level' = default_level, access' = access
  PROVE  May(r)' = May(r)
<1>1. \A id : GetAccess(id)' = GetAccess(id)
  BY Zenon DEF GetAccess
<1>2. \A claims, id : Entitled(claims, id)' = Entitled(claims, id)
  BY <1>1, Zenon DEF Entitled
<1> QED BY <1>2, Zenon DEF May

\* One reader moves, and the audit log with it; the others hold what they held.
LEMMA OneMoves ==
  ASSUME ReadersInv, NEW r \in Readers, NEW after \in ReaderState, NEW times \in Seq(Taken),
         reader' = [reader EXCEPT ![r] = after], taken' = [taken EXCEPT ![r] = times],
         now' = now, default_level' = default_level, access' = access, auditing' = auditing,
         after.pc # "idle" => Filtering(after, times, ClaimsOf[r], May(r)),
         log' \in Seq(Entry), AuditHolds'
  PROVE  ReadersInv'
<1>1. /\ reader' \in [Readers -> ReaderState] /\ taken' \in [Readers -> Seq(Taken)]
      /\ reader'[r] = after /\ taken'[r] = times
      /\ \A q \in Readers : q # r => reader'[q] = reader[q] /\ taken'[q] = taken[q]
  BY DEF ReadersInv, ReadersType
<1>2. ReadersType'
  BY <1>1, Zenon DEF ReadersInv, ReadersType
<1>3. ASSUME NEW q \in Readers, reader'[q].pc # "idle"
      PROVE  Filtering(reader'[q], taken'[q], ClaimsOf[q], May(q)')
  <2>1. May(q)' = May(q)
    BY MaySame, Zenon
  <2>2. CASE q = r
    BY <1>1, <1>3, <2>1, <2>2, Zenon
  <2>3. CASE q # r
    <3>1. Filtering(reader[q], taken[q], ClaimsOf[q], May(q))
      BY <1>1, <1>3, <2>3, Zenon DEF ReadersInv
    <3> QED BY <1>1, <2>1, <2>3, <3>1, Zenon
  <2> QED BY <2>2, <2>3
<1> QED BY <1>2, <1>3, Zenon DEF ReadersInv

\* The log stays as it is, and so do the checks.
LEMMA AuditSame ==
  ASSUME AuditHolds, log' = log, \A r \in Readers : reader'[r].checks = reader[r].checks
  PROVE  AuditHolds'
BY Zenon DEF AuditHolds

\* Begin, the check, the stamp and the hand-over.
LEMMA ReaderSteps ==
  ASSUME ReadersInv, NEW r \in Readers, Begin(r) \/ Decide(r) \/ Stamp(r) \/ Finish(r)
  PROVE  ReadersInv'
<1> DEFINE me == reader[r]
           times == taken[r]
<1>1. /\ me \in ReaderState /\ times \in Seq(Taken) /\ now \in Nat
      /\ reader \in [Readers -> ReaderState] /\ taken \in [Readers -> Seq(Taken)]
      /\ log \in Seq(Entry) /\ AuditHolds
  BY DEF ReadersInv, ReadersType
<1>2. me.pc # "idle" => Filtering(me, times, ClaimsOf[r], May(r))
  BY Zenon DEF ReadersInv
<1>3. ASSUME NEW after, reader' = [reader EXCEPT ![r] = after], after.checks = me.checks, log' = log
      PROVE  log' \in Seq(Entry) /\ AuditHolds'
  <2>1. \A q \in Readers : reader'[q].checks = reader[q].checks
    BY <1>1, <1>3
  <2> QED BY <1>1, <1>3, <2>1, AuditSame, Zenon
<1>4. CASE Begin(r)
  <2> DEFINE after == [Idle EXCEPT !.pc = "check", !.frames = me.frames + 1, !.checks = me.checks]
  <2>1. /\ after \in ReaderState /\ after.pc = "check" /\ after.at = 1 /\ after.kept = << >>
        /\ after.checks = me.checks
    <3>1. None \in Reasons /\ me.frames + 1 \in Nat /\ me.checks \in Seq(Entry)
      BY <1>1 DEF ReaderState, Reasons
    <3>2. Idle \in ReaderState /\ Idle.at = 1 /\ Idle.kept = << >>
      BY <3>1 DEF Idle, ReaderState
    <3> QED BY <3>1, <3>2 DEF ReaderState
  <2>2. /\ reader' = [reader EXCEPT ![r] = after] /\ taken' = [taken EXCEPT ![r] = << >>]
        /\ now' = now /\ default_level' = default_level /\ access' = access
        /\ auditing' = auditing /\ log' = log
    BY <1>4, Zenon DEF Begin
  <2> HIDE DEF after
  <2>3. Filtering(after, << >>, ClaimsOf[r], May(r))
    BY <2>1, BeginFilters, Zenon
  <2>4. log' \in Seq(Entry) /\ AuditHolds'
    BY <1>3, <2>1, <2>2, Zenon
  <2>5. << >> \in Seq(Taken)
    OBVIOUS
  <2> QED BY <2>1, <2>2, <2>3, <2>4, <2>5, OneMoves, Zenon
<1>5. CASE Decide(r)
  <2> DEFINE verdict == Check(ClaimsOf[r], Frame[me.at], now)
             after == [me EXCEPT !.pc = "stamp", !.verdict = verdict]
             e == [at |-> now, verdict |-> verdict]
  <2>1. /\ me.pc = "check" /\ me.at <= Len(Frame)
        /\ reader' = [reader EXCEPT ![r] = after] /\ taken' = [taken EXCEPT ![r] = Append(times, e)]
        /\ now' = now /\ default_level' = default_level /\ access' = access
        /\ auditing' = auditing /\ log' = log
    BY <1>5, Zenon DEF Decide
  <2>2. /\ verdict \in Reasons
        /\ verdict = "granted" <=> Entitled(ClaimsOf[r], Frame[me.at]) /\ ~IsExpired(ClaimsOf[r], now)
    BY CheckGrants, Zenon DEF ReadersInv
  <2> HIDE DEF verdict
  <2>3. /\ after \in ReaderState /\ after.pc = "stamp" /\ after.at = me.at /\ after.kept = me.kept
        /\ after.verdict = verdict /\ after.checks = me.checks
    BY <1>1, <2>2 DEF ReaderState
  <2>4. e \in Taken /\ e.at = now /\ Append(times, e) \in Seq(Taken)
    <3>1. e \in Taken /\ e.at = now
      BY <1>1, <2>2 DEF Taken
    <3> HIDE DEF e
    <3> QED BY <1>1, <3>1
  <2>5. Filtering(me, times, ClaimsOf[r], May(r))
    BY <1>2, <2>1
  <2>6. me.at \in DOMAIN Frame
    <3>1. me.at \in 1..(Len(Frame) + 1)
      BY <2>5, Zenon DEF Filtering
    <3> QED BY <2>1, <3>1, AccessAssumption
  <2>7. ~IsExpired(ClaimsOf[r], now) <=>
          ClaimsOf[r].expires_at = None \/ e.at <= ClaimsOf[r].expires_at
    <3>1. ClaimsOf[r].expires_at \in Nat \cup {None}
      BY AccessAssumption DEF Claims
    <3>2. CASE ClaimsOf[r].expires_at = None
      BY <3>2, Zenon DEF IsExpired
    <3>3. CASE ClaimsOf[r].expires_at # None
      <4>1. ClaimsOf[r].expires_at \in Nat
        BY <3>1, <3>3
      <4>2. ~(now > ClaimsOf[r].expires_at) <=> now <= ClaimsOf[r].expires_at
        BY <1>1, <4>1
      <4> QED BY <2>4, <3>3, <4>2, Zenon DEF IsExpired
    <3> QED BY <3>2, <3>3
  <2> HIDE DEF after, e, me, times
  <2>8. after.verdict = "granted" <=>
          me.at \in May(r) /\ (ClaimsOf[r].expires_at = None \/ e.at <= ClaimsOf[r].expires_at)
    BY <2>2, <2>3, <2>6, <2>7, Zenon DEF May
  <2>9. Filtering(after, Append(times, e), ClaimsOf[r], May(r))
    BY <1>1, <2>1, <2>3, <2>4, <2>5, <2>8, DecideFilters, Zenon
  <2>10. log' \in Seq(Entry) /\ AuditHolds'
    BY <1>3, <2>1, <2>3, Zenon
  <2> QED BY <2>1, <2>3, <2>4, <2>9, <2>10, OneMoves, Zenon
<1>6. CASE Stamp(r)
  <2> DEFINE after == [me EXCEPT !.pc = "record", !.stamp = now]
  <2>1. /\ me.pc = "stamp"
        /\ reader' = [reader EXCEPT ![r] = after] /\ taken' = taken
        /\ now' = now /\ default_level' = default_level /\ access' = access
        /\ auditing' = auditing /\ log' = log
    BY <1>6, Zenon DEF Stamp
  <2>2. /\ after \in ReaderState /\ after.pc = "record" /\ after.at = me.at /\ after.kept = me.kept
        /\ after.verdict = me.verdict /\ after.checks = me.checks
    BY <1>1 DEF ReaderState
  <2>3. Filtering(me, times, ClaimsOf[r], May(r))
    BY <1>2, <2>1
  <2>4. taken' = [taken EXCEPT ![r] = times]
    BY <1>1, <2>1
  <2> HIDE DEF after, me, times
  <2>5. Filtering(after, times, ClaimsOf[r], May(r))
    <3>1. me.pc # "check" /\ after.pc # "check"
      BY <2>1, <2>2
    <3> QED BY <2>2, <2>3, <3>1 DEF Filtering
  <2>6. log' \in Seq(Entry) /\ AuditHolds'
    BY <1>3, <2>1, <2>2, Zenon
  <2> QED BY <1>1, <2>1, <2>2, <2>4, <2>5, <2>6, OneMoves, Zenon
<1>7. CASE Finish(r)
  <2> DEFINE after == [me EXCEPT !.pc = "idle"]
  <2>1. /\ reader' = [reader EXCEPT ![r] = after] /\ taken' = taken
        /\ now' = now /\ default_level' = default_level /\ access' = access
        /\ auditing' = auditing /\ log' = log
    BY <1>7, Zenon DEF Finish
  <2>2. after \in ReaderState /\ after.pc = "idle" /\ after.checks = me.checks
    BY <1>1 DEF ReaderState
  <2>3. taken' = [taken EXCEPT ![r] = times]
    BY <1>1, <2>1
  <2> HIDE DEF after, me, times
  <2>4. log' \in Seq(Entry) /\ AuditHolds'
    BY <1>3, <2>1, <2>2, Zenon
  <2> QED BY <1>1, <2>1, <2>2, <2>3, <2>4, OneMoves, Zenon
<1> QED BY <1>4, <1>5, <1>6, <1>7

\* A check enters the log at its end, whichever reader reaches the lock first.
LEMMA AuditLogs ==
  ASSUME AuditHolds, log \in Seq(Entry), NEW r \in Readers, NEW e \in Entry, e.subject = r,
         \A q \in Readers : reader[q].checks \in Seq(Entry),
         reader'[r].checks = Append(reader[r].checks, e),
         \A q \in Readers : q # r => reader'[q].checks = reader[q].checks,
         log' = Logged(log, e)
  PROVE  log' \in Seq(Entry) /\ AuditHolds'
<1> DEFINE base == IF Len(log) >= MaxEntries THEN Tail(log) ELSE log
<1>1. MaxEntries \in Nat \ {0} /\ Len(log) \in Nat /\ Len(log) <= MaxEntries
  BY AccessAssumption DEF AuditHolds
<1>2. Len(log) >= MaxEntries => log # << >>
  BY <1>1
<1>3. /\ base \in Seq(Entry) /\ Len(base) \in Nat /\ Len(base) < MaxEntries
      /\ Len(log) >= MaxEntries => Len(base) = MaxEntries - 1
      /\ ~(Len(log) >= MaxEntries) => base = log
  BY <1>1, <1>2
<1>4. log' = Append(base, e)
  BY Zenon DEF Logged
<1>5. \A q \in Readers : EndOf(base, q, reader[q].checks)
  <2> SUFFICES ASSUME NEW q \in Readers PROVE EndOf(base, q, reader[q].checks)
    OBVIOUS
  <2>1. EndOf(log, q, reader[q].checks) /\ reader[q].checks \in Seq(Entry)
    BY Zenon DEF AuditHolds
  <2>2. CASE Len(log) >= MaxEntries
    <3>1. base = Tail(log)
      BY <2>2
    <3> HIDE DEF base
    <3> QED BY <1>2, <2>1, <2>2, <3>1, MovedEnd, Zenon
  <2>3. CASE ~(Len(log) >= MaxEntries)
    BY <1>3, <2>1, <2>3, Zenon
  <2> QED BY <2>2, <2>3
<1> HIDE DEF base
<1>6. log' \in Seq(Entry) /\ Len(log') = Len(base) + 1
  BY <1>3, <1>4
<1>7. \A q \in Readers : EndOf(log', q, reader'[q].checks)
  <2> SUFFICES ASSUME NEW q \in Readers PROVE EndOf(log', q, reader'[q].checks)
    OBVIOUS
  <2>1. reader'[q].checks = IF e.subject = q THEN Append(reader[q].checks, e) ELSE reader[q].checks
    BY Zenon
  <2>2. EndOf(Append(base, e), q, IF e.subject = q THEN Append(reader[q].checks, e) ELSE reader[q].checks)
    BY <1>3, <1>5, AppendedEnd, Zenon
  <2> QED BY <1>4, <2>1, <2>2, Zenon
<1>8. ASSUME NEW q \in Readers, Cardinality(Newer(log', q, 0)) < Len(reader'[q].checks)
      PROVE  Len(log') = MaxEntries
  <2>1. CASE Len(log) >= MaxEntries
    BY <1>1, <1>3, <1>6, <2>1
  <2>2. CASE ~(Len(log) >= MaxEntries)
    <3> DEFINE before == Cardinality(Newer(log, q, 0))
               after == Cardinality(Newer(log', q, 0))
               L == Len(reader[q].checks)
    <3>1. base = log /\ Len(log) # MaxEntries
      BY <1>1, <1>3, <2>2
    <3>2. before \in Nat /\ L \in Nat
      BY NewerFinite
    <3>3. before >= L
      <4>1. ~(before < L)
        BY <3>1, Zenon DEF AuditHolds
      <4> HIDE DEF before, L
      <4> QED BY <3>2, <4>1
    <3>4. after = IF e.subject = q THEN before + 1 ELSE before
      <4>1. 0 \in 0..Len(log)
        BY <1>1
      <4>2. Cardinality(Newer(Append(log, e), q, 0)) =
              IF e.subject = q THEN Cardinality(Newer(log, q, 0)) + 1
              ELSE Cardinality(Newer(log, q, 0))
        BY ONLY log \in Seq(Entry), e \in Entry, <4>1, NewerAppended
      <4> QED BY <1>4, <3>1, <4>2, Zenon
    <3>5. Len(reader'[q].checks) = IF e.subject = q THEN L + 1 ELSE L
      <4>1. CASE q = r
        <5>1. Len(Append(reader[q].checks, e)) = L + 1
          OBVIOUS
        <5> QED BY <4>1, <5>1, Zenon
      <4>2. CASE q # r
        BY <4>2, Zenon
      <4> QED BY <4>1, <4>2
    <3>6. after < Len(reader'[q].checks)
      BY <1>8
    <3> HIDE DEF before, after, L
    <3>7. FALSE
      BY ONLY <3>2, <3>3, <3>4, <3>5, <3>6
    <3> QED BY <3>7
  <2> QED BY <2>1, <2>2
<1>9. Len(log') <= MaxEntries
  BY <1>1, <1>3, <1>6
<1> QED BY <1>6, <1>7, <1>8, <1>9, Zenon DEF AuditHolds

\* log_access and the sample's place in the frame that is handed over.
LEMMA RecordStep ==
  ASSUME ReadersInv, NEW r \in Readers, Record(r)
  PROVE  ReadersInv'
<1> DEFINE me == reader[r]
           times == taken[r]
           granted == me.verdict = "granted"
           entry == [subject |-> r, parameter |-> Frame[me.at], time |-> me.stamp,
                     granted |-> granted, reason |-> IF granted THEN None ELSE me.verdict]
           checks == IF auditing THEN Append(me.checks, entry) ELSE me.checks
           kept == IF entry.granted THEN Append(me.kept, me.at) ELSE me.kept
           after == [me EXCEPT !.pc = "check", !.at = me.at + 1, !.checks = checks, !.kept = kept]
<1>1. /\ me \in ReaderState /\ times \in Seq(Taken) /\ auditing \in BOOLEAN
      /\ reader \in [Readers -> ReaderState] /\ taken \in [Readers -> Seq(Taken)]
      /\ log \in Seq(Entry) /\ AuditHolds
  BY DEF ReadersInv, ReadersType
<1>2. /\ me.pc = "record" /\ log' = IF auditing THEN Logged(log, entry) ELSE log
      /\ reader' = [reader EXCEPT ![r] = after] /\ taken' = taken
      /\ now' = now /\ default_level' = default_level /\ access' = access /\ auditing' = auditing
  BY Zenon DEF Record
<1>3. Filtering(me, times, ClaimsOf[r], May(r))
  BY <1>2 DEF ReadersInv
<1>4. me.at \in DOMAIN Frame /\ me.at \in Nat
  <2>1. me.at \in 1..(Len(Frame) + 1) /\ me.at <= Len(Frame)
    BY <1>2, <1>3 DEF Filtering
  <2> QED BY <2>1, AccessAssumption
<1>5. entry \in Entry /\ entry.subject = r /\ entry.granted = granted
  <2>1. Frame[me.at] \in Parameters
    BY <1>4, AccessAssumption
  <2>2. me.stamp \in Nat /\ me.verdict \in Reasons /\ None \in Reasons /\ granted \in BOOLEAN
    BY <1>1 DEF ReaderState, Reasons
  <2> HIDE DEF granted
  <2>3. (IF granted THEN None ELSE me.verdict) \in Reasons
    BY <2>2, Zenon
  <2> HIDE DEF me
  <2> QED BY <2>1, <2>2, <2>3, Zenon DEF Entry
<1>6. /\ after.pc = "check" /\ after.at = me.at + 1
      /\ after.kept = IF me.verdict = "granted" THEN Append(me.kept, me.at) ELSE me.kept
      /\ after.checks = IF auditing THEN Append(me.checks, entry) ELSE me.checks
      /\ after.verdict = me.verdict /\ after.stamp = me.stamp /\ after.frames = me.frames
      /\ DOMAIN after = DOMAIN me
  <2> HIDE DEF granted, entry
  <2>1. me.kept \in Seq(Nat) /\ me.checks \in Seq(Entry)
    BY <1>1 DEF ReaderState
  <2>2. /\ after.pc = "check" /\ after.at = me.at + 1
        /\ after.kept = IF entry.granted THEN Append(me.kept, me.at) ELSE me.kept
        /\ after.checks = IF auditing THEN Append(me.checks, entry) ELSE me.checks
        /\ after.verdict = me.verdict /\ after.stamp = me.stamp /\ after.frames = me.frames
        /\ DOMAIN after = DOMAIN me
    BY <1>1 DEF ReaderState
  <2> HIDE DEF after
  <2> QED BY <1>5, <2>2, Zenon DEF granted
<1>7. me.kept \in Seq(Nat) /\ me.checks \in Seq(Entry)
  BY <1>1 DEF ReaderState
<1> HIDE DEF after, entry
<1>8. Filtering(after, times, ClaimsOf[r], May(r)) /\ after.kept \in Seq(Nat)
  <2> HIDE DEF me, times
  <2> QED BY <1>1, <1>2, <1>3, <1>6, <1>7, RecordFilters, Zenon
<1>9. after \in ReaderState
  <2>1. after.checks \in Seq(Entry)
    BY <1>5, <1>6, <1>7
  <2>2. me.at + 1 \in Nat
    BY <1>4
  <2>3. after.checks = checks /\ after.kept = kept
    BY <1>1 DEF ReaderState, after
  <2> HIDE DEF checks, kept
  <2> QED BY <1>1, <1>8, <2>1, <2>2, <2>3 DEF ReaderState, after
<1>10. reader'[r] = after /\ \A q \in Readers : q # r => reader'[q] = reader[q]
  BY <1>1, <1>2
<1>11. log' \in Seq(Entry) /\ AuditHolds'
  <2>1. CASE auditing
    <3>1. \A q \in Readers : reader[q].checks \in Seq(Entry)
      BY <1>1 DEF ReaderState
    <3>2. /\ reader'[r].checks = Append(reader[r].checks, entry) /\ log' = Logged(log, entry)
          /\ \A q \in Readers : q # r => reader'[q].checks = reader[q].checks
      BY <1>2, <1>6, <1>10, <2>1, Zenon
    <3> QED BY <1>1, <1>5, <3>1, <3>2, AuditLogs, Zenon
  <2>2. CASE ~auditing
    <3>1. log' = log /\ \A q \in Readers : reader'[q].checks = reader[q].checks
      BY <1>2, <1>6, <1>10, <2>2, Zenon
    <3> QED BY <1>1, <3>1, AuditSame, Zenon
  <2> QED BY <2>1, <2>2
<1>12. taken' = [taken EXCEPT ![r] = times]
  BY <1>1, <1>2
<1> HIDE DEF me, times
<1> QED BY <1>1, <1>2, <1>8, <1>9, <1>11, <1>12, OneMoves, Zenon

\* The controller is changed only while no reader is inside a frame.
LEMMA ConfigureStep ==
  ASSUME ReadersInv, \/ \E s \in Settings : Configure(s)
                     \/ \E level \in Levels : SetDefaultLevel(level)
                     \/ \E on \in BOOLEAN : SetAudit(on)
  PROVE  ReadersInv'
<1>1. /\ Unused /\ reader' = reader /\ log' = log /\ taken' = taken /\ now' = now
  BY DEF Configure, SetDefaultLevel, SetAudit
<1>2. default_level' \in Levels /\ auditing' \in BOOLEAN
  BY DEF Configure, SetDefaultLevel, SetAudit, ReadersInv, ReadersType
<1>3. \A id \in DOMAIN access' : access'[id].level \in Levels
  <2>1. CASE \E s \in Settings : Configure(s)
    <3>1. PICK s \in Settings : Configure(s)
      BY <2>1
    <3>2. s \in AccessSettings /\ s.level \in Levels
      BY AccessAssumption DEF AccessSettings
    <3> QED BY <3>1, <3>2 DEF Configure, ReadersInv, ReadersType
  <2>2. CASE access' = access
    BY <2>2 DEF ReadersInv, ReadersType
  <2> QED BY <2>1, <2>2 DEF SetDefaultLevel, SetAudit
<1>4. AuditHolds'
  BY <1>1, AuditSame DEF ReadersInv
<1>5. \A r \in Readers : ~(reader'[r].pc # "idle")
  BY <1>1, Zenon DEF Unused
<1>6. ReadersType'
  BY <1>1, <1>2, <1>3, Zenon DEF ReadersInv, ReadersType
<1> QED BY <1>4, <1>5, <1>6, Zenon DEF ReadersInv

\* The clock, and the limiter, leave the readers alone.
LEMMA ElsewhereStep ==
  ASSUME ReadersInv, UNCHANGED controller, now' \in Nat
  PROVE  ReadersInv'
<1>1. /\ reader' = reader /\ log' = log /\ taken' = taken /\ default_level' = default_level
      /\ access' = access /\ auditing' = auditing
  BY DEF controller
<1>2. AuditHolds'
  BY <1>1, AuditSame, Zenon DEF ReadersInv
<1>3. ReadersType'
  BY <1>1, Zenon DEF ReadersInv, ReadersType
<1>4. \A r \in Readers : May(r)' = May(r)
  BY <1>1, MaySame, Zenon
<1>5. ASSUME NEW r \in Readers, reader'[r].pc # "idle"
      PROVE  Filtering(reader'[r], taken'[r], ClaimsOf[r], May(r)')
  <2>1. Filtering(reader[r], taken[r], ClaimsOf[r], May(r))
    BY <1>1, <1>5, Zenon DEF ReadersInv
  <2> QED BY <1>1, <1>4, <2>1, Zenon
<1> QED BY <1>2, <1>3, <1>5, Zenon DEF ReadersInv

\* No reader has begun and the log is empty.
LEMMA ReadersStart == now = 0 /\ AccessInit => ReadersInv
<1> SUFFICES ASSUME now = 0, AccessInit PROVE ReadersInv
  OBVIOUS
<1>1. /\ default_level = 1 /\ access = << >> /\ auditing = FALSE /\ log = << >>
      /\ reader = [r \in Readers |-> Idle] /\ taken = [r \in Readers |-> << >>]
  BY Zenon DEF AccessInit
<1>2. Idle \in ReaderState /\ Idle.pc = "idle" /\ Idle.checks = << >>
  <2>1. None \in Reasons
    BY DEF Reasons
  <2>2. << >> \in Seq(Nat) /\ << >> \in Seq(Entry) /\ 0 \in Nat /\ 1 \in Nat
    OBVIOUS
  <2>3. Idle.pc = "idle" /\ Idle.checks = << >>
    BY Zenon DEF Idle
  <2>4. Idle \in ReaderState
    <3> DEFINE none == << >>
    <3>1. none \in Seq(Nat) /\ none \in Seq(Entry)
      BY <2>2
    <3>2. Idle = [pc |-> "idle", at |-> 1, kept |-> none, verdict |-> None, stamp |-> 0,
                  checks |-> none, frames |-> 0]
      BY DEF Idle
    <3> HIDE DEF none
    <3>3. "idle" \in {"idle", "check", "stamp", "record"}
      OBVIOUS
    <3> QED BY ONLY <2>1, <2>2, <3>1, <3>2, <3>3 DEF ReaderState
  <2> QED BY <2>3, <2>4, Zenon
<1>3. ReadersType
  <2>1. now \in Nat /\ default_level \in Levels /\ auditing \in BOOLEAN /\ log \in Seq(Entry)
    <3>1. 0 \in Nat /\ 1 \in Levels /\ << >> \in Seq(Entry)
      BY DEF Levels
    <3> QED BY <1>1, <3>1, Zenon
  <2>2. \A id \in DOMAIN access : access[id].level \in Levels
    <3>1. \A id \in DOMAIN << >> : FALSE
      OBVIOUS
    <3> QED BY <1>1, <3>1, Zenon
  <2>3. reader \in [Readers -> ReaderState] /\ taken \in [Readers -> Seq(Taken)]
    BY <1>1, <1>2
  <2> QED BY <2>1, <2>2, <2>3, Zenon DEF ReadersType
<1>4. AuditHolds
  <2>1. \A i \in DOMAIN log : FALSE
    BY <1>1
  <2>2. Len(log) = 0 /\ Len(log) <= MaxEntries
    BY <1>1, AccessAssumption
  <2>3. ASSUME NEW r \in Readers
        PROVE  EndOf(log, r, reader[r].checks) /\ ~(Cardinality(Newer(log, r, 0)) < Len(reader[r].checks))
    <3>1. Newer(log, r, 0) = {} /\ EndOf(log, r, reader[r].checks)
      BY <2>1, Zenon DEF Newer, EndOf
    <3>2. Cardinality(Newer(log, r, 0)) = 0
      BY <3>1, FS_EmptySet
    <3>3. Len(reader[r].checks) = 0
      BY <1>1, <1>2
    <3> QED BY <3>1, <3>2, <3>3
  <2> QED BY <2>2, <2>3, Zenon DEF AuditHolds
<1>5. \A r \in Readers : reader[r].pc = "idle"
  BY <1>1, <1>2
<1> QED BY <1>3, <1>4, <1>5, Zenon DEF ReadersInv

\* What the readers' invariant says of the log and of the frames handed over.
LEMMA ReadersInvMeans == ReadersInv => AuditIsFaithful /\ FilteredAsGranted
<1> SUFFICES ASSUME ReadersInv PROVE AuditIsFaithful /\ FilteredAsGranted
  OBVIOUS
<1>1. /\ reader \in [Readers -> ReaderState] /\ log \in Seq(Entry)
      /\ Len(log) <= MaxEntries
      /\ \A r \in Readers : /\ EndOf(log, r, reader[r].checks)
                            /\ Cardinality(Newer(log, r, 0)) < Len(reader[r].checks) => Len(log) = MaxEntries
  BY Zenon DEF ReadersInv, ReadersType, AuditHolds
<1>2. AuditIsFaithful
  <2>1. ASSUME NEW r \in Readers PROVE EntriesOf(r) = Newer(log, r, 0)
    <3>1. \A j \in DOMAIN log : j > 0
      BY <1>1
    <3> QED BY <3>1, Zenon DEF EntriesOf, Newer
  <2>2. ASSUME NEW i \in DOMAIN log
        PROVE  LET checks == reader[log[i].subject].checks
                   newer == Cardinality({j \in EntriesOf(log[i].subject) : j > i})
               IN  newer < Len(checks) /\ log[i] = checks[Len(checks) - newer]
    <3> DEFINE s == log[i].subject
    <3>1. s \in Readers
      <4>1. log[i] \in Entry
        BY <1>1, <2>2
      <4> QED BY <4>1 DEF Entry
    <3>2. {j \in EntriesOf(s) : j > i} = Newer(log, s, i)
      BY Zenon DEF EntriesOf, Newer
    <3>3. EndOf(log, s, reader[s].checks)
      BY <1>1, <3>1, Zenon
    <3>4. /\ Cardinality(Newer(log, s, i)) < Len(reader[s].checks)
          /\ log[i] = reader[s].checks[Len(reader[s].checks) - Cardinality(Newer(log, s, i))]
      BY <2>2, <3>3, Zenon DEF EndOf
    <3> QED BY <3>2, <3>4, Zenon
  <2>3. \A r \in Readers : Cardinality(EntriesOf(r)) < Len(reader[r].checks) => Len(log) = MaxEntries
    BY <1>1, <2>1, Zenon
  <2> QED BY <1>1, <2>2, <2>3, Zenon DEF AuditIsFaithful
<1>3. FilteredAsGranted
  <2>1. ASSUME NEW r \in Readers, reader[r].pc # "idle"
        PROVE  LET me == reader[r]
                   claims == ClaimsOf[r]
                   good(i) == claims.expires_at = None \/ taken[r][i].at <= claims.expires_at
               IN  /\ Range(me.kept) = {i \in 1..(me.at - 1) : Entitled(claims, Frame[i]) /\ good(i)}
                   /\ \A i, j \in DOMAIN me.kept : i < j => me.kept[i] < me.kept[j]
    <3> DEFINE me == reader[r]
               claims == ClaimsOf[r]
    <3>1. Filtering(me, taken[r], claims, May(r))
      BY <2>1, Zenon DEF ReadersInv
    <3>2. /\ Range(me.kept) = {i \in 1..(me.at - 1) : i \in May(r) /\ Good(claims, taken[r], i)}
          /\ \A i, j \in DOMAIN me.kept : i < j => me.kept[i] < me.kept[j]
          /\ me.at \in 1..(Len(Frame) + 1)
      BY <3>1, Zenon DEF Filtering
    <3>3. \A i \in 1..(me.at - 1) : i \in DOMAIN Frame
      BY <3>2, AccessAssumption
    <3>4. {i \in 1..(me.at - 1) : i \in May(r) /\ Good(claims, taken[r], i)} =
          {i \in 1..(me.at - 1) : Entitled(claims, Frame[i])
             /\ (claims.expires_at = None \/ taken[r][i].at <= claims.expires_at)}
      <4> HIDE DEF me
      <4> QED BY <3>3, Zenon DEF May, Good
    <3> HIDE DEF me
    <3>5. Range(me.kept) = {i \in 1..(me.at - 1) : Entitled(claims, Frame[i])
             /\ (claims.expires_at = None \/ taken[r][i].at <= claims.expires_at)}
      BY <3>2, <3>4, Zenon
    <3> QED BY <3>2, <3>5, Zenon DEF me
  <2> QED BY <2>1, Zenon DEF FilteredAsGranted
<1> QED BY <1>2, <1>3

\* Readers, log and limiter together: what a reader was given was granted to it, the
\* log holds the end of every reader's checks, a key is admitted at most twice its
\* maximum in the length of a window, and cleaning up changes no answer.  For every
\* set of readers, tokens and settings, every frame, size of the log, maximum and
\* length of window, and whichever way the readers, the clock, the limiter and the
\* cleanup interleave.
THEOREM AccessAccounted == Spec => []AccessIsAccounted
<1> DEFINE Inv == ReadersInv /\ LimiterInv
<1>1. now = 0 /\ AccessInit /\ LimiterInit => Inv
  BY ReadersStart, LimiterStarts
<1>2. Inv /\ [AccessNext \/ LimiterNext \/ Tick]_vars => Inv'
  <2> SUFFICES ASSUME ReadersInv, LimiterInv, [AccessNext \/ LimiterNext \/ Tick]_vars
               PROVE  ReadersInv' /\ LimiterInv'
    BY Zenon
  <2>1. now \in Nat
    BY DEF LimiterInv
  <2>2. CASE UNCHANGED vars
    <3>1. UNCHANGED controller /\ UNCHANGED <<now, limiter>> /\ now' \in Nat
      BY <2>1, <2>2 DEF vars
    <3> QED BY <3>1, ElsewhereStep, LimiterStep, Zenon
  <2>3. CASE Tick
    <3>1. UNCHANGED controller /\ now' \in Nat
      BY <2>1, <2>3 DEF Tick
    <3> QED BY <2>3, <3>1, ElsewhereStep, LimiterStep, Zenon
  <2>4. CASE LimiterNext
    <3>1. UNCHANGED controller /\ now' \in Nat
      BY <2>1, <2>4, Zenon DEF LimiterNext, Ask, Cleanup
    <3>2. Cleanup \/ \E k \in Keys : Ask(k)
      BY <2>4, Zenon DEF LimiterNext
    <3> QED BY <3>1, <3>2, ElsewhereStep, LimiterStep, Zenon
  <2>5. CASE AccessNext
    <3>1. UNCHANGED <<now, limiter>>
      BY <2>5 DEF AccessNext, Configure, SetDefaultLevel, SetAudit, Begin, Decide, Stamp, Record, Finish
    <3>2. LimiterInv'
      BY <3>1, LimiterStep, Zenon
    <3>3. CASE \/ \E s \in Settings : Configure(s)
               \/ \E level \in Levels : SetDefaultLevel(level)
               \/ \E on \in BOOLEAN : SetAudit(on)
      BY <3>2, <3>3, ConfigureStep, Zenon
    <3>4. CASE \E r \in Readers : Begin(r) \/ Decide(r) \/ Stamp(r) \/ Record(r) \/ Finish(r)
      BY <3>2, <3>4, ReaderSteps, RecordStep, Zenon
    <3> QED BY <2>5, <3>3, <3>4, Zenon DEF AccessNext
  <2> QED BY <2>2, <2>3, <2>4, <2>5, Zenon
<1>3. Inv => AccessIsAccounted
  BY ReadersInvMeans, LimiterInvMeans, Zenon DEF AccessIsAccounted
<1> QED BY <1>1, <1>2, <1>3, PTL DEF Spec

==============================================================================
