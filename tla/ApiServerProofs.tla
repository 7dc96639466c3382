--------------------------- MODULE ApiServerProofs ---------------------------
(***************************************************************************)
(* Proofs about the limiter, the client of the Management API and the API  *)
(* they are part of.  Every step of the API is a step of the limiter and a *)
(* step of the client, or leaves them alone, so that what holds of them    *)
(* holds of the API.                                                       *)
(***************************************************************************)
EXTENDS ApiServer, FiniteSetTheorems, TLAPS

-----------------------------------------------------------------------------
(* The limiter.  For one key: b its bucket, l its log, m its maximum, t    *)
(* the time.                                                               *)

Bucket == [count : Nat, resetAt : Nat]
Entry == [at : Nat, start : Nat]

Admitted(b, m) == IF b.count <= m THEN b.count ELSE m

(* The bucket has begun, and the log ends with what it has admitted.       *)
BucketInv(b, l, m, t) ==
  /\ b.resetAt > 0 => b.count > 0 /\ b.resetAt >= Window /\ b.resetAt - Window <= t
  /\ b.resetAt = 0 => b.count = 0 /\ Len(l) = 0
  /\ Admitted(b, m) <= Len(l)
  /\ \A i \in 1..Len(l) :
       IF i > Len(l) - Admitted(b, m) THEN l[i].start = b.resetAt - Window
                                      ELSE l[i].start + Window <= b.resetAt - Window

(* Windows last a window, follow one another, begin with an admission and  *)
(* have at most m.                                                         *)
LogInv(l, m) ==
  /\ \A i \in 1..Len(l) : l[i].at \in l[i].start .. l[i].start + Window - 1
  /\ \A i, j \in 1..Len(l) : i <= j => l[i].start <= l[j].start
  /\ \A i \in 1..Len(l) : i + m <= Len(l) => l[i].start + Window <= l[i + m].start
  /\ \A i \in 1..Len(l) : i = 1 \/ l[i - 1].start # l[i].start => l[i].at = l[i].start

KeyInv(b, l, m, t) == BucketInv(b, l, m, t) /\ LogInv(l, m)

LimiterInv ==
  /\ LimiterTypeOK
  /\ \A k \in Keys : KeyInv(buckets[k], log[k], Max[k], now)

LEMMA AppendFacts ==
  ASSUME NEW l \in Seq(Entry), NEW e \in Entry
  PROVE  /\ Append(l, e) \in Seq(Entry)
         /\ Len(Append(l, e)) = Len(l) + 1
         /\ \A i \in 1..Len(l) : Append(l, e)[i] = l[i]
         /\ Append(l, e)[Len(l) + 1] = e
  OBVIOUS

LEMMA EntryFacts ==
  ASSUME NEW l \in Seq(Entry), NEW i \in 1..Len(l)
  PROVE  l[i] \in Entry /\ l[i].at \in Nat /\ l[i].start \in Nat
<1>1. l[i] \in Entry
  OBVIOUS
<1> QED BY <1>1 DEF Entry

(* The parts of LogInv, for one pair of entries.                           *)
LEMMA LogFacts ==
  ASSUME NEW l, NEW m, LogInv(l, m), NEW i \in 1..Len(l)
  PROVE  /\ l[i].at \in l[i].start .. l[i].start + Window - 1
         /\ \A j \in 1..Len(l) : i <= j => l[i].start <= l[j].start
         /\ i = 1 \/ l[i - 1].start # l[i].start => l[i].at = l[i].start
  BY DEF LogInv

LEMMA Spacing ==
  ASSUME NEW l \in Seq(Entry), NEW m \in Nat \ {0}, LogInv(l, m),
         NEW i \in 1..Len(l), NEW j \in 1..Len(l), j = i + m
  PROVE  l[i].start + Window <= l[j].start
<1>1. i + m <= Len(l)
  OBVIOUS
<1>2. l[i].start + Window <= l[i + m].start
  BY <1>1 DEF LogInv
<1> QED BY <1>2

(* A window that ends, or lies before one that ends, at e.                  *)
LEMMA WindowsEnd ==
  ASSUME NEW s \in Nat, NEW e \in Nat, NEW t \in Nat, e <= t,
         s = e - Window \/ s + Window <= e - Window
  PROVE  s + Window <= t
  BY LimiterAssumption

(* A request that begins a window: the former one has ended.               *)
LEMMA NewWindow ==
  ASSUME NEW b \in Bucket, NEW l \in Seq(Entry), NEW m \in Nat \ {0}, NEW t \in Nat,
         KeyInv(b, l, m, t), b.resetAt <= t,
         NEW c \in Bucket, c.count = 1, c.resetAt = t + Window,
         NEW q \in Seq(Entry), Len(q) = Len(l) + 1,
         \A i \in 1..Len(l) : q[i] = l[i],
         q[Len(l) + 1].at = t, q[Len(l) + 1].start = t
  PROVE  KeyInv(c, q, m, t)
<1> USE LimiterAssumption
<1>1. /\ Len(l) \in Nat /\ LogInv(l, m)
      /\ \A i \in 1..Len(l) : q[i] = l[i] /\ l[i].at \in Nat /\ l[i].start \in Nat
  BY EntryFacts DEF KeyInv
<1>2. ASSUME NEW i \in 1..Len(l) PROVE l[i].start + Window <= t
  <2>1. l[i].start \in Nat /\ b.resetAt \in Nat
    BY <1>1 DEF Bucket
  <2>2. IF i > Len(l) - Admitted(b, m) THEN l[i].start = b.resetAt - Window
        ELSE l[i].start + Window <= b.resetAt - Window
    BY DEF KeyInv, BucketInv
  <2>3. l[i].start = b.resetAt - Window \/ l[i].start + Window <= b.resetAt - Window
    BY <2>2
  <2> QED BY <2>1, <2>3, WindowsEnd
<1>3. BucketInv(c, q, m, t)
  <2>1. Admitted(c, m) = 1
    BY DEF Admitted
  <2>2. ASSUME NEW i \in 1..Len(q)
        PROVE  IF i > Len(q) - 1 THEN q[i].start = c.resetAt - Window
               ELSE q[i].start + Window <= c.resetAt - Window
    <3>1. CASE i = Len(l) + 1
      BY <1>1, <3>1
    <3>2. CASE i \in 1..Len(l)
      BY <1>1, <1>2, <3>2
    <3> QED BY <1>1, <3>1, <3>2
  <2> QED BY <1>1, <2>1, <2>2 DEF BucketInv
<1>4. ASSUME NEW i \in 1..Len(q) PROVE q[i].at \in q[i].start .. q[i].start + Window - 1
  <2>1. CASE i = Len(l) + 1
    BY <2>1
  <2>2. CASE i \in 1..Len(l)
    BY <1>1, <2>2, LogFacts
  <2> QED BY <1>1, <2>1, <2>2
<1>5. ASSUME NEW i \in 1..Len(q), NEW j \in 1..Len(q), i <= j PROVE q[i].start <= q[j].start
  <2>1. CASE i \in 1..Len(l) /\ j \in 1..Len(l)
    BY <1>1, <1>5, <2>1, LogFacts
  <2>2. CASE i \in 1..Len(l) /\ j = Len(l) + 1
    BY <1>1, <1>2, <2>2
  <2>3. CASE i = Len(l) + 1 /\ j = Len(l) + 1
    BY <2>3
  <2> QED BY <1>1, <1>5, <2>1, <2>2, <2>3
<1>6. ASSUME NEW i \in 1..Len(q), i + m <= Len(q) PROVE q[i].start + Window <= q[i + m].start
  <2>1. i \in 1..Len(l)
    BY <1>1, <1>6
  <2>2. CASE i + m = Len(l) + 1
    BY <1>1, <1>2, <2>1, <2>2
  <2>3. CASE i + m <= Len(l)
    <3> DEFINE j == i + m
    <3>1. j \in 1..Len(l) /\ q[j] = l[j] /\ q[i] = l[i]
      BY <1>1, <2>1, <2>3
    <3>2. l[i].start + Window <= l[j].start
      BY <1>1, <2>1, <3>1, Spacing
    <3> HIDE DEF j
    <3>3. q[i].start + Window <= q[j].start
      BY <3>1, <3>2
    <3> QED BY <3>3 DEF j
  <2>4. i \in Nat /\ i + m <= Len(l) + 1
    BY <1>1, <1>6, <2>1
  <2>5. i + m = Len(l) + 1 \/ i + m <= Len(l)
    BY <1>1, <2>4
  <2> QED BY <2>2, <2>3, <2>5
<1>7. ASSUME NEW i \in 1..Len(q), i = 1 \/ q[i - 1].start # q[i].start PROVE q[i].at = q[i].start
  <2>1. CASE i = Len(l) + 1
    BY <2>1
  <2>2. CASE i = 1 /\ i \in 1..Len(l)
    BY <1>1, <2>2, LogFacts
  <2>3. CASE i # 1 /\ i \in 1..Len(l)
    <3>1. i - 1 \in 1..Len(l)
      BY <1>1, <2>3
    <3>2. l[i - 1].start # l[i].start
      <4>1. q[i - 1] = l[i - 1] /\ q[i] = l[i]
        BY <1>1, <2>3, <3>1
      <4> QED BY <1>7, <2>3, <4>1
    <3>3. l[i].at = l[i].start
      BY <1>1, <2>3, <3>2, LogFacts
    <3> QED BY <1>1, <2>3, <3>3
  <2>4. i = Len(l) + 1 \/ i \in 1..Len(l)
    BY <1>1
  <2> QED BY <2>1, <2>2, <2>3, <2>4
<1>8. LogInv(q, m)
  BY <1>4, <1>5, <1>6, <1>7 DEF LogInv
<1> QED BY <1>3, <1>8 DEF KeyInv

(* A request that the window still admits.                                 *)
LEMMA SameWindow ==
  ASSUME NEW b \in Bucket, NEW l \in Seq(Entry), NEW m \in Nat \ {0}, NEW t \in Nat,
         KeyInv(b, l, m, t), b.resetAt > t, b.count + 1 <= m,
         NEW c \in Bucket, c.count = b.count + 1, c.resetAt = b.resetAt,
         NEW q \in Seq(Entry), Len(q) = Len(l) + 1,
         \A i \in 1..Len(l) : q[i] = l[i],
         q[Len(l) + 1].at = t, q[Len(l) + 1].start = b.resetAt - Window
  PROVE  KeyInv(c, q, m, t)
<1> USE LimiterAssumption
<1>1. /\ Len(l) \in Nat /\ LogInv(l, m)
      /\ \A i \in 1..Len(l) : q[i] = l[i] /\ l[i].at \in Nat /\ l[i].start \in Nat
  BY EntryFacts DEF KeyInv
<1>2. b.count \in Nat \ {0} /\ b.resetAt \in Nat /\ b.resetAt - Window \in 0..t
  BY DEF Bucket, KeyInv, BucketInv
<1>3. Admitted(b, m) = b.count /\ Admitted(c, m) = b.count + 1 /\ b.count <= Len(l)
  BY <1>2 DEF Admitted, KeyInv, BucketInv
<1>4. ASSUME NEW i \in 1..Len(l)
      PROVE  IF i > Len(l) - b.count THEN l[i].start = b.resetAt - Window
             ELSE l[i].start + Window <= b.resetAt - Window
  BY <1>3 DEF KeyInv, BucketInv
<1>5. BucketInv(c, q, m, t)
  <2>1. ASSUME NEW i \in 1..Len(q)
        PROVE  IF i > Len(q) - (b.count + 1) THEN q[i].start = c.resetAt - Window
               ELSE q[i].start + Window <= c.resetAt - Window
    <3>1. CASE i = Len(l) + 1
      BY <1>1, <1>2, <3>1
    <3>2. CASE i \in 1..Len(l)
      <4>1. q[i] = l[i] /\ l[i].start \in Nat
        BY <1>1, <3>2
      <4>2. i > Len(q) - (b.count + 1) <=> i > Len(l) - b.count
        BY <1>1, <1>2, <3>2
      <4>3. IF i > Len(l) - b.count THEN l[i].start = b.resetAt - Window
            ELSE l[i].start + Window <= b.resetAt - Window
        BY <1>4, <3>2
      <4> QED BY <4>1, <4>2, <4>3
    <3> QED BY <1>1, <3>1, <3>2
  <2>2. c.count \in Nat /\ c.count = b.count + 1 /\ c.resetAt \in Nat
    BY <1>2
  <2>3. Admitted(c, m) <= Len(q) /\ Len(q) \in Nat
    BY <1>1, <1>2, <1>3
  <2>4. c.resetAt > 0 /\ c.count > 0 /\ c.resetAt >= Window /\ c.resetAt - Window <= t
    BY <1>2, <2>2, SMTT(60)
  <2>5. Admitted(c, m) = b.count + 1
    BY <1>3
  <2> QED BY <2>1, <2>3, <2>4, <2>5 DEF BucketInv
<1>6. ASSUME NEW i \in 1..Len(q) PROVE q[i].at \in q[i].start .. q[i].start + Window - 1
  <2>1. CASE i = Len(l) + 1
    <3>1. b.resetAt - Window \in 0..t /\ t < b.resetAt /\ b.resetAt \in Nat
      BY <1>2
    <3>2. q[i].at = t /\ q[i].start = b.resetAt - Window
      BY <2>1
    <3>3. t \in b.resetAt - Window .. (b.resetAt - Window) + Window - 1
      BY <3>1
    <3> QED BY <3>2, <3>3
  <2>2. CASE i \in 1..Len(l)
    BY <1>1, <2>2, LogFacts
  <2> QED BY <1>1, <2>1, <2>2
<1>7. ASSUME NEW i \in 1..Len(q), NEW j \in 1..Len(q), i <= j PROVE q[i].start <= q[j].start
  <2>1. CASE i \in 1..Len(l) /\ j \in 1..Len(l)
    BY <1>1, <1>7, <2>1, LogFacts
  <2>2. CASE i \in 1..Len(l) /\ j = Len(l) + 1
    <3>1. q[i] = l[i] /\ l[i].start \in Nat
      BY <1>1, <2>2
    <3>2. IF i > Len(l) - b.count THEN l[i].start = b.resetAt - Window
          ELSE l[i].start + Window <= b.resetAt - Window
      BY <1>4, <2>2
    <3>3. l[i].start <= b.resetAt - Window
      BY <1>2, <3>1, <3>2
    <3> QED BY <2>2, <3>1, <3>3
  <2>3. CASE i = Len(l) + 1 /\ j = Len(l) + 1
    BY <1>2, <2>3
  <2> QED BY <1>1, <1>7, <2>1, <2>2, <2>3
<1>8. ASSUME NEW i \in 1..Len(q), i + m <= Len(q) PROVE q[i].start + Window <= q[i + m].start
  <2>1. i \in 1..Len(l)
    BY <1>1, <1>8
  <2>2. CASE i + m = Len(l) + 1
    <3>1. ~(i > Len(l) - b.count)
      BY <1>1, <1>2, <2>2
    <3> QED BY <1>1, <1>4, <2>1, <2>2, <3>1
  <2>3. CASE i + m <= Len(l)
    <3> DEFINE j == i + m
    <3>1. j \in 1..Len(l) /\ q[j] = l[j] /\ q[i] = l[i]
      BY <1>1, <2>1, <2>3
    <3>2. l[i].start + Window <= l[j].start
      BY <1>1, <2>1, <3>1, Spacing
    <3> HIDE DEF j
    <3>3. q[i].start + Window <= q[j].start
      BY <3>1, <3>2
    <3> QED BY <3>3 DEF j
  <2>4. i \in Nat /\ i + m <= Len(l) + 1
    BY <1>1, <1>8, <2>1
  <2>5. i + m = Len(l) + 1 \/ i + m <= Len(l)
    BY <1>1, <2>4
  <2> QED BY <2>2, <2>3, <2>5
<1>9. ASSUME NEW i \in 1..Len(q), i = 1 \/ q[i - 1].start # q[i].start PROVE q[i].at = q[i].start
  <2>1. i # Len(l) + 1
    <3> SUFFICES ASSUME i = Len(l) + 1 PROVE FALSE
      OBVIOUS
    <3>1. Len(l) \in 1..Len(l) /\ Len(l) > Len(l) - b.count /\ i # 1 /\ i - 1 = Len(l)
      BY <1>1, <1>2, <1>3
    <3>2. q[Len(l)].start = b.resetAt - Window
      BY <1>1, <1>4, <3>1
    <3> QED BY <1>9, <3>1, <3>2
  <2>2. CASE i = 1 /\ i \in 1..Len(l)
    BY <1>1, <2>2, LogFacts
  <2>3. CASE i # 1 /\ i \in 1..Len(l)
    <3>1. i - 1 \in 1..Len(l) /\ q[i - 1] = l[i - 1] /\ q[i] = l[i]
      BY <1>1, <2>3
    <3>2. l[i - 1].start # l[i].start
      BY <1>9, <2>3, <3>1
    <3>3. l[i].at = l[i].start
      BY <1>1, <2>3, <3>2, LogFacts
    <3> QED BY <3>1, <3>3
  <2>4. i \in 1..Len(l)
    BY <1>1, <2>1
  <2> QED BY <2>2, <2>3, <2>4
<1>10. LogInv(q, m)
  BY <1>6, <1>7, <1>8, <1>9 DEF LogInv
<1> QED BY <1>5, <1>10 DEF KeyInv

(* A request that is refused only counts.                                  *)
LEMMA OverLimit ==
  ASSUME NEW b \in Bucket, NEW l \in Seq(Entry), NEW m \in Nat \ {0}, NEW t \in Nat,
         KeyInv(b, l, m, t), b.resetAt > t, b.count + 1 > m,
         NEW c \in Bucket, c.count = b.count + 1, c.resetAt = b.resetAt
  PROVE  KeyInv(c, l, m, t)
<1>1. b.count \in Nat
  BY DEF Bucket
<1>2. Admitted(c, m) = Admitted(b, m)
  BY <1>1 DEF Admitted
<1> QED BY <1>1, <1>2 DEF KeyInv, BucketInv

LEMMA LimiterInit == InitLimiter => LimiterInv
<1> SUFFICES ASSUME InitLimiter PROVE LimiterInv
  OBVIOUS
<1>1. LimiterTypeOK
  BY DEF InitLimiter, LimiterTypeOK
<1>2. ASSUME NEW k \in Keys PROVE KeyInv(buckets[k], log[k], Max[k], now)
  <2>1. buckets[k] = [count |-> 0, resetAt |-> 0] /\ log[k] = <<>> /\ Max[k] \in Nat \ {0}
    BY LimiterAssumption DEF InitLimiter
  <2>2. Admitted(buckets[k], Max[k]) = 0
    BY <2>1 DEF Admitted
  <2> QED BY <2>1, <2>2 DEF KeyInv, BucketInv, LogInv
<1> QED BY <1>1, <1>2 DEF LimiterInv

LEMMA LimitInv ==
  ASSUME LimiterInv, NEW k \in Keys, Limit(k), UNCHANGED now
  PROVE  LimiterInv'
<1> USE LimiterAssumption
<1> DEFINE b == buckets[k]  l == log[k]  m == Max[k]  c == Incremented(k)
           e == [at |-> now, start |-> c.resetAt - Window]
<1>1. /\ b \in Bucket /\ l \in Seq(Entry) /\ m \in Nat \ {0} /\ now \in Nat
      /\ KeyInv(b, l, m, now)
  BY DEF LimiterInv, LimiterTypeOK, Bucket, Entry
<1>2. CASE b.resetAt <= now
  <2>1. c = [count |-> 1, resetAt |-> now + Window] /\ e \in Entry /\ e.at = now /\ e.start = now
    BY <1>1, <1>2 DEF Incremented, Entry
  <2>2. c \in Bucket /\ c.count = 1 /\ c.resetAt = now + Window /\ Admits(k)
    BY <1>1, <2>1 DEF Bucket, Admits
  <2>3. KeyInv(c, Append(l, e), m, now)
    <3> HIDE DEF b, l, m, c, e
    <3> DEFINE q == Append(l, e)
    <3>1. /\ q \in Seq(Entry) /\ Len(q) = Len(l) + 1 /\ \A i \in 1..Len(l) : q[i] = l[i]
          /\ q[Len(l) + 1].at = now /\ q[Len(l) + 1].start = now
      BY <1>1, <2>1, AppendFacts
    <3> HIDE DEF q
    <3>2. KeyInv(c, q, m, now)
      BY <1>1, <1>2, <2>2, <3>1, NewWindow
    <3> QED BY <3>2 DEF q
  <2> QED BY <1>1, <2>1, <2>2, <2>3, AppendFacts DEF LimiterInv, LimiterTypeOK, Limit, Bucket, Entry
<1>3. CASE b.resetAt > now
  <2>1. c \in Bucket /\ c.count = b.count + 1 /\ c.resetAt = b.resetAt
    BY <1>1, <1>3 DEF Incremented, Bucket
  <2>2. CASE b.count + 1 <= m
    <3>1. Admits(k)
      BY <2>1, <2>2 DEF Admits
    <3>a. b.resetAt \in Nat /\ b.resetAt >= Window
      BY <1>1, <1>3 DEF Bucket, KeyInv, BucketInv
    <3>b. b.resetAt - Window \in Nat
      BY <3>a, LimiterAssumption
    <3>2. e \in Entry /\ e.at = now /\ e.start = b.resetAt - Window
      BY <1>1, <2>1, <3>b DEF Entry
    <3>3. KeyInv(c, Append(l, e), m, now)
      <4> HIDE DEF b, l, m, c, e
      <4> DEFINE q == Append(l, e)
      <4>1. /\ q \in Seq(Entry) /\ Len(q) = Len(l) + 1 /\ \A i \in 1..Len(l) : q[i] = l[i]
            /\ q[Len(l) + 1].at = now /\ q[Len(l) + 1].start = b.resetAt - Window
        BY <1>1, <3>2, AppendFacts
      <4> HIDE DEF q
      <4>2. KeyInv(c, q, m, now)
        BY <1>1, <1>3, <2>1, <2>2, <4>1, SameWindow
      <4> QED BY <4>2 DEF q
    <3> QED BY <1>1, <2>1, <3>1, <3>2, <3>3, AppendFacts DEF LimiterInv, LimiterTypeOK, Limit, Bucket, Entry
  <2>3. CASE b.count + 1 > m
    <3>1. ~Admits(k)
      BY <1>1, <2>1, <2>3 DEF Admits, Bucket
    <3>2. KeyInv(c, l, m, now)
      <4> HIDE DEF b, l, m, c
      <4> QED BY <1>1, <1>3, <2>1, <2>3, OverLimit
    <3> QED BY <1>1, <2>1, <3>1, <3>2 DEF LimiterInv, LimiterTypeOK, Limit, Bucket
  <2> QED BY <1>1, <2>2, <2>3 DEF Bucket
<1> QED BY <1>1, <1>2, <1>3 DEF Bucket

LEMMA TimeInv ==
  ASSUME LimiterInv, TimePasses
  PROVE  LimiterInv'
<1>1. LimiterTypeOK'
  BY DEF LimiterInv, LimiterTypeOK, TimePasses
<1>2. ASSUME NEW k \in Keys PROVE KeyInv(buckets[k], log[k], Max[k], now')
  <2>1. now \in Nat /\ now' = now + 1 /\ buckets[k].resetAt \in Nat /\ Window \in Nat
    BY LimiterAssumption DEF LimiterInv, LimiterTypeOK, TimePasses
  <2> QED BY <2>1 DEF LimiterInv, KeyInv, BucketInv
<1> QED BY <1>1, <1>2 DEF LimiterInv, TimePasses

(* The limiter keeps its windows apart and their admissions within the     *)
(* maximum.                                                                *)
THEOREM LimiterInvariant == LimiterSpec => []LimiterInv
<1>1. LimiterInv /\ [LimiterNext]_limiterVars => LimiterInv'
  <2> SUFFICES ASSUME LimiterInv, [LimiterNext]_limiterVars PROVE LimiterInv'
    OBVIOUS
  <2>1. CASE UNCHANGED limiterVars
    BY <2>1 DEF limiterVars, LimiterInv, LimiterTypeOK
  <2>2. CASE LimiterNext
    BY <2>2, LimitInv, TimeInv DEF LimiterNext, LimiterStep
  <2> QED BY <2>1, <2>2
<1> QED BY <1>1, LimiterInit, PTL DEF LimiterSpec

LEMMA ApartBySpacing ==
  ASSUME NEW w \in Nat, NEW first \in Nat, NEW middle \in Nat, NEW last \in Nat, NEW at \in Nat,
         first + w <= middle, middle <= last, last <= at
  PROVE  at >= first + w
  OBVIOUS

LEMMA ApartByWindow ==
  ASSUME NEW w \in Nat, NEW first \in Nat, NEW start \in Nat, NEW middle \in Nat, NEW last \in Nat, NEW at \in Nat,
         first <= start + w - 1, start + w <= middle, middle + w <= last, last <= at
  PROVE  at >= first + w
  OBVIOUS

LEMMA BoundedForKey ==
  ASSUME NEW l \in Seq(Entry), NEW m \in Nat \ {0}, LogInv(l, m),
         NEW i \in 1..Len(l), NEW j \in 1..Len(l), j = i + 2 * m - 1
  PROVE  l[j].at >= l[i].at + Window
<1>1. /\ Window \in Nat
      /\ \A x \in 1..Len(l) : l[x].at \in Nat /\ l[x].start \in Nat
  BY EntryFacts, LimiterAssumption
<1>2. l[j].start <= l[j].at
  <2>1. l[j].at \in l[j].start .. l[j].start + Window - 1
    BY LogFacts
  <2> QED BY <1>1, <2>1
<1>3. l[i].at <= l[i].start + Window - 1
  <2>1. l[i].at \in l[i].start .. l[i].start + Window - 1
    BY LogFacts
  <2> QED BY <1>1, <2>1
<1>4. CASE i = 1 \/ l[i - 1].start # l[i].start
  <2>1. l[i].at = l[i].start
    BY <1>4, LogFacts
  <2>2. PICK g \in 1..Len(l) : g = i + m /\ g <= j
    OBVIOUS
  <2>3. l[i].start + Window <= l[g].start
    BY <2>2, Spacing
  <2>4. l[g].start <= l[j].start
    BY <2>2, LogFacts
  <2>5. /\ Window \in Nat /\ l[i].at \in Nat /\ l[i].start \in Nat /\ l[g].start \in Nat
        /\ l[j].start \in Nat /\ l[j].at \in Nat
    BY <1>1
  <2>6. l[j].at >= l[i].start + Window
    BY <1>2, <2>3, <2>4, <2>5, ApartBySpacing
  <2> QED BY <2>1, <2>6
<1>5. CASE i # 1 /\ l[i - 1].start = l[i].start
  <2>1. PICK h \in 1..Len(l) : h = i - 1
    BY <1>5
  <2>2. PICK f \in 1..Len(l) : f = h + m /\ j = f + m
    BY <2>1
  <2>3. l[i].start + Window <= l[f].start
    BY <1>5, <2>1, <2>2, Spacing
  <2>4. l[f].start + Window <= l[j].start
    BY <2>2, Spacing
  <2>6. /\ Window \in Nat /\ l[i].at \in Nat /\ l[i].start \in Nat /\ l[f].start \in Nat
        /\ l[j].start \in Nat /\ l[j].at \in Nat
    BY <1>1
  <2> QED BY <1>2, <1>3, <2>3, <2>4, <2>6, ApartByWindow
<1> QED BY <1>4, <1>5

LEMMA LimiterInvHolds == LimiterInv => LimitHolds
<1> SUFFICES ASSUME LimiterInv PROVE LimitHolds
  OBVIOUS
<1>1. \A k \in Keys : /\ log[k] \in Seq(Entry) /\ buckets[k] \in Bucket /\ Max[k] \in Nat \ {0}
                      /\ KeyInv(buckets[k], log[k], Max[k], now)
  BY LimiterAssumption DEF LimiterInv, LimiterTypeOK, Entry, Bucket
<1>2. AdmissionIsBounded
  <2> SUFFICES ASSUME NEW k \in Keys, NEW i \in 1..Len(log[k]), i + 2 * Max[k] - 1 <= Len(log[k])
               PROVE  log[k][i + 2 * Max[k] - 1].at >= log[k][i].at + Window
    BY DEF AdmissionIsBounded
  <2>1. LogInv(log[k], Max[k])
    BY <1>1 DEF KeyInv
  <2>2. PICK j \in 1..Len(log[k]) : j = i + 2 * Max[k] - 1
    BY <1>1
  <2> QED BY <1>1, <2>1, <2>2, BoundedForKey
<1>3. RefusalIsDeserved
  <2> SUFFICES ASSUME NEW k \in Keys, buckets[k].count > Max[k]
               PROVE  /\ Len(log[k]) >= Max[k]
                      /\ \A i \in Len(log[k]) - Max[k] + 1 .. Len(log[k]) :
                           log[k][i].at \in buckets[k].resetAt - Window .. buckets[k].resetAt - 1
    BY DEF RefusalIsDeserved
  <2> DEFINE b == buckets[k]  l == log[k]  m == Max[k]
  <2>1. /\ l \in Seq(Entry) /\ b.count \in Nat /\ b.resetAt \in Nat /\ m \in Nat \ {0}
        /\ BucketInv(b, l, m, now) /\ LogInv(l, m)
    BY <1>1 DEF KeyInv, Bucket
  <2>2. Admitted(b, m) = m
    BY <2>1 DEF Admitted
  <2>3. Len(l) >= m
    BY <2>1, <2>2 DEF BucketInv
  <2>4. ASSUME NEW i \in Len(l) - m + 1 .. Len(l)
        PROVE  l[i].at \in b.resetAt - Window .. b.resetAt - 1
    <3>1. i \in 1..Len(l) /\ i > Len(l) - m
      BY <2>1, <2>3
    <3>2. l[i].start = b.resetAt - Window
      BY <2>1, <2>2, <3>1 DEF BucketInv
    <3>3. l[i].at \in l[i].start .. l[i].start + Window - 1
      BY <2>1, <3>1 DEF LogInv
    <3> QED BY <2>1, <3>2, <3>3, LimiterAssumption
  <2> QED BY <2>3, <2>4
<1> QED BY <1>2, <1>3 DEF LimitHolds

-----------------------------------------------------------------------------
(* The client.                                                             *)

Calls == [at : Stages, since : Nat, exp : Nat]

(* A token that is read has its age bounded by MaxBody, and one that is    *)
(* sent outlives the timer of its call.                                    *)
CallInv(k, t) ==
  /\ k \in Calls
  /\ k.at = "tokenBody" => k.exp = k.since + TTL /\ t <= k.since + MaxBody
  /\ k.at = "sent" => t <= k.since + Timeout /\ k.since + Timeout < k.exp
  /\ k.at \notin {"denied", "unauthorized"}

(* A token is believed to live at most MaxBody longer than it does.        *)
ClientInv ==
  /\ ClientTypeOK
  /\ cache # NoToken => cache.believed <= cache.exp + MaxBody
  /\ \A c \in Callers : CallInv(call[c], now)

LEMMA CallFacts ==
  ASSUME NEW k \in Calls
  PROVE  k.at \in Stages /\ k.since \in Nat /\ k.exp \in Nat
  BY DEF Calls

LEMMA CallExcept ==
  ASSUME NEW k \in Calls, NEW a, NEW s
  PROVE  [k EXCEPT !.at = a, !.since = s] = [at |-> a, since |-> s, exp |-> k.exp]
<1>1. k = [at |-> k.at, since |-> k.since, exp |-> k.exp]
  BY DEF Calls
<1>2. [k EXCEPT !.at = a] = [at |-> a, since |-> k.since, exp |-> k.exp]
  BY <1>1
<1> DEFINE x == [at |-> a, since |-> k.since, exp |-> k.exp]
<1>3. [x EXCEPT !.since = s] = [at |-> a, since |-> s, exp |-> k.exp]
  OBVIOUS
<1> HIDE DEF x
<1>4. [[k EXCEPT !.at = a] EXCEPT !.since = s] = [at |-> a, since |-> s, exp |-> k.exp]
  BY <1>2, <1>3 DEF x
<1> QED BY <1>4

(* A record of Calls from its fields.                                      *)
LEMMA CallRecord ==
  ASSUME NEW at \in Stages, NEW since \in Nat, NEW exp \in Nat
  PROVE  /\ [at |-> at, since |-> since, exp |-> exp] \in Calls
         /\ [at |-> at, since |-> since, exp |-> exp].at = at
         /\ [at |-> at, since |-> since, exp |-> exp].since = since
         /\ [at |-> at, since |-> since, exp |-> exp].exp = exp
  BY DEF Calls

(* One call changes, and the cache with it or not.                         *)
LEMMA OneCall ==
  ASSUME ClientInv, NEW c \in Callers, NEW k, CallInv(k, now),
         call' = [call EXCEPT ![c] = k], UNCHANGED now,
         cache' \in [exp : Nat, believed : Nat] \cup {NoToken},
         cache' # NoToken => cache'.believed <= cache'.exp + MaxBody
  PROVE  ClientInv'
<1>1. call \in [Callers -> Calls] /\ k \in Calls
  BY DEF ClientInv, ClientTypeOK, Calls, CallInv
<1>2. call' \in [Callers -> Calls]
  BY <1>1
<1>3. \A d \in Callers : CallInv(call'[d], now)
  BY <1>1 DEF ClientInv
<1> QED BY <1>2, <1>3 DEF ClientInv, ClientTypeOK, Calls, CallInv

LEMMA MovesInv ==
  ASSUME ClientInv, NEW c \in Callers, NEW from, NEW to \in Stages, Moves(c, from, to), UNCHANGED now,
         to \notin {"tokenBody", "denied", "unauthorized"},
         to = "sent" => now + Timeout < call[c].exp,
         cache' \in [exp : Nat, believed : Nat] \cup {NoToken},
         cache' # NoToken => cache'.believed <= cache'.exp + MaxBody
  PROVE  ClientInv'
<1> DEFINE s == IF to = "sent" THEN now ELSE 0
           k == [at |-> to, since |-> s, exp |-> call[c].exp]
<1>1. call \in [Callers -> Calls] /\ now \in Nat
  BY DEF ClientInv, ClientTypeOK, Calls
<1>2. call[c] \in Calls /\ call[c].exp \in Nat /\ s \in Nat
  BY <1>1, CallFacts
<1>3. call' = [call EXCEPT ![c] = k]
  <2>1. call' = [call EXCEPT ![c] = [call[c] EXCEPT !.at = to, !.since = s]]
    BY <1>1 DEF Moves
  <2>2. [call[c] EXCEPT !.at = to, !.since = s] = k
    BY <1>2, CallExcept
  <2> QED BY <2>1, <2>2
<1>4. k \in Calls /\ k.at = to /\ k.since = s /\ k.exp = call[c].exp
  BY <1>2, CallRecord
<1>5. CallInv(k, now)
  BY <1>1, <1>4, ClientAssumption DEF CallInv
<1> HIDE DEF k
<1> QED BY <1>3, <1>5, OneCall

LEMMA CacheKept ==
  ASSUME ClientInv, UNCHANGED cache
  PROVE  /\ cache' \in [exp : Nat, believed : Nat] \cup {NoToken}
         /\ cache' # NoToken => cache'.believed <= cache'.exp + MaxBody
  BY DEF ClientInv, ClientTypeOK

LEMMA BeginInv ==
  ASSUME ClientInv, NEW c \in Callers, Begin(c), UNCHANGED now
  PROVE  ClientInv'
<1>1. now \in Nat /\ UNCHANGED cache
  BY DEF ClientInv, ClientTypeOK, Begin
<1>2. CASE Hit
  <2> DEFINE k == [at |-> "sent", since |-> now, exp |-> cache.exp]
  <2>1. /\ cache.exp \in Nat /\ cache.believed \in Nat /\ cache.believed <= cache.exp + MaxBody
        /\ now < cache.believed - Margin
    BY <1>2 DEF Hit, ClientInv, ClientTypeOK
  <2>2. now + Timeout < cache.exp
    BY <1>1, <2>1, ClientAssumption
  <2>3. "sent" \in Stages
    BY DEF Stages
  <2>4. k \in Calls /\ k.at = "sent" /\ k.since = now /\ k.exp = cache.exp
    BY <1>1, <2>1, <2>3, CallRecord
  <2>5. call' = [call EXCEPT ![c] = k]
    BY <1>2 DEF Begin
  <2> HIDE DEF k
  <2>6. CallInv(k, now)
    BY <1>1, <2>2, <2>4, ClientAssumption DEF CallInv
  <2> QED BY <1>1, <2>5, <2>6, OneCall, CacheKept
<1>3. CASE ~Hit
  <2> DEFINE k == [at |-> "token", since |-> now, exp |-> 0]
  <2>1. call' = [call EXCEPT ![c] = k]
    BY <1>3 DEF Begin
  <2>2. "token" \in Stages
    BY DEF Stages
  <2>3. k \in Calls /\ k.at = "token"
    BY <1>1, <2>2, CallRecord
  <2>4. CallInv(k, now)
    BY <2>3 DEF CallInv
  <2> HIDE DEF k
  <2> QED BY <1>1, <2>1, <2>4, OneCall, CacheKept
<1> QED BY <1>2, <1>3

LEMMA TokenIssuedInv ==
  ASSUME ClientInv, NEW c \in Callers, TokenIssued(c), UNCHANGED now
  PROVE  ClientInv'
<1> DEFINE k == [at |-> "tokenBody", since |-> now, exp |-> now + TTL]
<1>1. now \in Nat /\ UNCHANGED cache /\ call' = [call EXCEPT ![c] = k]
  BY DEF ClientInv, ClientTypeOK, TokenIssued
<1>2. "tokenBody" \in Stages /\ now + TTL \in Nat
  BY <1>1, ClientAssumption DEF Stages
<1>3. k \in Calls /\ k.at = "tokenBody" /\ k.since = now /\ k.exp = now + TTL
  BY <1>1, <1>2, CallRecord
<1> HIDE DEF k
<1>4. CallInv(k, now)
  BY <1>1, <1>3, ClientAssumption DEF CallInv
<1> QED BY <1>1, <1>4, OneCall, CacheKept

LEMMA TokenReadInv ==
  ASSUME ClientInv, NEW c \in Callers, TokenRead(c), UNCHANGED now
  PROVE  ClientInv'
<1>1. /\ now \in Nat /\ call[c].since \in Nat /\ call[c].exp \in Nat
      /\ call[c].exp = call[c].since + TTL /\ now <= call[c].since + MaxBody
  BY CallFacts DEF ClientInv, ClientTypeOK, TokenRead, Moves, CallInv
<1>2. now + Timeout < call[c].exp /\ now + TTL <= call[c].exp + MaxBody
  BY <1>1, ClientAssumption
<1>3. /\ cache' \in [exp : Nat, believed : Nat]
      /\ cache'.believed <= cache'.exp + MaxBody
  BY <1>1, <1>2, ClientAssumption DEF TokenRead
<1> QED BY <1>2, <1>3, MovesInv DEF TokenRead, Stages

LEMMA HeadersArriveInv ==
  ASSUME ClientInv, NEW c \in Callers, HeadersArrive(c), UNCHANGED now
  PROVE  ClientInv'
<1>1. now \in Nat /\ call[c].since \in Nat /\ call[c].exp \in Nat /\ call[c].at = "sent"
  BY CallFacts DEF ClientInv, ClientTypeOK, HeadersArrive, Moves, CallInv
<1>2. now <= call[c].since + Timeout /\ call[c].since + Timeout < call[c].exp
  BY <1>1 DEF ClientInv, CallInv
<1>3. now < call[c].exp
  BY <1>1, <1>2, ClientAssumption
<1>4. Moves(c, "sent", "body") /\ UNCHANGED cache
  BY <1>3 DEF HeadersArrive
<1> QED BY <1>4, MovesInv, CacheKept DEF Stages

LEMMA ClientStepInv ==
  ASSUME ClientInv, NEW c \in Callers, ClientStep(c), UNCHANGED now
  PROVE  ClientInv'
<1>1. CASE Begin(c)
  BY <1>1, BeginInv
<1>2. CASE Dismiss(c)
  <2>1. NoCall \in Calls /\ NoCall.at = "idle" /\ UNCHANGED cache /\ call' = [call EXCEPT ![c] = NoCall]
    BY <1>2 DEF NoCall, Calls, Stages, Dismiss
  <2>2. CallInv(NoCall, now)
    BY <2>1 DEF CallInv
  <2> QED BY <2>1, <2>2, OneCall, CacheKept
<1>3. CASE TokenIssued(c)
  BY <1>3, TokenIssuedInv
<1>4. CASE TokenRead(c)
  BY <1>4, TokenReadInv
<1>5. CASE TokenFails(c)
  <2>1. UNCHANGED cache /\ \E from \in {"token", "tokenBody"} : Moves(c, from, "failed")
    BY <1>5 DEF TokenFails
  <2> QED BY <2>1, MovesInv, CacheKept DEF Stages, Ended
<1>6. CASE HeadersArrive(c)
  BY <1>6, HeadersArriveInv
<1>7. CASE BodyRead(c)
  <2>1. call[c].at # "denied"
    BY DEF ClientInv, CallInv
  <2>2. UNCHANGED cache /\ Moves(c, "body", "ok")
    BY <1>7, <2>1 DEF BodyRead, Moves
  <2> QED BY <2>2, MovesInv, CacheKept DEF Stages, Ended
<1>8. CASE CallFails(c)
  <2>1. UNCHANGED cache /\ \E from \in {"sent", "body"} : Moves(c, from, "failed")
    BY <1>8 DEF CallFails
  <2> QED BY <2>1, MovesInv, CacheKept DEF Stages, Ended
<1>9. CASE TimesOut(c)
  <2>1. UNCHANGED cache /\ \E from \in {call[c].at}, to \in {"timeout", "failed"} : Moves(c, from, to)
    BY <1>9 DEF TimesOut
  <2> QED BY <2>1, MovesInv, CacheKept DEF Stages, Ended
<1> QED BY <1>1, <1>2, <1>3, <1>4, <1>5, <1>6, <1>7, <1>8, <1>9 DEF ClientStep

LEMMA ClientTickInv ==
  ASSUME ClientInv, ClientTick
  PROVE  ClientInv'
<1>1. now \in Nat /\ now' = now + 1 /\ UNCHANGED <<cache, call>> /\ InTime
  BY DEF ClientInv, ClientTypeOK, ClientTick
<1>2. ASSUME NEW c \in Callers PROVE CallInv(call[c], now + 1)
  <2>1. CallInv(call[c], now) /\ call[c].since \in Nat
    BY CallFacts DEF ClientInv, CallInv
  <2>2. /\ call[c].at = "sent" => now < call[c].since + Timeout
        /\ call[c].at = "tokenBody" => now < call[c].since + MaxBody
    BY <1>1 DEF InTime
  <2>3. /\ now < call[c].since + Timeout => now + 1 <= call[c].since + Timeout
        /\ now < call[c].since + MaxBody => now + 1 <= call[c].since + MaxBody
    BY <1>1, <2>1, ClientAssumption
  <2> QED BY <2>1, <2>2, <2>3 DEF CallInv
<1> QED BY <1>1, <1>2 DEF ClientInv, ClientTypeOK

LEMMA ClientInitInv == now = 0 /\ cache = NoToken /\ call = [c \in Callers |-> NoCall] => ClientInv
<1> SUFFICES ASSUME now = 0, cache = NoToken, call = [c \in Callers |-> NoCall] PROVE ClientInv
  OBVIOUS
<1>1. NoCall \in Calls /\ NoCall.at = "idle"
  BY DEF NoCall, Calls, Stages
<1>2. \A c \in Callers : CallInv(call[c], now)
  BY <1>1 DEF CallInv
<1> QED BY <1>1, <1>2 DEF ClientInv, ClientTypeOK, Calls

LEMMA ClientNextInv == ClientInv /\ [ClientNext]_clientVars => ClientInv'
<1> SUFFICES ASSUME ClientInv, [ClientNext]_clientVars PROVE ClientInv'
  OBVIOUS
<1>1. CASE UNCHANGED clientVars
  BY <1>1 DEF clientVars, ClientInv, ClientTypeOK
<1>2. CASE ClientNext
  BY <1>2, ClientStepInv, ClientTickInv DEF ClientNext
<1> QED BY <1>1, <1>2

(* Every token that is sent outlives the timer of its call, whichever call *)
(* has put it into the cache.                                              *)
THEOREM TokensAreLive == ClientSpec => []TokenIsLive
<1>1. ClientInv => TokenIsLive
  <2> SUFFICES ASSUME ClientInv, NEW c \in Callers, call[c].at = "sent" PROVE now < call[c].exp
    BY DEF TokenIsLive
  <2>1. /\ now \in Nat /\ call[c].since \in Nat /\ call[c].exp \in Nat
        /\ now <= call[c].since + Timeout /\ call[c].since + Timeout < call[c].exp
    BY CallFacts DEF ClientInv, ClientTypeOK, CallInv
  <2> QED BY <2>1, ClientAssumption
<1>2. InitClient => ClientInv
  BY ClientInitInv DEF InitClient
<1> QED BY <1>1, <1>2, ClientNextInv, PTL DEF ClientSpec

-----------------------------------------------------------------------------
(* The API is made of the two.                                             *)

LEMMA StepOfBoth ==
  ASSUME NEW r \in Requests, Send(r) \/ ServerStep(r)
  PROVE  [LimiterNext]_limiterVars /\ [ClientNext]_clientVars
<1> USE ApiAssumption
<1> DEFINE Quiet == UNCHANGED <<cache, call>> \/ ClientStep(r)
<1>1. ASSUME Handle(r) PROVE Quiet
  BY <1>1 DEF Handle, ClientStep
<1>2. CASE Send(r)
  <2>1. UNCHANGED now
    BY <1>2 DEF Send
  <2>2. CASE ParseFails(r)
    BY <2>1, <2>2 DEF ParseFails, limiterVars, clientVars
  <2>3. CASE Passes(r)
    <3>1. Limit(KeyOf(r)) /\ KeyOf(r) \in Keys
      BY <2>3 DEF Passes
    <3>2. Quiet
      BY <1>1, <2>3 DEF Passes
    <3>3. LimiterNext
      BY <2>1, <3>1 DEF LimiterNext, LimiterStep
    <3>4. [ClientNext]_clientVars
      BY <2>1, <3>2 DEF ClientNext, clientVars
    <3> QED BY <3>3, <3>4
  <2> QED BY <1>2, <2>2, <2>3 DEF Send
<1>3. CASE ServerStep(r)
  <2>1. UNCHANGED <<now, buckets, log>>
    BY <1>3 DEF ServerStep, Verified, VerifyFails, VerifyTimesOut, CallMoves, Returns, BackendReturns
  <2>2. ASSUME Verified(r) PROVE Quiet
    BY <1>1, <2>2 DEF Verified
  <2>3. ASSUME VerifyFails(r) \/ VerifyTimesOut(r) \/ BackendReturns(r) PROVE Quiet
    BY <2>3 DEF VerifyFails, VerifyTimesOut, BackendReturns
  <2>4. ASSUME CallMoves(r) PROVE Quiet
    BY <2>4 DEF CallMoves
  <2>5. ASSUME Returns(r) PROVE Quiet
    BY <2>5 DEF Returns, ClientStep
  <2>6. Quiet
    BY <1>3, <2>2, <2>3, <2>4, <2>5 DEF ServerStep
  <2> QED BY <2>1, <2>6 DEF limiterVars, clientVars, ClientNext
<1> QED BY <1>2, <1>3

LEMMA NextOfBoth == [Next]_vars => [LimiterNext]_limiterVars /\ [ClientNext]_clientVars
<1> SUFFICES ASSUME [Next]_vars PROVE [LimiterNext]_limiterVars /\ [ClientNext]_clientVars
  OBVIOUS
<1>1. CASE Tick
  BY <1>1 DEF Tick, LimiterNext, TimePasses, ClientNext, ClientTick
<1>2. CASE UNCHANGED vars
  BY <1>2 DEF vars, limiterVars, clientVars
<1> QED BY <1>1, <1>2, StepOfBoth DEF Next

(* The API implements the limiter: nothing else writes its buckets, and    *)
(* what the requests do besides is invisible to it.                        *)
THEOREM ApiImplementsLimiter == Spec => LimiterSpec
<1>1. Init => InitLimiter
  BY DEF Init
<1> QED BY <1>1, NextOfBoth, PTL DEF Spec, LimiterSpec

(* The API implements the client of the Management API: all requests share *)
(* one cache of one token, and each has one call at a time.                *)
THEOREM ApiImplementsClient == Spec => ClientSpec
<1>1. Init => InitClient
  BY DEF Init, InitLimiter, InitClient
<1> QED BY <1>1, NextOfBoth, PTL DEF Spec, ClientSpec

(* The API limits what it admits.                                          *)
THEOREM ApiLimits == Spec => []LimitHolds
  BY ApiImplementsLimiter, LimiterInvariant, LimiterInvHolds, PTL

LEMMA ApiClientInv == Spec => []ClientInv
<1>1. InitClient => ClientInv
  BY ClientInitInv DEF InitClient
<1>2. ClientSpec => []ClientInv
  BY <1>1, ClientNextInv, PTL DEF ClientSpec
<1> QED BY <1>2, ApiImplementsClient, PTL

(* An accepted caller is never told that he is unauthorized.               *)
THEOREM ApiAuthorizesTheVerified == Spec => []VerifiedIsNotUnauthorized
<1>1. ClientInv /\ TokenIsLive => VerifiedIsNotUnauthorized
  BY ApiAssumption DEF VerifiedIsNotUnauthorized, ClientInv, CallInv
<1> QED BY <1>1, ApiClientInv, ApiImplementsClient, TokensAreLive, PTL

-----------------------------------------------------------------------------
(* What the dashboard offers.                                              *)

(* Only an owner's dashboard has asked for the organizations.              *)
OfferInv ==
  /\ DOMAIN req = Requests
  /\ \A t \in Tabs :
       LET r == <<t, "organizations">>
       IN req[r].status # 403 /\ (req[r].at # "unsent" => Owner \in Session[t].globalRoles)

(* A request that has been sent by an owner, and is answered with anything *)
(* but a refusal.                                                          *)
LEMMA OfferStep ==
  ASSUME OfferInv, NEW r \in Requests, NEW k, req' = [req EXCEPT ![r] = k],
         ASSUME NEW t \in Tabs, r = <<t, "organizations">>
         PROVE  k.status # 403 /\ Owner \in Session[t].globalRoles
  PROVE  OfferInv'
<1>1. DOMAIN req' = Requests /\ req'[r] = k /\ \A s \in Requests \ {r} : req'[s] = req[s]
  BY DEF OfferInv
<1>2. ASSUME NEW t \in Tabs
      PROVE  /\ req'[<<t, "organizations">>].status # 403
             /\ req'[<<t, "organizations">>].at # "unsent" => Owner \in Session[t].globalRoles
  <2> DEFINE s == <<t, "organizations">>
  <2>1. s \in Requests
    BY DEF Requests
  <2>2. CASE s = r
    BY <1>1, <2>2
  <2>3. CASE s # r
    BY <1>1, <2>1, <2>3 DEF OfferInv
  <2> QED BY <2>2, <2>3
<1> QED BY <1>1, <1>2 DEF OfferInv

LEMMA OrganizationsGuard ==
  ASSUME NEW t \in Tabs, NEW r, r = <<t, "organizations">>
  PROVE  /\ r[1] = t /\ r[2] = "organizations" /\ RouteOf(r).guard = "owner"
         /\ Sent(r).bearer = Session[t]
  BY DEF RouteOf, Routes, Sent, Route

(* Requests are only ever answered, or go on to their next stage.          *)
LEMMA Moved ==
  ASSUME NEW r \in Requests, Send(r) \/ ServerStep(r)
  PROVE  \/ UNCHANGED req
         \/ \E k : /\ req' = [req EXCEPT ![r] = k]
                   /\ k.status = 403 => Verified(r) /\ Forbidden(RouteOf(r).guard, RouteOf(r).scopes, Sent(r).bearer)
<1> DEFINE Becomes(status) == \E k : req' = [req EXCEPT ![r] = k] /\ k.status = status
           Harmless == \E status \in {0, 200, 400, 401, 429, 500, 503, 504} : Becomes(status)
<1>a. ASSUME NEW status, AnswerWith(r, status) PROVE Becomes(status)
  <2> DEFINE k == [at |-> "answered", since |-> 0, status |-> status, left |-> 0]
  <2>1. req' = [req EXCEPT ![r] = k] /\ k.status = status
    BY <1>a DEF AnswerWith
  <2> HIDE DEF k
  <2> QED BY <2>1
<1>g. ASSUME NEW stage, NEW left, Goes(r, stage, left) PROVE Becomes(0)
  <2> DEFINE k == [at |-> stage, since |-> IF stage = "verifying" THEN now ELSE 0,
                   status |-> 0, left |-> left]
  <2>1. req' = [req EXCEPT ![r] = k] /\ k.status = 0
    BY <1>g DEF Goes
  <2> HIDE DEF k
  <2> QED BY <2>1
<1> HIDE DEF Becomes
<1>h. Harmless => \E k : req' = [req EXCEPT ![r] = k] /\ k.status # 403
  <2> SUFFICES ASSUME NEW status \in {0, 200, 400, 401, 429, 500, 503, 504}, Becomes(status)
               PROVE  \E k : req' = [req EXCEPT ![r] = k] /\ k.status # 403
    OBVIOUS
  <2>0. \E k : req' = [req EXCEPT ![r] = k] /\ k.status = status
    BY ZenonT(60) DEF Becomes
  <2>1. PICK k : req' = [req EXCEPT ![r] = k] /\ k.status = status
    BY <2>0, ZenonT(60)
  <2>2. k.status # 403
    BY <2>1
  <2> DEFINE Fits(h) == req' = [req EXCEPT ![r] = h] /\ h.status # 403
  <2>3. Fits(k)
    BY <2>1, <2>2
  <2>4. (\E h : Fits(h)) => \E h : req' = [req EXCEPT ![r] = h] /\ h.status # 403
    BY ZenonT(30)
  <2> HIDE DEF Fits
  <2>5. \E h : Fits(h)
    BY <2>3
  <2> QED BY <2>4, <2>5
<1>c. ASSUME Complete(r) PROVE Harmless
  BY <1>a, <1>c, <1>g DEF Complete
<1>1. ASSUME Handle(r) PROVE Harmless
  BY <1>1, <1>c, <1>g DEF Handle
<1>2. CASE Send(r)
  <2>1. ASSUME ParseFails(r) PROVE Harmless
    BY <2>1, <1>a DEF ParseFails
  <2>2. ASSUME Passes(r) PROVE Harmless
    BY <1>1, <1>a, <1>g, <2>2 DEF Passes
  <2> QED BY <1>2, <1>h, <2>1, <2>2 DEF Send
<1>3. CASE Verified(r)
  <2>1. CASE Forbidden(RouteOf(r).guard, RouteOf(r).scopes, Sent(r).bearer)
    BY <1>3, <2>1 DEF Verified, AnswerWith
  <2>2. CASE ~Forbidden(RouteOf(r).guard, RouteOf(r).scopes, Sent(r).bearer)
    BY <1>1, <1>3, <1>h, <2>2 DEF Verified
  <2> QED BY <2>1, <2>2
<1>4. CASE VerifyFails(r) \/ VerifyTimesOut(r) \/ BackendReturns(r)
  <2>1. Harmless
    BY <1>4, <1>a DEF VerifyFails, VerifyTimesOut, BackendReturns
  <2> QED BY <2>1, <1>h
<1>5. CASE CallMoves(r)
  BY <1>5 DEF CallMoves
<1>6. CASE Returns(r)
  <2>1. call[r].at # "ok" => Failure[call[r].at] \in {401, 500, 504}
    BY <1>6 DEF Returns, Failure, Ended
  <2>2. Harmless
    BY <1>6, <1>a, <1>c, <1>g, <2>1 DEF Returns
  <2> QED BY <2>2, <1>h
<1> QED BY <1>2, <1>3, <1>4, <1>5, <1>6 DEF ServerStep

LEMMA OfferNext == OfferInv /\ [Next]_vars => OfferInv'
<1> SUFFICES ASSUME OfferInv, [Next]_vars PROVE OfferInv'
  OBVIOUS
<1>1. CASE UNCHANGED req
  BY <1>1 DEF OfferInv
<1>2. ASSUME NEW r \in Requests, Send(r) \/ ServerStep(r), ~UNCHANGED req PROVE OfferInv'
  <2>1. PICK k : /\ req' = [req EXCEPT ![r] = k]
                 /\ k.status = 403 => Verified(r) /\ Forbidden(RouteOf(r).guard, RouteOf(r).scopes, Sent(r).bearer)
    BY <1>2, Moved
  <2>2. ASSUME NEW t \in Tabs, r = <<t, "organizations">>
        PROVE  k.status # 403 /\ Owner \in Session[t].globalRoles
    <3>1. r[1] = t /\ r[2] = "organizations" /\ RouteOf(r).guard = "owner" /\ Sent(r).bearer = Session[t]
      BY <2>2, OrganizationsGuard
    <3>2. Owner \in Session[t].globalRoles
      <4>1. CASE Send(r)
        BY <3>1, <4>1 DEF Send, Wants, CanCreateOrganizations, EvaluateCapabilityRule, Rule, Me
      <4>2. CASE ServerStep(r)
        <5>1. req[r].at # "unsent"
          BY <4>2 DEF ServerStep, Verified, VerifyFails, VerifyTimesOut, CallMoves, Returns, BackendReturns
        <5> QED BY <2>2, <5>1 DEF OfferInv
      <4> QED BY <1>2, <4>1, <4>2
    <3>3. ~Forbidden(RouteOf(r).guard, RouteOf(r).scopes, Sent(r).bearer)
      BY <3>1, <3>2 DEF Forbidden, RequireOwner
    <3>4. k.status # 403
      BY <2>1, <3>3
    <3> QED BY <3>2, <3>4
  <2>3. req' = [req EXCEPT ![r] = k]
    BY <2>1
  <2> QED BY <2>2, <2>3, OfferStep, ZenonT(60)
<1>3. CASE Tick
  BY <1>1, <1>3 DEF Tick
<1> QED BY <1>1, <1>2, <1>3 DEF Next, vars

(* The API never forbids what the dashboard asks for on its own: the       *)
(* frontend's rule implies requireOwner's.                                 *)
THEOREM DashboardIsNeverForbidden == Spec => []OfferedIsAllowed
<1>1. Init => OfferInv
  <2> SUFFICES ASSUME Init PROVE OfferInv
    OBVIOUS
  <2>1. \A t \in Tabs : <<t, "organizations">> \in Requests
    BY DEF Requests
  <2> QED BY <2>1 DEF Init, OfferInv
<1>2. OfferInv => OfferedIsAllowed
  <2> SUFFICES ASSUME OfferInv, NEW t \in Tabs PROVE req[<<t, "organizations">>].status # 403
    BY DEF OfferedIsAllowed
  <2> QED BY DEF OfferInv
<1> QED BY <1>1, <1>2, OfferNext, PTL DEF Spec

-----------------------------------------------------------------------------
(***************************************************************************)
(* The way of a request.  What follows is about its steps: what answers it *)
(* may get from where, that it never goes back, and that what came past    *)
(* the limiter is in the limiter's history.                                *)
(***************************************************************************)
Guard(r) == RouteOf(r).guard

Authorized(r) ==
  /\ Verifies(Guard(r), Sent(r).bearer)
  /\ ~Forbidden(Guard(r), RouteOf(r).scopes, Sent(r).bearer)

(* The statuses a request may be answered with at its stage.               *)
MayGet(r, status) ==
  \/ req[r].at = "unsent" /\ status \in {400, 401, 429}
  \/ req[r].at = "unsent" /\ Guard(r) = "none" /\ status = 200
  \/ req[r].at = "verifying" /\ status \in {401, 504}
  \/ req[r].at = "verifying" /\ Verifies(Guard(r), Sent(r).bearer) /\ ~Authorized(r) /\ status = 403
  \/ req[r].at = "verifying" /\ Authorized(r) /\ status = 200
  \/ req[r].at = "calling" /\ status \in {200, 401, 500, 504}
  \/ req[r].at = "backend" /\ status \in {200, 500}
  \/ req[r].at = "backend" /\ Guard(r) = "none" /\ status = 503

IsAnswered(r) ==
  \E status \in {200, 400, 401, 403, 429, 500, 503, 504} :
    /\ MayGet(r, status) /\ AnswerWith(r, status)
    /\ IF req[r].at = "calling" THEN Dismiss(r) ELSE UNCHANGED call

IsVerified(r) ==
  /\ req[r].at = "unsent" /\ Guard(r) # "none" /\ ~RefusedAtOnce(Guard(r), Sent(r).bearer)
  /\ Goes(r, "verifying", 0) /\ UNCHANGED call

AwaitsBackend(r) ==
  /\ Goes(r, "backend", 0)
  /\ \/ req[r].at = "unsent" /\ Guard(r) = "none" /\ UNCHANGED call
     \/ req[r].at = "verifying" /\ Authorized(r) /\ UNCHANGED call
     \/ req[r].at = "calling" /\ call[r].at \in Ended /\ Dismiss(r)

BeginsCall(r) ==
  /\ Begin(r)
  /\ \E left \in 1..2 :
       /\ Goes(r, "calling", left)
       /\ \/ req[r].at = "unsent" /\ Guard(r) = "none"
          \/ req[r].at = "verifying" /\ Authorized(r)
          \/ req[r].at = "calling" /\ call[r].at \in Ended /\ left = req[r].left - 1

CallGoesOn(r) ==
  /\ req[r].at = "calling" /\ call[r].at \notin Ended
  /\ ClientStep(r) /\ UNCHANGED req

LEMMA RouteFacts ==
  ASSUME NEW r \in Requests
  PROVE  /\ RouteOf(r).calls \in 0..2
         /\ Sent(r).route = "health" => Guard(r) = "none"
<1>1. Sent(r).route \in DOMAIN Routes
  BY ApiAssumption DEF Sent, Requests, Routes
<1> DEFINE x == Sent(r).route
<1>2. x \in {"health", "root", "me", "ownerMe", "organizations", "template", "operationalState",
             "workerQueues", "registry", "operations", "documents", "createDocument"}
  BY <1>1 DEF Routes
<1> HIDE DEF x
<1>3. Routes[x].calls \in 0..2
  BY <1>2 DEF Routes, Route, WithBackend
<1>4. x = "health" => Routes[x].guard = "none"
  BY DEF Routes, Route, WithBackend
<1> QED BY <1>3, <1>4 DEF RouteOf, Guard, x

(* The handler answers, awaits the backend or makes its first call.        *)
LEMMA HandleGoes ==
  ASSUME NEW r \in Requests, Handle(r),
         \/ req[r].at = "unsent" /\ Guard(r) = "none"
         \/ req[r].at = "verifying" /\ Guard(r) # "none" /\ Authorized(r)
  PROVE  IsAnswered(r) \/ AwaitsBackend(r) \/ BeginsCall(r)
<1>1. CASE RouteOf(r).calls = 0
  <2>1. CASE RouteOf(r).backend
    BY <1>1, <2>1 DEF Handle, Complete, AwaitsBackend
  <2>2. CASE ~RouteOf(r).backend
    <3>1. AnswerWith(r, 200) /\ MayGet(r, 200) /\ UNCHANGED call /\ req[r].at # "calling"
      BY <1>1, <2>2 DEF Handle, Complete, MayGet
    <3> QED BY <3>1 DEF IsAnswered
  <2> QED BY <2>1, <2>2
<1>2. CASE RouteOf(r).calls # 0
  BY <1>2, RouteFacts DEF Handle, BeginsCall
<1> QED BY <1>1, <1>2

(* The five ways a request moves.                                          *)
LEMMA RequestMoves ==
  ASSUME NEW r \in Requests, Send(r) \/ ServerStep(r),
         req[r].at = "verifying" => Guard(r) # "none",
         req[r].at = "calling" => req[r].left \in 1..2
  PROVE  IsAnswered(r) \/ IsVerified(r) \/ AwaitsBackend(r) \/ BeginsCall(r) \/ CallGoesOn(r)
<1>1. CASE Send(r)
  <2>1. CASE ParseFails(r)
    BY <1>1, <2>1 DEF Send, ParseFails, IsAnswered, MayGet
  <2>2. CASE Passes(r)
    <3>1. CASE ~Admits(KeyOf(r)) \/ RefusedAtOnce(Guard(r), Sent(r).bearer)
      BY <1>1, <2>2, <3>1 DEF Send, Passes, IsAnswered, MayGet, Guard
    <3>2. CASE Admits(KeyOf(r)) /\ ~RefusedAtOnce(Guard(r), Sent(r).bearer) /\ Guard(r) = "none"
      BY <1>1, <2>2, <3>2, HandleGoes DEF Send, Passes, Guard
    <3>3. CASE Admits(KeyOf(r)) /\ ~RefusedAtOnce(Guard(r), Sent(r).bearer) /\ Guard(r) # "none"
      BY <1>1, <2>2, <3>3 DEF Send, Passes, IsVerified, Guard
    <3> QED BY <3>1, <3>2, <3>3
  <2> QED BY <1>1, <2>1, <2>2 DEF Send
<1>2. CASE Verified(r)
  <2>1. CASE Forbidden(Guard(r), RouteOf(r).scopes, Sent(r).bearer)
    BY <1>2, <2>1 DEF Verified, Authorized, IsAnswered, MayGet, Guard
  <2>2. CASE ~Forbidden(Guard(r), RouteOf(r).scopes, Sent(r).bearer)
    BY <1>2, <2>2, HandleGoes DEF Verified, Authorized, Guard
  <2> QED BY <2>1, <2>2
<1>3. CASE VerifyFails(r) \/ VerifyTimesOut(r)
  BY <1>3 DEF VerifyFails, VerifyTimesOut, IsAnswered, MayGet
<1>4. CASE CallMoves(r)
  BY <1>4 DEF CallMoves, CallGoesOn
<1>5. CASE Returns(r)
  <2>1. CASE call[r].at # "ok" /\ Sent(r).route # "workerQueues"
    <3>1. Failure[call[r].at] \in {401, 500, 504}
      BY <1>5, <2>1 DEF Returns, Ended, Failure
    <3> QED BY <1>5, <2>1, <3>1 DEF Returns, IsAnswered, MayGet
  <2>2. CASE ~(call[r].at # "ok" /\ Sent(r).route # "workerQueues") /\ req[r].left > 1
    <3>1. req[r].left - 1 \in 1..2
      BY <1>5, <2>2 DEF Returns
    <3> QED BY <1>5, <2>2, <3>1 DEF Returns, BeginsCall
  <2>3. CASE ~(call[r].at # "ok" /\ Sent(r).route # "workerQueues") /\ ~(req[r].left > 1)
    <3>1. Complete(r) /\ Dismiss(r) /\ req[r].at = "calling" /\ call[r].at \in Ended
      BY <1>5, <2>3 DEF Returns
    <3>2. CASE RouteOf(r).backend
      BY <3>1, <3>2 DEF Complete, AwaitsBackend
    <3>3. CASE ~RouteOf(r).backend
      BY <3>1, <3>3 DEF Complete, IsAnswered, MayGet
    <3> QED BY <3>2, <3>3
  <2> QED BY <2>1, <2>2, <2>3
<1>6. CASE BackendReturns(r)
  <2>1. PICK status \in {200, 500, 503} :
          AnswerWith(r, status) /\ (status = 503 => Guard(r) = "none")
    BY <1>6, RouteFacts DEF BackendReturns
  <2>2. req[r].at = "backend" /\ UNCHANGED call
    BY <1>6 DEF BackendReturns
  <2>3. status \in {200, 500} \/ (Guard(r) = "none" /\ status = 503)
    BY <2>1
  <2>4. MayGet(r, status)
    BY <2>2, <2>3 DEF MayGet
  <2> QED BY <2>1, <2>2, <2>4 DEF IsAnswered
<1> QED BY <1>1, <1>2, <1>3, <1>4, <1>5, <1>6 DEF ServerStep

-----------------------------------------------------------------------------
(* What is true of a request at its stage k while its call is at c.  It has *)
(* a call of the Management API exactly while its handler waits for one.    *)
Fits(r, k, c) ==
  /\ k.at \in {"unsent", "verifying", "calling", "backend", "answered"}
  /\ k.at = "calling" => k.left \in 1..2 /\ c # "idle"
  /\ k.at # "calling" => c = "idle"
  /\ k.at # "answered" => k.status = 0
  /\ k.at = "answered" => k.status \in {200, 400, 401, 403, 429, 500, 503, 504}
  /\ k.at = "verifying" => Guard(r) # "none"
  /\ Guard(r) # "none" =>
       /\ k.at \in {"verifying", "calling", "backend"} \/ k.status \in {200, 403, 500, 504}
            => ~RefusedAtOnce(Guard(r), Sent(r).bearer)
       /\ k.at \in {"calling", "backend"} \/ k.status \in {200, 500} => Authorized(r)
       /\ k.status = 403 => Verifies(Guard(r), Sent(r).bearer) /\ ~Authorized(r)
       /\ k.status # 503

RequestInv ==
  /\ DOMAIN req = Requests
  /\ \A r \in Requests : Fits(r, req[r], call[r].at)

(* How far the present call is: the longest takes a fresh token.           *)
CallRank(at) ==
  IF at = "token" THEN 5 ELSE IF at = "tokenBody" THEN 4 ELSE IF at = "sent" THEN 3
  ELSE IF at \in {"body", "denied"} THEN 2 ELSE 1

Rank(k, c) ==
  IF k.at = "unsent" THEN 14 ELSE IF k.at = "verifying" THEN 13
  ELSE IF k.at = "calling" THEN 6 * (k.left - 1) + CallRank(c) + 1
  ELSE IF k.at = "backend" THEN 1 ELSE 0

Remaining(r) == Rank(req[r], call[r].at)

(* One request moves, and nothing else.                                    *)
Advances(r) ==
  /\ DOMAIN req' = Requests
  /\ \A q \in Requests \ {r} : req'[q] = req[q] /\ call'[q] = call[q]
  /\ Fits(r, req'[r], call'[r].at)
  /\ Remaining(r)' \in 0 .. Remaining(r) - 1

LEMMA RemainingCounts ==
  ASSUME NEW r, NEW k, NEW c, Fits(r, k, c)
  PROVE  Rank(k, c) \in 0..14 /\ (k.at \notin {"answered"} => Rank(k, c) > 0)
<1>1. CallRank(c) \in 1..5
  BY DEF CallRank
<1> HIDE DEF CallRank
<1>2. CASE k.at = "calling"
  BY <1>1, <1>2 DEF Fits, Rank
<1>3. CASE k.at # "calling"
  BY <1>3 DEF Fits, Rank
<1> QED BY <1>2, <1>3

(* The client's steps while a call is under way: each takes it further.    *)
LEMMA CallAdvances ==
  ASSUME ClientInv, NEW r \in Callers, ClientStep(r), call[r].at \notin Ended \cup {"idle"}
  PROVE  /\ \A q \in Callers \ {r} : call'[q] = call[q]
         /\ call'[r].at # "idle"
         /\ CallRank(call'[r].at) < CallRank(call[r].at)
<1>1. call \in [Callers -> Calls]
  BY DEF ClientInv, ClientTypeOK, Calls
<1>2. ASSUME NEW from, NEW to, Moves(r, from, to)
      PROVE  /\ call[r].at = from /\ call'[r].at = to
             /\ \A q \in Callers \ {r} : call'[q] = call[q]
  <2> DEFINE s == IF to = "sent" THEN now ELSE 0
             k == [at |-> to, since |-> s, exp |-> call[r].exp]
  <2>1. call' = [call EXCEPT ![r] = [call[r] EXCEPT !.at = to, !.since = s]]
    BY <1>1, <1>2 DEF Moves
  <2>2. [call[r] EXCEPT !.at = to, !.since = s] = k
    BY <1>1, CallExcept
  <2>3. call' = [call EXCEPT ![r] = k] /\ k.at = to
    BY <2>1, <2>2
  <2> HIDE DEF k
  <2> QED BY <1>1, <1>2, <2>3 DEF Moves
<1>3. CASE Begin(r) \/ Dismiss(r)
  BY <1>3 DEF Begin, Dismiss
<1>4. CASE TokenIssued(r)
  <2> DEFINE k == [at |-> "tokenBody", since |-> now, exp |-> now + TTL]
  <2>1. call[r].at = "token" /\ call' = [call EXCEPT ![r] = k] /\ k.at = "tokenBody"
    BY <1>4 DEF TokenIssued
  <2> HIDE DEF k
  <2>2. call'[r].at = "tokenBody" /\ \A q \in Callers \ {r} : call'[q] = call[q]
    BY <1>1, <2>1
  <2> QED BY <2>1, <2>2 DEF CallRank
<1>5. CASE TokenRead(r)
  BY <1>2, <1>5 DEF TokenRead, CallRank
<1>6. CASE TokenFails(r)
  BY <1>2, <1>6 DEF TokenFails, CallRank
<1>7. CASE HeadersArrive(r)
  BY <1>2, <1>7 DEF HeadersArrive, CallRank
<1>8. CASE BodyRead(r)
  BY <1>2, <1>8 DEF BodyRead, CallRank
<1>9. CASE CallFails(r)
  BY <1>2, <1>9 DEF CallFails, CallRank
<1>10. CASE TimesOut(r)
  <2>1. call[r].at \in {"token", "sent"} /\ \E to \in {"timeout", "failed"} : Moves(r, call[r].at, to)
    BY <1>10 DEF TimesOut
  <2> QED BY <1>2, <2>1 DEF CallRank
<1> QED BY <1>3, <1>4, <1>5, <1>6, <1>7, <1>8, <1>9, <1>10 DEF ClientStep

LEMMA RequestAdvances ==
  ASSUME ClientInv, RequestInv, NEW r \in Requests, Send(r) \/ ServerStep(r)
  PROVE  Advances(r)
<1> USE ApiAssumption
<1>1. /\ Fits(r, req[r], call[r].at) /\ DOMAIN req = Requests
      /\ call \in [Callers -> Calls] /\ Remaining(r) \in 0..14
      /\ req[r].at # "answered" => Remaining(r) > 0
  BY RemainingCounts DEF RequestInv, ClientInv, ClientTypeOK, Calls, Remaining
<1>2. IsAnswered(r) \/ IsVerified(r) \/ AwaitsBackend(r) \/ BeginsCall(r) \/ CallGoesOn(r)
  BY <1>1, RequestMoves DEF Fits
<1>3. ASSUME NEW k, req' = [req EXCEPT ![r] = k]
      PROVE  /\ DOMAIN req' = Requests /\ req'[r] = k
             /\ \A q \in Requests \ {r} : req'[q] = req[q]
  BY <1>1, <1>3
<1>4. ASSUME NEW c, call' = [call EXCEPT ![r] = c]
      PROVE  call'[r] = c /\ \A q \in Requests \ {r} : call'[q] = call[q]
  BY <1>1, <1>4
<1>5. CASE IsAnswered(r)
  <2>1. PICK status \in {200, 400, 401, 403, 429, 500, 503, 504} :
          /\ MayGet(r, status) /\ AnswerWith(r, status)
          /\ IF req[r].at = "calling" THEN Dismiss(r) ELSE UNCHANGED call
    BY <1>5 DEF IsAnswered
  <2> DEFINE k == [at |-> "answered", since |-> 0, status |-> status, left |-> 0]
  <2>2. req' = [req EXCEPT ![r] = k] /\ k.at = "answered" /\ k.status = status
    BY <2>1 DEF AnswerWith
  <2> HIDE DEF k
  <2>3. call'[r].at = "idle" /\ \A q \in Requests \ {r} : call'[q] = call[q]
    <3>1. CASE req[r].at = "calling"
      <4>1. call' = [call EXCEPT ![r] = NoCall] /\ NoCall.at = "idle"
        BY <2>1, <3>1 DEF Dismiss, NoCall
      <4>2. call'[r] = NoCall /\ \A q \in Requests \ {r} : call'[q] = call[q]
        BY <1>1, <4>1
      <4> QED BY <4>1, <4>2
    <3>2. CASE req[r].at # "calling"
      BY <1>1, <2>1, <3>2 DEF Fits
    <3> QED BY <3>1, <3>2
  <2>4. Fits(r, k, "idle")
    <3>1. req[r].at \in {"unsent", "verifying", "calling", "backend"}
      BY <2>1 DEF MayGet
    <3>2. Guard(r) # "none" => /\ status \in {200, 403, 500, 504} => ~RefusedAtOnce(Guard(r), Sent(r).bearer)
                               /\ status \in {200, 500} => Authorized(r)
                               /\ status = 403 => Verifies(Guard(r), Sent(r).bearer) /\ ~Authorized(r)
                               /\ status # 503
      BY <1>1, <2>1, <3>1 DEF Fits, MayGet
    <3> QED BY <2>1, <2>2, <3>2 DEF Fits
  <2>5. Rank(k, "idle") = 0 /\ Remaining(r) > 0
    BY <1>1, <2>1, <2>2 DEF Rank, MayGet
  <2>6. Remaining(r)' = 0
    <3>1. req'[r] = k
      BY <1>1, <2>2
    <3>2. call'[r].at = "idle"
      BY <2>3
    <3> QED BY <2>5, <3>1, <3>2 DEF Remaining
  <2> QED BY <1>1, <1>3, <2>2, <2>3, <2>4, <2>5, <2>6 DEF Advances
<1>6. CASE IsVerified(r)
  <2> DEFINE k == [at |-> "verifying", since |-> now, status |-> 0, left |-> 0]
  <2>1. req' = [req EXCEPT ![r] = k] /\ k.at = "verifying" /\ k.status = 0
    BY <1>6 DEF IsVerified, Goes
  <2> HIDE DEF k
  <2>2. call' = call /\ call[r].at = "idle" /\ Remaining(r) = 14
    BY <1>1, <1>6 DEF IsVerified, Fits, Remaining, Rank
  <2>3. Fits(r, k, "idle") /\ Rank(k, "idle") = 13
    BY <1>6, <2>1 DEF Fits, IsVerified, Rank
  <2>4. Remaining(r)' = 13
    BY <1>3, <2>1, <2>2, <2>3 DEF Remaining
  <2>5. req'[r] = k /\ call'[r].at = "idle"
    BY <1>3, <2>1, <2>2
  <2>6. Fits(r, req'[r], call'[r].at)
    BY <2>3, <2>5
  <2>7. DOMAIN req' = Requests /\ \A q \in Requests \ {r} : req'[q] = req[q] /\ call'[q] = call[q]
    BY <1>3, <2>1, <2>2
  <2> QED BY <2>2, <2>4, <2>6, <2>7 DEF Advances
<1>7. CASE BeginsCall(r)
  <2>1. PICK left \in 1..2 :
          /\ Goes(r, "calling", left)
          /\ \/ req[r].at = "unsent" /\ Guard(r) = "none"
             \/ req[r].at = "verifying" /\ Authorized(r)
             \/ req[r].at = "calling" /\ call[r].at \in Ended /\ left = req[r].left - 1
    BY <1>7 DEF BeginsCall
  <2> DEFINE k == [at |-> "calling", since |-> 0, status |-> 0, left |-> left]
  <2>2. req' = [req EXCEPT ![r] = k] /\ k.at = "calling" /\ k.status = 0 /\ k.left = left
    BY <2>1 DEF Goes
  <2> HIDE DEF k
  <2>3. PICK c : call' = [call EXCEPT ![r] = c] /\ c.at \in {"token", "sent"}
    <3>1. CASE Hit
      <4> DEFINE c == [at |-> "sent", since |-> now, exp |-> cache.exp]
      <4>1. call' = [call EXCEPT ![r] = c] /\ c.at = "sent"
        BY <1>7, <3>1 DEF BeginsCall, Begin
      <4> HIDE DEF c
      <4> QED BY <4>1
    <3>2. CASE ~Hit
      <4> DEFINE c == [at |-> "token", since |-> now, exp |-> 0]
      <4>1. call' = [call EXCEPT ![r] = c] /\ c.at = "token"
        BY <1>7, <3>2 DEF BeginsCall, Begin
      <4> HIDE DEF c
      <4> QED BY <4>1
    <3> QED BY <3>1, <3>2
  <2>4. Fits(r, k, c.at)
    BY <1>1, <2>1, <2>2, <2>3 DEF Fits, Authorized
  <2>5. Rank(k, c.at) \in 0 .. Remaining(r) - 1
    <3>1. Rank(k, c.at) = 6 * (left - 1) + CallRank(c.at) + 1 /\ CallRank(c.at) \in {3, 5}
      BY <2>2, <2>3 DEF Rank, CallRank
    <3>2. req[r].at \in {"unsent", "verifying"} => Remaining(r) >= 13
      BY DEF Remaining, Rank
    <3>3. CASE req[r].at = "calling"
      <4>1. CallRank(call[r].at) = 1 /\ left = req[r].left - 1 /\ req[r].left \in 1..2
        BY <1>1, <2>1, <3>3 DEF Fits, Ended, CallRank
      <4>2. Remaining(r) = 6 * (req[r].left - 1) + CallRank(call[r].at) + 1
        BY <3>3 DEF Remaining, Rank
      <4>3. left = 1 /\ req[r].left = 2
        BY <4>1
      <4>4. Rank(k, c.at) \in {4, 6} /\ Remaining(r) = 8
        BY <3>1, <4>1, <4>2, <4>3
      <4> QED BY <4>4
    <3>4. CASE req[r].at # "calling"
      BY <1>1, <2>1, <3>1, <3>2, <3>4
    <3> QED BY <3>3, <3>4
  <2>6. Remaining(r)' = Rank(k, c.at)
    BY <1>3, <1>4, <2>2, <2>3 DEF Remaining
  <2> QED BY <1>3, <1>4, <2>2, <2>3, <2>4, <2>5, <2>6 DEF Advances
<1>8. CASE CallGoesOn(r)
  <2>1. req' = req /\ req[r].at = "calling" /\ call[r].at \notin Ended \cup {"idle"} /\ ClientStep(r)
    BY <1>1, <1>8 DEF CallGoesOn, Fits
  <2>2. /\ \A q \in Requests \ {r} : call'[q] = call[q]
        /\ call'[r].at # "idle" /\ CallRank(call'[r].at) < CallRank(call[r].at)
    BY <2>1, CallAdvances
  <2>3. Fits(r, req[r], call'[r].at)
    BY <1>1, <2>1, <2>2 DEF Fits
  <2>4. /\ Remaining(r) = 6 * (req[r].left - 1) + CallRank(call[r].at) + 1
        /\ Remaining(r)' = 6 * (req[r].left - 1) + CallRank(call'[r].at) + 1
    BY <2>1 DEF Remaining, Rank
  <2>5. CallRank(call[r].at) \in 1..5 /\ CallRank(call'[r].at) \in 1..5 /\ req[r].left \in 1..2
    BY <1>1, <2>1 DEF CallRank, Fits
  <2>6. Remaining(r)' \in 0 .. Remaining(r) - 1
    BY <2>2, <2>4, <2>5
  <2> QED BY <1>1, <2>1, <2>2, <2>3, <2>6 DEF Advances
<1>9. CASE AwaitsBackend(r)
  <2> DEFINE k == [at |-> "backend", since |-> 0, status |-> 0, left |-> 0]
  <2>1. req' = [req EXCEPT ![r] = k] /\ k.at = "backend" /\ k.status = 0
    BY <1>9 DEF AwaitsBackend, Goes
  <2> HIDE DEF k
  <2>2. call'[r].at = "idle" /\ \A q \in Requests \ {r} : call'[q] = call[q]
    <3>1. CASE req[r].at = "calling"
      <4>1. call' = [call EXCEPT ![r] = NoCall] /\ NoCall.at = "idle"
        BY <1>9, <3>1 DEF AwaitsBackend, Dismiss, NoCall
      <4>2. call'[r] = NoCall /\ \A q \in Requests \ {r} : call'[q] = call[q]
        BY <1>1, <4>1
      <4> QED BY <4>1, <4>2
    <3>2. CASE req[r].at # "calling"
      BY <1>1, <1>9, <3>2 DEF AwaitsBackend, Fits
    <3> QED BY <3>1, <3>2
  <2>3. Fits(r, k, "idle")
    BY <1>1, <1>9, <2>1 DEF Fits, AwaitsBackend, Authorized
  <2>4. Remaining(r) > 1
    <3>1. CASE req[r].at = "calling"
      <4>1. CallRank(call[r].at) = 1 /\ req[r].left \in 1..2
        BY <1>1, <1>9, <3>1 DEF AwaitsBackend, Fits, Ended, CallRank
      <4> QED BY <3>1, <4>1 DEF Remaining, Rank
    <3>2. CASE req[r].at # "calling"
      BY <1>9, <3>2 DEF AwaitsBackend, Remaining, Rank
    <3> QED BY <3>1, <3>2
  <2>5. req'[r] = k /\ call'[r].at = "idle"
    BY <1>3, <2>1, <2>2
  <2>6. Remaining(r)' = 1
    BY <2>1, <2>5 DEF Remaining, Rank
  <2>7. Fits(r, req'[r], call'[r].at)
    BY <2>3, <2>5
  <2> QED BY <1>1, <1>3, <2>1, <2>2, <2>4, <2>6, <2>7 DEF Advances
<1> QED BY <1>2, <1>5, <1>6, <1>7, <1>8, <1>9

LEMMA RequestNext ==
  ASSUME ClientInv, RequestInv, [Next]_vars
  PROVE  /\ RequestInv'
         /\ UNCHANGED <<req, call>> \/ \E r \in Requests : Advances(r)
<1>1. CASE UNCHANGED <<req, call>>
  BY <1>1 DEF RequestInv
<1>2. ASSUME NEW r \in Requests, Send(r) \/ ServerStep(r) PROVE Advances(r) /\ RequestInv'
  <2>1. Advances(r)
    BY <1>2, RequestAdvances
  <2>2. ASSUME NEW q \in Requests PROVE Fits(q, req'[q], call'[q].at)
    <3>1. CASE q = r
      BY <2>1, <3>1 DEF Advances
    <3>2. CASE q # r
      <4>1. req'[q] = req[q] /\ call'[q] = call[q] /\ Fits(q, req[q], call[q].at)
        BY <2>1, <3>2 DEF Advances, RequestInv
      <4> QED BY <4>1
    <3> QED BY <3>1, <3>2
  <2>3. DOMAIN req' = Requests
    BY <2>1 DEF Advances
  <2> QED BY <2>1, <2>2, <2>3 DEF RequestInv
<1>3. ASSUME Tick \/ UNCHANGED vars PROVE UNCHANGED <<req, call>>
  BY <1>3 DEF Tick, vars
<1> QED BY <1>1, <1>2, <1>3 DEF Next

LEMMA RequestInitInv == Init => RequestInv
<1> SUFFICES ASSUME Init PROVE RequestInv
  OBVIOUS
<1> DEFINE k == [at |-> "unsent", since |-> 0, status |-> 0, left |-> 0]
<1>1. /\ DOMAIN req = Requests /\ k.at = "unsent" /\ k.status = 0
      /\ \A r \in Requests : req[r] = k /\ call[r].at = "idle"
  BY ApiAssumption DEF Init, NoCall
<1> HIDE DEF k
<1>2. \A r \in Requests : Fits(r, k, "idle")
  BY <1>1 DEF Fits
<1> QED BY <1>1, <1>2 DEF RequestInv

LEMMA RequestInvariant == Spec => []RequestInv
  BY RequestInitInv, RequestNext, ApiClientInv, PTL DEF Spec

(* Nothing of a guarded route is done, at Logto or in the database, and    *)
(* nothing but a refusal answered, unless the token was accepted by the    *)
(* route's own rule; a 403 is only for accepted tokens without the right,  *)
(* and a bearer that is refused at once never reaches the verification.    *)
AnswersAreAuthorized ==
  \A r \in Requests :
    Guard(r) # "none" =>
      /\ req[r].at \in {"verifying", "calling", "backend"} \/ req[r].status \in {200, 403, 500, 504}
           => ~RefusedAtOnce(Guard(r), Sent(r).bearer)
      /\ req[r].at \in {"calling", "backend"} \/ call[r].at # "idle" \/ req[r].status \in {200, 500}
           => Authorized(r)
      /\ req[r].status = 403 => Verifies(Guard(r), Sent(r).bearer) /\ ~Authorized(r)

(* Authorization by the guards, for any tokens, routes and timing.         *)
THEOREM ApiAuthorizes == Spec => []AnswersAreAuthorized
<1>1. RequestInv => AnswersAreAuthorized
  <2> SUFFICES ASSUME RequestInv, NEW r \in Requests, Guard(r) # "none"
               PROVE  /\ req[r].at \in {"verifying", "calling", "backend"} \/ req[r].status \in {200, 403, 500, 504}
                           => ~RefusedAtOnce(Guard(r), Sent(r).bearer)
                      /\ req[r].at \in {"calling", "backend"} \/ call[r].at # "idle" \/ req[r].status \in {200, 500}
                           => Authorized(r)
                      /\ req[r].status = 403 => Verifies(Guard(r), Sent(r).bearer) /\ ~Authorized(r)
    BY DEF AnswersAreAuthorized
  <2>1. Fits(r, req[r], call[r].at)
    BY DEF RequestInv
  <2> QED BY <2>1 DEF Fits
<1> QED BY <1>1, RequestInvariant, PTL

(* Every step of a request takes it nearer to its answer: it is sent, its  *)
(* token verified, its at most two calls made one after the other, each of *)
(* them through at most six stages, and the backend awaited; there is no   *)
(* retry, no second answer and no way back.  With at most fourteen steps   *)
(* of its own it can only wait for ever where RequestsEnd says it may.     *)
RequestsOnlyAdvance ==
  [][\/ UNCHANGED <<req, call>>
     \/ \E r \in Requests :
          /\ Remaining(r) \in 0..14 /\ Remaining(r)' \in 0 .. Remaining(r) - 1
          /\ \A q \in Requests \ {r} : req'[q] = req[q] /\ call'[q] = call[q]]_vars

(* No request goes round for ever in the server.                           *)
THEOREM RequestsAdvance == Spec => RequestsOnlyAdvance
<1>1. ASSUME ClientInv, RequestInv, [Next]_vars
      PROVE  \/ UNCHANGED <<req, call>>
             \/ \E r \in Requests :
                  /\ Remaining(r) \in 0..14 /\ Remaining(r)' \in 0 .. Remaining(r) - 1
                  /\ \A q \in Requests \ {r} : req'[q] = req[q] /\ call'[q] = call[q]
  <2>1. \A r \in Requests : Remaining(r) \in 0..14
    BY <1>1, RemainingCounts DEF RequestInv, Remaining
  <2>2. UNCHANGED <<req, call>> \/ \E r \in Requests : Advances(r)
    BY <1>1, RequestNext
  <2>3. ASSUME NEW r \in Requests, Advances(r)
        PROVE  /\ Remaining(r)' \in 0 .. Remaining(r) - 1
               /\ \A q \in Requests \ {r} : req'[q] = req[q] /\ call'[q] = call[q]
    BY <2>3 DEF Advances
  <2> HIDE DEF Remaining
  <2> QED BY <2>1, <2>2, <2>3
<1> QED BY <1>1, RequestInvariant, ApiClientInv, PTL DEF Spec, RequestsOnlyAdvance

-----------------------------------------------------------------------------
(* The limiter's history is that of the requests: of each key it has as    *)
(* many entries as requests have come past the limiter, whatever became of *)
(* them.  So what LimitHolds says of the history, it says of them; a       *)
(* request that is refused, or whose body cannot be parsed, leaves none.   *)
CameThrough(k) == k.at # "unsent" /\ k.status \notin {400, 429}

Past(k) == {r \in Requests : KeyOf(r) = k /\ CameThrough(req[r])}

PastAreLogged == \A k \in Keys : IsFiniteSet(Past(k)) /\ Cardinality(Past(k)) = Len(log[k])

(* An admitted request has come through, whether it is answered or goes on. *)
LEMMA AdmittedComesThrough ==
  ASSUME RequestInv, NEW r \in Requests, Passes(r), Admits(KeyOf(r))
  PROVE  CameThrough(req'[r])
<1> DOMAIN req = Requests
  BY DEF RequestInv
<1>1. ASSUME NEW status \in {200, 401}, AnswerWith(r, status) PROVE CameThrough(req'[r])
  <2> DEFINE k == [at |-> "answered", since |-> 0, status |-> status, left |-> 0]
  <2>1. req' = [req EXCEPT ![r] = k] /\ CameThrough(k)
    BY <1>1 DEF AnswerWith, CameThrough
  <2> HIDE DEF k
  <2> QED BY <2>1
<1>2. ASSUME NEW stage \in {"verifying", "calling", "backend"}, NEW left, Goes(r, stage, left)
      PROVE  CameThrough(req'[r])
  <2> DEFINE k == [at |-> stage, since |-> IF stage = "verifying" THEN now ELSE 0,
                   status |-> 0, left |-> left]
  <2>1. req' = [req EXCEPT ![r] = k] /\ CameThrough(k)
    BY <1>2 DEF Goes, CameThrough
  <2> HIDE DEF k
  <2> QED BY <2>1
<1>3. ASSUME Handle(r) PROVE CameThrough(req'[r])
  BY <1>1, <1>2, <1>3 DEF Handle, Complete
<1> QED BY <1>1, <1>2, <1>3 DEF Passes

LEMMA PastNext ==
  ASSUME LimiterInv, ClientInv, RequestInv, PastAreLogged, [Next]_vars
  PROVE  PastAreLogged'
<1> USE ApiAssumption
<1>1. log \in [Keys -> Seq(Entry)]
  BY DEF LimiterInv, LimiterTypeOK, Entry
<1>2. ASSUME UNCHANGED log, \A r \in Requests : CameThrough(req'[r]) <=> CameThrough(req[r])
      PROVE  PastAreLogged'
  <2>1. ASSUME NEW k PROVE Past(k)' = Past(k)
    BY <1>2 DEF Past
  <2> QED BY <1>2, <2>1 DEF PastAreLogged
<1>3. CASE Tick \/ UNCHANGED vars
  <2>1. UNCHANGED <<log, req>>
    BY <1>3 DEF Tick, vars
  <2> QED BY <1>2, <2>1
<1>4. ASSUME NEW r \in Requests, Send(r) \/ ServerStep(r) PROVE PastAreLogged'
  <2>1. /\ Advances(r) /\ Fits(r, req[r], call[r].at) /\ DOMAIN req = Requests
        /\ \A q \in Requests \ {r} : req'[q] = req[q]
    BY <1>4, RequestAdvances DEF Advances, RequestInv
  <2>2. ASSUME NEW status, AnswerWith(r, status)
        PROVE  req'[r].at = "answered" /\ req'[r].status = status
    <3> DEFINE k == [at |-> "answered", since |-> 0, status |-> status, left |-> 0]
    <3>1. req' = [req EXCEPT ![r] = k] /\ k.at = "answered" /\ k.status = status
      BY <2>2 DEF AnswerWith
    <3> HIDE DEF k
    <3> QED BY <2>1, <3>1
  <2>0. ASSUME UNCHANGED log, CameThrough(req'[r]) <=> CameThrough(req[r]) PROVE PastAreLogged'
    <3>1. ASSUME NEW q \in Requests PROVE CameThrough(req'[q]) <=> CameThrough(req[q])
      <4>1. q # r => req'[q] = req[q]
        BY <2>1
      <4> QED BY <2>0, <4>1
    <3> QED BY <1>2, <2>0, <3>1
  <2>3. CASE ServerStep(r)
    <3>1. UNCHANGED log /\ req[r].at \in {"verifying", "calling", "backend"}
      BY <2>3 DEF ServerStep, Verified, VerifyFails, VerifyTimesOut, CallMoves, Returns, BackendReturns
    <3>2. CameThrough(req[r])
      BY <2>1, <3>1 DEF Fits, CameThrough
    <3>3. IsAnswered(r) \/ IsVerified(r) \/ AwaitsBackend(r) \/ BeginsCall(r) \/ CallGoesOn(r)
      BY <1>4, <2>1, RequestMoves DEF Fits
    <3>4. CASE IsAnswered(r)
      <4>1. PICK status : MayGet(r, status) /\ AnswerWith(r, status)
        BY <3>4 DEF IsAnswered
      <4>2. status \notin {400, 429}
        BY <3>1, <4>1 DEF MayGet
      <4>3. CameThrough(req'[r])
        BY <2>2, <4>1, <4>2 DEF CameThrough
      <4> QED BY <2>0, <3>1, <3>2, <4>3
    <3>5. CASE BeginsCall(r)
      <4>1. PICK left : Goes(r, "calling", left)
        BY <3>5 DEF BeginsCall
      <4> DEFINE k == [at |-> "calling", since |-> 0, status |-> 0, left |-> left]
      <4>2. req' = [req EXCEPT ![r] = k] /\ CameThrough(k)
        BY <4>1 DEF Goes, CameThrough
      <4> HIDE DEF k
      <4>3. CameThrough(req'[r])
        BY <2>1, <4>2
      <4> QED BY <2>0, <3>1, <3>2, <4>3
    <3>6. CASE CallGoesOn(r)
      BY <1>2, <3>1, <3>6 DEF CallGoesOn
    <3>7. CASE AwaitsBackend(r)
      <4> DEFINE k == [at |-> "backend", since |-> 0, status |-> 0, left |-> 0]
      <4>1. req' = [req EXCEPT ![r] = k] /\ CameThrough(k)
        BY <3>7 DEF AwaitsBackend, Goes, CameThrough
      <4> HIDE DEF k
      <4>2. CameThrough(req'[r])
        BY <2>1, <4>1
      <4> QED BY <2>0, <3>1, <3>2, <4>2
    <3>8. CASE IsVerified(r)
      BY <3>1, <3>8 DEF IsVerified
    <3> QED BY <3>3, <3>4, <3>5, <3>6, <3>7, <3>8
  <2>4. CASE Send(r) /\ (ParseFails(r) \/ ~Admits(KeyOf(r)))
    <3>1. ~CameThrough(req[r])
      BY <2>4 DEF Send, CameThrough
    <3>2. UNCHANGED log /\ \E status \in {400, 429} : AnswerWith(r, status)
      BY <2>4 DEF Send, ParseFails, Passes, Limit
    <3>3. ~CameThrough(req'[r])
      BY <2>2, <3>2 DEF CameThrough
    <3> QED BY <2>0, <3>1, <3>2, <3>3
  <2>5. CASE Send(r) /\ Passes(r) /\ Admits(KeyOf(r))
    <3> DEFINE e == [at |-> now, start |-> Incremented(KeyOf(r)).resetAt - Window]
               k == KeyOf(r)
    <3>0. log' = [log EXCEPT ![k] = Append(log[k], e)] /\ k \in Keys
      BY <2>5 DEF Passes, Limit
    <3>1. CameThrough(req'[r]) /\ ~CameThrough(req[r])
      BY <2>5, AdmittedComesThrough DEF Send, CameThrough
    <3> HIDE DEF e, k
    <3>2. Len(log'[k]) = Len(log[k]) + 1
      <4>1. log[k] \in Seq(Entry) /\ log'[k] = Append(log[k], e)
        BY <1>1, <3>0
      <4> QED BY <4>1
    <3>3. Past(k)' = Past(k) \cup {r} /\ r \notin Past(k)
      BY <2>1, <3>1 DEF Past, k
    <3>4. ASSUME NEW h \in Keys PROVE IsFiniteSet(Past(h)') /\ Cardinality(Past(h)') = Len(log'[h])
      <4>1. IsFiniteSet(Past(h)) /\ Cardinality(Past(h)) = Len(log[h])
        BY DEF PastAreLogged
      <4>2. CASE h = k
        BY <3>2, <3>3, <4>1, <4>2, FS_AddElement
      <4>3. CASE h # k
        <5>1. Past(h)' = Past(h)
          BY <2>1, <4>3 DEF Past, k
        <5>2. log'[h] = log[h]
          BY <1>1, <3>0, <4>3
        <5> QED BY <4>1, <5>1, <5>2
      <4> QED BY <4>2, <4>3
    <3> QED BY <3>4 DEF PastAreLogged
  <2> QED BY <1>4, <2>3, <2>4, <2>5 DEF Send
<1> QED BY <1>3, <1>4 DEF Next

(* Requests are handled if and only if they are counted as admitted.       *)
THEOREM ApiLogsWhatPasses == Spec => []PastAreLogged
<1>1. Init => PastAreLogged
  <2> SUFFICES ASSUME Init, NEW k \in Keys PROVE IsFiniteSet(Past(k)) /\ Cardinality(Past(k)) = Len(log[k])
    BY DEF PastAreLogged
  <2>1. Past(k) = {} /\ log[k] = <<>>
    BY DEF Init, InitLimiter, Past, CameThrough
  <2> QED BY <2>1, FS_EmptySet
<1>2. LimiterSpec => []LimiterInv
  BY LimiterInvariant
<1> QED BY <1>1, <1>2, PastNext, ApiImplementsLimiter, ApiClientInv, RequestInvariant, PTL DEF Spec

=============================================================================
