--------------------------- MODULE ThrottlerProofs ---------------------------
(***************************************************************************)
(* The safety of the rate limiter, proved for every limit, every window    *)
(* and every block duration that is not shorter than the window.           *)
(***************************************************************************)
EXTENDS Throttler, TLAPS

(* Lemmas about the split of the grants into windows.                      *)

\* A window that is over leaves its grants, at most Limit, behind the next.
LEMMA WindowIsOver ==
  ASSUME NEW g \in Seq(Nat), NEW s \in Int, NEW n \in 0 .. Limit, NEW t \in Nat,
         Split(g, s, n), s + Ttl <= t
  PROVE  Split(g, t, 0)
<1>1. Ttl \in Nat \ {0} /\ Limit \in Nat \ {0} /\ Len(g) \in Nat /\ DOMAIN g = 1 .. Len(g)
  BY ThrottlerConstants
<1>2. ASSUME NEW j \in DOMAIN g
      PROVE  /\ g[j] < t
             /\ j <= Len(g) - Limit => g[j] < t - Ttl
  <2>1. g[j] \in Nat /\ j \in Nat
    BY <1>1
  <2>2. j > Len(g) - n => g[j] < s + Ttl
    BY DEF Split
  <2>3. j <= Len(g) - n => g[j] < s
    BY DEF Split
  <2>4. QED
    BY <1>1, <2>1, <2>2, <2>3
<1>3. QED
  BY <1>1, <1>2 DEF Split

\* Nothing but the passing of time happens to a split without a window.
LEMMA TimePasses ==
  ASSUME NEW g \in Seq(Nat), NEW t \in Nat, Split(g, t, 0)
  PROVE  Split(g, t + 1, 0)
<1>1. Ttl \in Nat \ {0} /\ Limit \in Nat \ {0} /\ Len(g) \in Nat /\ DOMAIN g = 1 .. Len(g)
  BY ThrottlerConstants
<1>2. ASSUME NEW j \in DOMAIN g
      PROVE  g[j] < t + 1 /\ (j <= Len(g) - Limit => g[j] < t + 1 - Ttl)
  <2>1. g[j] \in Nat /\ j \in Nat
    BY <1>1
  <2>2. g[j] < t /\ (j <= Len(g) - Limit => g[j] < t - Ttl)
    BY <1>1, <2>1 DEF Split
  <2>3. QED
    BY <1>1, <2>1, <2>2
<1>3. QED
  BY <1>1, <1>2 DEF Split

\* A request let through extends the window it falls into.
LEMMA GrantIsInWindow ==
  ASSUME NEW g \in Seq(Nat), NEW s \in Int, NEW n \in Nat, NEW t \in Nat,
         Split(g, s, n), s <= t, t < s + Ttl
  PROVE  Split(Append(g, t), s, n + 1)
<1> DEFINE h == Append(g, t)
<1>1. Ttl \in Nat \ {0} /\ Limit \in Nat \ {0} /\ Len(g) \in Nat /\ DOMAIN g = 1 .. Len(g)
  BY ThrottlerConstants
<1>2. /\ Len(h) = Len(g) + 1 /\ DOMAIN h = 1 .. Len(g) + 1
      /\ h[Len(g) + 1] = t
      /\ \A j \in 1 .. Len(g) : h[j] = g[j]
  BY <1>1
<1>3. ASSUME NEW j \in DOMAIN h
      PROVE  /\ j > Len(h) - (n + 1) => s <= h[j] /\ h[j] < s + Ttl
             /\ j <= Len(h) - (n + 1) => h[j] < s
             /\ j <= Len(h) - (n + 1) - Limit => h[j] < s - Ttl
  <2>1. CASE j = Len(g) + 1
    BY <1>1, <1>2, <2>1
  <2>2. CASE j \in 1 .. Len(g)
    <3>1. /\ j > Len(g) - n => s <= g[j] /\ g[j] < s + Ttl
          /\ j <= Len(g) - n => g[j] < s
          /\ j <= Len(g) - n - Limit => g[j] < s - Ttl
      BY <1>1, <2>2 DEF Split
    <3>2. QED
      BY <1>1, <1>2, <2>2, <3>1
  <2>3. QED
    BY <1>1, <1>2, <2>1, <2>2
<1>4. n + 1 <= Len(h)
  BY <1>1, <1>2 DEF Split
<1> HIDE DEF h
<1>5. Split(h, s, n + 1)
  BY <1>3, <1>4 DEF Split
<1>6. QED
  BY <1>5 DEF h

\* The burst bound survives a request let through in a window that has not
\* reached the limit.
LEMMA GrantKeepsBurst ==
  ASSUME NEW s \in Int, NEW n \in 0 .. Limit - 1, grants \in Seq(Nat), now \in Nat,
         Split(grants, s, n), s <= now, BurstIsBounded,
         grants' = Append(grants, now)
  PROVE  BurstIsBounded'
<1>1. /\ Ttl \in Nat \ {0} /\ Limit \in Nat \ {0}
      /\ Len(grants) \in Nat /\ DOMAIN grants = 1 .. Len(grants)
  BY ThrottlerConstants
<1>2. /\ DOMAIN grants' = 1 .. Len(grants) + 1
      /\ grants'[Len(grants) + 1] = now
      /\ \A j \in 1 .. Len(grants) : grants'[j] = grants[j] /\ grants[j] \in Nat
  BY <1>1
<1>3. ASSUME NEW i \in DOMAIN grants', i + 2 * Limit \in DOMAIN grants'
      PROVE  grants'[i + 2 * Limit] > grants'[i] + Ttl
  <2>1. i \in 1 .. Len(grants)
    BY <1>1, <1>2, <1>3
  <2>2. CASE i + 2 * Limit \in 1 .. Len(grants)
    BY <1>1, <1>2, <2>1, <2>2 DEF BurstIsBounded
  <2>3. CASE i + 2 * Limit = Len(grants) + 1
    <3>1. i <= Len(grants) - n - Limit
      BY <1>1, <2>1, <2>3
    <3>2. grants[i] < s - Ttl
      BY <1>1, <2>1, <3>1 DEF Split
    <3>3. QED
      BY <1>1, <1>2, <2>1, <2>3, <3>2
  <2>4. QED
    BY <1>1, <1>2, <1>3, <2>1, <2>2, <2>3
<1>4. QED
  BY <1>3 DEF BurstIsBounded

-----------------------------------------------------------------------------
(* What the script does to a bucket the invariant describes.               *)

\* Bucket b has these fields.
Is(b, hits, expiresAt, blockExpiresAt, isBlocked) ==
  /\ b \in Bucket
  /\ b.hits = hits /\ b.expiresAt = expiresAt
  /\ b.blockExpiresAt = blockExpiresAt /\ b.isBlocked = isBlocked

\* The bucket starts a new window for this request.
Renews ==
  /\ \E x \in Nat : Is(Incremented, 1, now + Ttl, x, FALSE)
  /\ Split(grants, now, 0)
  /\ told <= now

\* The request counts in a window that has room for it.
Counts ==
  /\ bucket # Empty /\ ~bucket.isBlocked
  /\ bucket.hits < Limit /\ now < bucket.expiresAt
  /\ Is(Incremented, bucket.hits + 1, bucket.expiresAt, bucket.blockExpiresAt, FALSE)

\* The request is one too many.
Blocks ==
  /\ bucket # Empty /\ ~bucket.isBlocked
  /\ bucket.hits = Limit /\ now < bucket.expiresAt
  /\ Is(Incremented, Limit + 1, bucket.expiresAt, now + BlockDuration, TRUE)

\* The bucket is blocked already.
Refuses ==
  /\ bucket # Empty /\ bucket.isBlocked
  /\ now < bucket.blockExpiresAt
  /\ Incremented = bucket

\* The statements of the script one by one.
LEMMA EndBlockSteps ==
  ASSUME NEW b \in Bucket, now \in Nat
  PROVE  /\ (b.isBlocked /\ now < b.blockExpiresAt) => EndBlock(b) = b
         /\ ~b.isBlocked => EndBlock(b) = b
         /\ (b.isBlocked /\ b.blockExpiresAt <= now) =>
              Is(EndBlock(b), 0, now + Ttl, b.blockExpiresAt, FALSE)
<1>1. b.blockExpiresAt \in Nat /\ now + Ttl \in Nat
  BY ThrottlerConstants DEF Bucket
<1>2. (b.isBlocked /\ now < b.blockExpiresAt) => EndBlock(b) = b
  BY <1>1 DEF EndBlock
<1>3. ~b.isBlocked => EndBlock(b) = b
  BY DEF EndBlock
<1>4. Is([b EXCEPT !.isBlocked = FALSE, !.hits = 0, !.expiresAt = now + Ttl],
         0, now + Ttl, b.blockExpiresAt, FALSE)
  BY <1>1 DEF Is, Bucket
<1>5. QED
  BY <1>2, <1>3, <1>4 DEF EndBlock

LEMMA EndWindowSteps ==
  ASSUME NEW b \in Bucket, now \in Nat
  PROVE  /\ b.isBlocked => EndWindow(b) = b
         /\ now < b.expiresAt => EndWindow(b) = b
         /\ (~b.isBlocked /\ b.expiresAt <= now) =>
              Is(EndWindow(b), 0, now + Ttl, b.blockExpiresAt, FALSE)
<1>1. b.expiresAt \in Nat /\ now + Ttl \in Nat
  BY ThrottlerConstants DEF Bucket
<1>2. now < b.expiresAt => ~(b.expiresAt <= now)
  BY <1>1
<1>3. ~b.isBlocked => Is([b EXCEPT !.hits = 0, !.expiresAt = now + Ttl],
                         0, now + Ttl, b.blockExpiresAt, FALSE)
  BY <1>1 DEF Is, Bucket
<1>4. QED
  BY <1>2, <1>3, Zenon DEF EndWindow

LEMMA CountHitSteps ==
  ASSUME NEW b \in Bucket
  PROVE  /\ b.isBlocked => CountHit(b) = b
         /\ ~b.isBlocked =>
              Is(CountHit(b), b.hits + 1, b.expiresAt, b.blockExpiresAt, FALSE)
<1>1. b.hits + 1 \in Nat /\ b.isBlocked \in BOOLEAN
  BY DEF Bucket
<1>2. /\ [b EXCEPT !.hits = b.hits + 1] \in Bucket
      /\ [b EXCEPT !.hits = b.hits + 1].hits = b.hits + 1
      /\ [b EXCEPT !.hits = b.hits + 1].expiresAt = b.expiresAt
      /\ [b EXCEPT !.hits = b.hits + 1].blockExpiresAt = b.blockExpiresAt
      /\ [b EXCEPT !.hits = b.hits + 1].isBlocked = b.isBlocked
  BY <1>1 DEF Bucket
<1>3. QED
  BY <1>1, <1>2, Zenon DEF CountHit, Is

LEMMA StartBlockSteps ==
  ASSUME NEW b \in Bucket, now \in Nat
  PROVE  /\ b.isBlocked => StartBlock(b) = b
         /\ ~(b.hits > Limit) => StartBlock(b) = b
         /\ (b.hits > Limit /\ ~b.isBlocked) =>
              Is(StartBlock(b), b.hits, b.expiresAt, now + BlockDuration, TRUE)
<1>1. now + BlockDuration \in Nat
  BY ThrottlerConstants
<1> DEFINE c == [b EXCEPT !.isBlocked = TRUE, !.blockExpiresAt = now + BlockDuration]
<1>2. /\ c \in Bucket
      /\ c.hits = b.hits /\ c.expiresAt = b.expiresAt
      /\ c.blockExpiresAt = now + BlockDuration /\ c.isBlocked
  BY <1>1 DEF Bucket
<1>3. c.isBlocked = TRUE
  BY <1>2 DEF Bucket
<1>4. QED
  BY <1>2, <1>3, Zenon DEF StartBlock, Is

\* A bucket that is not blocked and has no hits counts the first one.
LEMMA FirstHit ==
  ASSUME now \in Nat, NEW x \in Nat, NEW b, Is(b, 0, now + Ttl, x, FALSE)
  PROVE  /\ EndWindow(b) = b
         /\ Is(StartBlock(CountHit(b)), 1, now + Ttl, x, FALSE)
<1>1. Ttl \in Nat \ {0} /\ Limit \in Nat \ {0}
  BY ThrottlerConstants
<1>2. b \in Bucket /\ ~b.isBlocked /\ now < b.expiresAt
  BY <1>1 DEF Is
<1>3. Is(CountHit(b), 1, now + Ttl, x, FALSE)
  <2>1. Is(CountHit(b), b.hits + 1, b.expiresAt, b.blockExpiresAt, FALSE)
    BY <1>2, CountHitSteps
  <2>2. b.hits + 1 = 1 /\ b.expiresAt = now + Ttl /\ b.blockExpiresAt = x
    BY DEF Is
  <2>3. QED
    BY <2>1, <2>2
<1>4. CountHit(b) \in Bucket /\ ~(CountHit(b).hits > Limit)
  BY <1>1, <1>3 DEF Is
<1>5. StartBlock(CountHit(b)) = CountHit(b)
  BY <1>4, StartBlockSteps
<1>6. QED
  BY <1>2, <1>3, <1>5, EndWindowSteps

LEMMA ScriptCases ==
  ASSUME IInv
  PROVE  Renews \/ Counts \/ Blocks \/ Refuses
<1>1. /\ now \in Nat /\ bucket \in Bucket \cup {Empty} /\ grants \in Seq(Nat) /\ told \in Nat
      /\ bucket # Empty => bucket.hits \in 1 .. Limit + 1
      /\ Ttl \in Nat \ {0} /\ Limit \in Nat \ {0} /\ BlockDuration \in Nat
      /\ BlockDuration >= Ttl
  BY ThrottlerConstants DEF IInv, TypeOK
<1>2. bucket # Empty => /\ bucket \in Bucket /\ bucket.hits \in Nat
                        /\ bucket.expiresAt \in Nat /\ bucket.blockExpiresAt \in Nat
                        /\ bucket.isBlocked \in BOOLEAN
  BY <1>1 DEF Bucket
<1>3. ASSUME NEW x \in Nat,
             Is(Incremented, 1, now + Ttl, x, FALSE), Split(grants, now, 0), told <= now
      PROVE  Renews
  BY <1>3 DEF Renews
<1>4. CASE bucket = Empty
  <2>1. Is(Stored, 0, now + Ttl, 0, FALSE)
    BY <1>1, <1>4 DEF Stored, Fresh, Is, Bucket
  <2>2. Stored \in Bucket /\ ~Stored.isBlocked
    BY <2>1 DEF Is
  <2>3. EndBlock(Stored) = Stored
    BY <1>1, <2>2, EndBlockSteps
  <2>4. Is(Incremented, 1, now + Ttl, 0, FALSE)
    BY <1>1, <2>1, <2>3, FirstHit DEF Incremented
  <2>5. QED
    BY <1>3, <1>4, <2>4 DEF IInv, NoBucket
<1>5. CASE bucket # Empty /\ bucket.isBlocked /\ now < bucket.blockExpiresAt
  <2>1. Incremented = bucket
    BY <1>1, <1>2, <1>5, EndBlockSteps, EndWindowSteps, CountHitSteps, StartBlockSteps
       DEF Incremented, Stored
  <2>2. QED
    BY <1>5, <2>1 DEF Refuses
<1>6. CASE bucket # Empty /\ bucket.isBlocked /\ bucket.blockExpiresAt <= now
  <2>1. Is(EndBlock(Stored), 0, now + Ttl, bucket.blockExpiresAt, FALSE)
    BY <1>1, <1>2, <1>6, EndBlockSteps DEF Stored
  <2>2. Is(Incremented, 1, now + Ttl, bucket.blockExpiresAt, FALSE)
    BY <1>1, <1>2, <1>6, <2>1, FirstHit DEF Incremented
  <2>3. /\ Split(grants, bucket.expiresAt - Ttl, Limit)
        /\ bucket.blockExpiresAt >= bucket.expiresAt
        /\ told = bucket.blockExpiresAt
    BY <1>6 DEF IInv, BlockedBucket
  <2>4. bucket.expiresAt - Ttl \in Int /\ bucket.expiresAt - Ttl + Ttl <= now
        /\ Limit \in 0 .. Limit /\ told <= now
    BY <1>1, <1>2, <1>6, <2>3
  <2>5. Split(grants, now, 0)
    BY <1>1, <2>3, <2>4, WindowIsOver
  <2>6. QED
    BY <1>2, <1>3, <1>6, <2>2, <2>4, <2>5
<1>7. CASE bucket # Empty /\ ~bucket.isBlocked /\ bucket.expiresAt <= now
  <2>1. EndBlock(Stored) = bucket
    BY <1>1, <1>2, <1>7, EndBlockSteps DEF Stored
  <2>2. Is(EndWindow(bucket), 0, now + Ttl, bucket.blockExpiresAt, FALSE)
    BY <1>1, <1>2, <1>7, EndWindowSteps
  <2>3. Is(Incremented, 1, now + Ttl, bucket.blockExpiresAt, FALSE)
    BY <1>1, <1>2, <1>7, <2>1, <2>2, FirstHit DEF Incremented
  <2>4. /\ Split(grants, bucket.expiresAt - Ttl, bucket.hits)
        /\ bucket.hits <= Limit /\ told <= now
    BY <1>7 DEF IInv, OpenBucket
  <2>5. bucket.expiresAt - Ttl \in Int /\ bucket.expiresAt - Ttl + Ttl <= now
        /\ bucket.hits \in 0 .. Limit
    BY <1>1, <1>2, <1>7, <2>4
  <2>6. Split(grants, now, 0)
    BY <1>1, <2>4, <2>5, WindowIsOver
  <2>7. QED
    BY <1>2, <1>3, <1>7, <2>3, <2>4, <2>6
<1>8. CASE bucket # Empty /\ ~bucket.isBlocked /\ now < bucket.expiresAt
  <2>1. bucket.hits <= Limit
    BY <1>8 DEF IInv, OpenBucket
  <2> DEFINE c == CountHit(bucket)
  <2>2. Incremented = StartBlock(c)
    BY <1>1, <1>2, <1>8, EndBlockSteps, EndWindowSteps DEF Incremented, Stored
  <2>3. Is(c, bucket.hits + 1, bucket.expiresAt, bucket.blockExpiresAt, FALSE)
    BY <1>2, <1>8, CountHitSteps
  <2> HIDE DEF c
  <2>4. CASE bucket.hits < Limit
    <3>1. c \in Bucket /\ ~(c.hits > Limit)
      BY <1>1, <1>2, <1>8, <2>3, <2>4 DEF Is
    <3>2. Incremented = c
      BY <1>1, <2>2, <3>1, StartBlockSteps
    <3>3. QED
      BY <1>8, <2>3, <2>4, <3>2 DEF Counts
  <2>5. CASE bucket.hits = Limit
    <3>1. c \in Bucket /\ c.hits > Limit /\ ~c.isBlocked /\ c.hits = Limit + 1
          /\ c.expiresAt = bucket.expiresAt
      BY <1>1, <2>3, <2>5 DEF Is
    <3>2. Is(StartBlock(c), c.hits, c.expiresAt, now + BlockDuration, TRUE)
      BY <1>1, <3>1, StartBlockSteps
    <3>3. QED
      BY <1>8, <2>2, <2>5, <3>1, <3>2 DEF Blocks
  <2>6. QED
    BY <1>1, <1>2, <1>8, <2>1, <2>4, <2>5
<1>9. QED
  BY <1>1, <1>2, <1>4, <1>5, <1>6, <1>7, <1>8
-----------------------------------------------------------------------------
(* The steps of the throttler.                                             *)

\* The types of the values the proofs compute with.
LEMMA Types ==
  ASSUME IInv
  PROVE  /\ now \in Nat /\ grants \in Seq(Nat) /\ told \in Nat /\ keyExpiresAt \in Nat
         /\ Ttl \in Nat \ {0} /\ Limit \in Nat \ {0}
         /\ BlockDuration \in Nat /\ BlockDuration >= Ttl
         /\ bucket # Empty => /\ bucket \in Bucket /\ bucket.hits \in 1 .. Limit + 1
                             /\ bucket.expiresAt \in Nat /\ bucket.blockExpiresAt \in Nat
                             /\ bucket.isBlocked \in BOOLEAN
  BY ThrottlerConstants DEF IInv, TypeOK, Bucket

\* The answer of the script is an answer.
LEMMA AnswerIsTyped ==
  ASSUME NEW b \in Bucket, b.hits \in 0 .. Limit + 1, now \in Nat
  PROVE  AnswerOf(b) \in [totalHits : 0 .. Limit + 1, timeToExpire : Int,
                         isBlocked : BOOLEAN, timeToBlockExpire : Nat]
<1>1. b.expiresAt \in Nat /\ b.blockExpiresAt \in Nat /\ b.isBlocked \in BOOLEAN
  BY DEF Bucket
<1>2. (IF b.blockExpiresAt < now THEN 0 ELSE b.blockExpiresAt - now) \in Nat
  BY <1>1
<1>3. b.expiresAt - now \in Int
  BY <1>1
<1>4. QED
  BY <1>1, <1>2, <1>3 DEF AnswerOf

\* The fields of the bucket the script leaves, whatever the case.
LEMMA IncrementedFields ==
  ASSUME IInv
  PROVE  /\ Incremented \in Bucket /\ Incremented # Empty
         /\ Incremented.hits \in 1 .. Limit + 1
         /\ Incremented.expiresAt \in Nat /\ Incremented.blockExpiresAt \in Nat
         /\ Incremented.isBlocked \in BOOLEAN
<1>1. Incremented \in Bucket /\ Incremented.hits \in 1 .. Limit + 1
  <2>1. CASE Renews
    BY <2>1, Types DEF Renews, Is
  <2>2. CASE Counts
    BY <2>2, Types DEF Counts, Is
  <2>3. CASE Blocks
    BY <2>3, Types DEF Blocks, Is
  <2>4. CASE Refuses
    BY <2>4, Types DEF Refuses
  <2>5. QED
    BY <2>1, <2>2, <2>3, <2>4, ScriptCases
<1>2. QED
  BY <1>1, EmptyIsNoBucket DEF Bucket

\* The script keeps every part of the invariant that is about the bucket.
LEMMA ScriptKeepsInvariant ==
  ASSUME IInv, RunScript, UNCHANGED now
  PROVE  /\ bucket' \in Bucket /\ bucket' # Empty /\ bucket'.hits \in 1 .. Limit + 1
         /\ keyExpiresAt' \in Nat /\ grants' \in Seq(Nat) /\ told' \in Nat
         /\ BurstIsBounded' /\ OpenBucket' /\ BlockedBucket' /\ NoBucket'
         /\ KeyOutlivesBucket'
<1> USE Types
<1>1. /\ bucket' = Incremented
      /\ grants' = IF Incremented.isBlocked THEN grants ELSE Append(grants, now)
      /\ told' = IF Incremented.isBlocked THEN Incremented.blockExpiresAt ELSE told
      /\ now' = now
      /\ bucket' # Empty
  BY IncrementedFields DEF RunScript
<1>2. BurstIsBounded
  BY DEF IInv
<1>3. NoBucket'
  BY <1>1 DEF NoBucket
<1>4. ASSUME Renews
      PROVE  BurstIsBounded' /\ OpenBucket' /\ BlockedBucket'
  <2>1. /\ Incremented.hits = 1 /\ ~Incremented.isBlocked
        /\ Incremented.expiresAt = now + Ttl
        /\ Split(grants, now, 0) /\ told <= now
    BY <1>4 DEF Renews, Is
  <2>2. grants' = Append(grants, now) /\ told' = told
    BY <1>1, <2>1
  <2>3. Split(grants', now, 1)
    <3>1. Split(Append(grants, now), now, 0 + 1)
      BY <2>1, GrantIsInWindow
    <3>2. QED
      BY <2>2, <3>1
  <2>4. OpenBucket'
    <3>1. bucket'.expiresAt - Ttl = now /\ bucket'.hits = 1
      BY <1>1, <2>1
    <3>2. QED
      BY <1>1, <2>1, <2>2, <2>3, <3>1 DEF OpenBucket
  <2>5. BlockedBucket'
    BY <1>1, <2>1 DEF BlockedBucket
  <2>6. BurstIsBounded'
    <3>1. 0 \in 0 .. Limit - 1
      OBVIOUS
    <3>2. QED
      BY <1>2, <2>1, <2>2, <3>1, GrantKeepsBurst
  <2>7. QED
    BY <2>4, <2>5, <2>6
<1>5. ASSUME Counts
      PROVE  BurstIsBounded' /\ OpenBucket' /\ BlockedBucket'
  <2>1. /\ bucket # Empty /\ ~bucket.isBlocked
        /\ bucket.hits < Limit /\ now < bucket.expiresAt
        /\ Incremented.hits = bucket.hits + 1 /\ ~Incremented.isBlocked
        /\ Incremented.expiresAt = bucket.expiresAt
    BY <1>5 DEF Counts, Is
  <2>2. /\ Split(grants, bucket.expiresAt - Ttl, bucket.hits)
        /\ bucket.expiresAt <= now + Ttl /\ told <= now
    BY <2>1 DEF IInv, OpenBucket
  <2>3. grants' = Append(grants, now) /\ told' = told
    BY <1>1, <2>1
  <2>4. /\ bucket.expiresAt - Ttl \in Int /\ bucket.hits \in 0 .. Limit - 1
        /\ bucket.expiresAt - Ttl <= now /\ now < bucket.expiresAt - Ttl + Ttl
    BY <2>1, <2>2
  <2>5. Split(grants', bucket.expiresAt - Ttl, bucket.hits + 1)
    BY <2>2, <2>3, <2>4, GrantIsInWindow
  <2>6. OpenBucket'
    BY <1>1, <2>1, <2>2, <2>3, <2>5 DEF OpenBucket
  <2>7. BlockedBucket'
    BY <1>1, <2>1 DEF BlockedBucket
  <2>8. BurstIsBounded'
    BY <1>2, <2>2, <2>3, <2>4, GrantKeepsBurst
  <2>9. QED
    BY <2>6, <2>7, <2>8
<1>6. ASSUME Blocks
      PROVE  BurstIsBounded' /\ OpenBucket' /\ BlockedBucket'
  <2>1. /\ bucket # Empty /\ ~bucket.isBlocked /\ bucket.hits = Limit
        /\ Incremented.hits = Limit + 1 /\ Incremented.isBlocked
        /\ Incremented.expiresAt = bucket.expiresAt
        /\ Incremented.blockExpiresAt = now + BlockDuration
    BY <1>6 DEF Blocks, Is
  <2>2. Split(grants, bucket.expiresAt - Ttl, Limit) /\ bucket.expiresAt <= now + Ttl
    BY <2>1 DEF IInv, OpenBucket
  <2>3. grants' = grants /\ told' = now + BlockDuration
    BY <1>1, <2>1
  <2>4. BlockedBucket'
    BY <1>1, <2>1, <2>2, <2>3 DEF BlockedBucket
  <2>5. OpenBucket'
    BY <1>1, <2>1 DEF OpenBucket
  <2>6. QED
    BY <1>2, <2>3, <2>4, <2>5 DEF BurstIsBounded
<1>7. ASSUME Refuses
      PROVE  BurstIsBounded' /\ OpenBucket' /\ BlockedBucket'
  <2>1. bucket # Empty /\ bucket.isBlocked /\ Incremented = bucket
    BY <1>7 DEF Refuses
  <2>2. told = bucket.blockExpiresAt
    BY <2>1 DEF IInv, BlockedBucket
  <2>3. bucket' = bucket /\ grants' = grants /\ told' = told
    BY <1>1, <2>1, <2>2
  <2>4. OpenBucket /\ BlockedBucket
    BY DEF IInv
  <2>5. QED
    BY <1>1, <1>2, <2>3, <2>4 DEF BurstIsBounded, OpenBucket, BlockedBucket
<1>8. keyExpiresAt' \in Nat /\ KeyOutlivesBucket'
  <2>1. /\ ExpireAt(Incremented) \in Nat
        /\ ExpireAt(Incremented) >= Incremented.expiresAt
        /\ ExpireAt(Incremented) >= Incremented.blockExpiresAt
    BY IncrementedFields DEF ExpireAt
  <2>2. ExpireAt(Incremented) > now
    <3>1. Incremented.expiresAt > now \/ Incremented.blockExpiresAt > now
      <4>1. CASE Renews
        BY <4>1 DEF Renews, Is
      <4>2. CASE Counts
        BY <4>2 DEF Counts, Is
      <4>3. CASE Blocks
        BY <4>3 DEF Blocks, Is
      <4>4. CASE Refuses
        BY <4>4 DEF Refuses
      <4>5. QED
        BY <4>1, <4>2, <4>3, <4>4, ScriptCases
    <3>2. QED
      BY <2>1, <3>1, IncrementedFields
  <2>3. keyExpiresAt' = ExpireAt(Incremented)
    BY <2>2 DEF RunScript
  <2>4. QED
    BY <1>1, <2>1, <2>3 DEF KeyOutlivesBucket
<1>9. /\ bucket' \in Bucket /\ bucket'.hits \in 1 .. Limit + 1
      /\ grants' \in Seq(Nat) /\ told' \in Nat
  BY <1>1, IncrementedFields
<1>10. QED
  BY <1>1, <1>3, <1>4, <1>5, <1>6, <1>7, <1>8, <1>9, ScriptCases

\* The invariant holds at the start, and every step keeps it.
LEMMA InitIsSafe == Init => IInv
<1> SUFFICES ASSUME Init PROVE IInv
  OBVIOUS
<1>1. /\ now = 1 /\ bucket = Empty /\ grants = <<>> /\ told = 0
      /\ keyExpiresAt = 0 /\ faults = 0 /\ answer = FailOpen
  BY DEF Init
<1>2. TypeOK
  BY <1>1, ThrottlerConstants DEF TypeOK, FailOpen
<1>3. DOMAIN grants = {} /\ Len(grants) = 0
  BY <1>1
<1>4. BurstIsBounded /\ NoBucket
  BY <1>1, <1>3 DEF BurstIsBounded, NoBucket, Split
<1>5. QED
  BY <1>1, <1>2, <1>4 DEF IInv, OpenBucket, BlockedBucket, KeyOutlivesBucket

LEMMA NextIsSafe == IInv /\ [Next]_vars => IInv'
<1> SUFFICES ASSUME IInv, [Next]_vars PROVE IInv'
  OBVIOUS
<1> USE Types
<1> DEFINE Answers == [totalHits : 0 .. Limit + 1, timeToExpire : Int, isBlocked : BOOLEAN,
                       timeToBlockExpire : Nat]
<1>1. FailOpen \in Answers
  BY DEF FailOpen
<1>2. /\ faults \in 0 .. MaxFaults /\ answer \in Answers /\ MaxFaults \in Nat
      /\ bucket \in Bucket \cup {Empty}
  BY ThrottlerConstants DEF IInv, TypeOK
<1>3. /\ BurstIsBounded /\ OpenBucket /\ BlockedBucket /\ NoBucket /\ KeyOutlivesBucket
  BY DEF IInv
<1>4. Fault => faults' \in 0 .. MaxFaults
  BY <1>2 DEF Fault
<1>5. ASSUME RunScript, UNCHANGED now, answer' \in Answers, faults' \in 0 .. MaxFaults
      PROVE  IInv'
  <2>1. /\ bucket' \in Bucket /\ bucket' # Empty /\ bucket'.hits \in 1 .. Limit + 1
        /\ keyExpiresAt' \in Nat /\ grants' \in Seq(Nat) /\ told' \in Nat
        /\ BurstIsBounded' /\ OpenBucket' /\ BlockedBucket' /\ NoBucket'
        /\ KeyOutlivesBucket'
    BY <1>5, ScriptKeepsInvariant
  <2>2. TypeOK'
    BY <1>5, <2>1 DEF TypeOK
  <2>3. QED
    BY <2>1, <2>2 DEF IInv
<1>6. CASE Increment
  <2>1. answer' \in Answers
    <3>1. Incremented.hits \in 0 .. Limit + 1
      BY IncrementedFields
    <3>2. QED
      BY <1>6, <3>1, IncrementedFields, AnswerIsTyped DEF Increment
  <2>2. QED
    BY <1>2, <1>5, <1>6, <2>1 DEF Increment
<1>7. CASE AnswerLost
  BY <1>1, <1>4, <1>5, <1>7 DEF AnswerLost
<1>8. CASE Unreachable
  <2>1. /\ UNCHANGED <<now, bucket, keyExpiresAt, grants, told>>
        /\ answer' = FailOpen /\ faults' \in 0 .. MaxFaults
    BY <1>4, <1>8 DEF Unreachable, keyVars, ghostVars
  <2>2. TypeOK'
    BY <1>1, <1>2, <2>1 DEF TypeOK
  <2>3. /\ BurstIsBounded' /\ OpenBucket' /\ BlockedBucket' /\ NoBucket'
        /\ KeyOutlivesBucket'
    BY <1>3, <2>1
       DEF BurstIsBounded, OpenBucket, BlockedBucket, NoBucket, KeyOutlivesBucket
  <2>4. QED
    BY <2>2, <2>3 DEF IInv
<1>9. CASE KeyExpires
  <2>1. /\ bucket # Empty /\ keyExpiresAt <= now /\ bucket' = Empty
        /\ UNCHANGED <<now, keyExpiresAt, answer, faults, grants, told>>
    BY <1>9 DEF KeyExpires, ghostVars
  <2>2. /\ bucket.expiresAt <= now /\ bucket.blockExpiresAt <= now
        /\ bucket.expiresAt - Ttl \in Int /\ bucket.expiresAt - Ttl + Ttl <= now
    BY <1>3, <2>1 DEF KeyOutlivesBucket
  <2>3. Split(grants, now, 0) /\ told <= now
    <3>1. CASE bucket.isBlocked
      <4>1. Split(grants, bucket.expiresAt - Ttl, Limit) /\ told = bucket.blockExpiresAt
        BY <1>3, <2>1, <3>1 DEF BlockedBucket
      <4>2. QED
        BY <2>2, <4>1, WindowIsOver
    <3>2. CASE ~bucket.isBlocked
      <4>1. /\ Split(grants, bucket.expiresAt - Ttl, bucket.hits)
            /\ bucket.hits \in 0 .. Limit /\ told <= now
        BY <1>3, <2>1, <3>2 DEF OpenBucket
      <4>2. QED
        BY <2>2, <4>1, WindowIsOver
    <3>3. QED
      BY <3>1, <3>2
  <2>4. TypeOK'
    BY <1>2, <2>1 DEF TypeOK
  <2>5. NoBucket'
    BY <2>1, <2>3 DEF NoBucket
  <2>6. BurstIsBounded'
    BY <1>3, <2>1 DEF BurstIsBounded
  <2>7. OpenBucket' /\ BlockedBucket' /\ KeyOutlivesBucket'
    BY <2>1 DEF OpenBucket, BlockedBucket, KeyOutlivesBucket
  <2>8. QED
    BY <2>4, <2>5, <2>6, <2>7 DEF IInv
<1>10. CASE Tick
  <2>1. /\ now' = now + 1
        /\ UNCHANGED <<bucket, keyExpiresAt, answer, faults, grants, told>>
    BY <1>10 DEF Tick, keyVars, ghostVars
  <2>2. TypeOK'
    BY <1>2, <2>1 DEF TypeOK
  <2>3. NoBucket'
    BY <1>3, <2>1, TimePasses DEF NoBucket
  <2>4. OpenBucket'
    BY <1>3, <2>1 DEF OpenBucket
  <2>5. BurstIsBounded' /\ BlockedBucket' /\ KeyOutlivesBucket'
    BY <1>3, <2>1 DEF BurstIsBounded, BlockedBucket, KeyOutlivesBucket
  <2>6. QED
    BY <2>2, <2>3, <2>4, <2>5 DEF IInv
<1>11. CASE UNCHANGED vars
  <2>1. UNCHANGED <<now, bucket, keyExpiresAt, answer, faults, grants, told>>
    BY <1>11 DEF vars, keyVars, ghostVars
  <2>2. TypeOK'
    BY <1>2, <2>1 DEF TypeOK
  <2>3. /\ BurstIsBounded' /\ OpenBucket' /\ BlockedBucket' /\ NoBucket'
        /\ KeyOutlivesBucket'
    BY <1>3, <2>1
       DEF BurstIsBounded, OpenBucket, BlockedBucket, NoBucket, KeyOutlivesBucket
  <2>4. QED
    BY <2>2, <2>3 DEF IInv
<1>12. QED
  BY <1>6, <1>7, <1>8, <1>9, <1>10, <1>11 DEF Next

\* A refusal is earned: what IInv says of the only case that refuses a request
\* after the moment told.
LEMMA RefusalFromInvariant == IInv => RefusalIsEarned
<1> SUFFICES ASSUME IInv, now >= told, Incremented.isBlocked
             PROVE  /\ Len(grants) >= Limit
                    /\ now < grants[Len(grants) - Limit + 1] + Ttl
  BY DEF RefusalIsEarned
<1> USE Types
<1>1. ~Renews /\ ~Counts
  BY DEF Renews, Counts, Is
<1>2. ~Refuses
  <2>1. SUFFICES ASSUME Refuses PROVE FALSE
    OBVIOUS
  <2>2. told = bucket.blockExpiresAt /\ now < bucket.blockExpiresAt /\ bucket # Empty
    BY <2>1 DEF Refuses, IInv, BlockedBucket
  <2>3. QED
    BY <2>2
<1>3. /\ bucket # Empty /\ ~bucket.isBlocked
      /\ bucket.hits = Limit /\ now < bucket.expiresAt
  BY <1>1, <1>2, ScriptCases DEF Blocks
<1>4. Split(grants, bucket.expiresAt - Ttl, Limit)
  BY <1>3 DEF IInv, OpenBucket
<1>5. /\ Len(grants) \in Nat /\ DOMAIN grants = 1 .. Len(grants)
      /\ Limit <= Len(grants)
  BY <1>4 DEF Split
<1>6. Len(grants) - Limit + 1 \in DOMAIN grants
  BY <1>5
<1>7. bucket.expiresAt - Ttl <= grants[Len(grants) - Limit + 1]
  BY <1>4, <1>5, <1>6 DEF Split
<1>8. ASSUME NEW g \in Nat, bucket.expiresAt - Ttl <= g
      PROVE  now < g + Ttl
  BY <1>3, <1>8
<1>9. grants[Len(grants) - Limit + 1] \in Nat
  BY <1>6
<1>10. QED
  BY <1>5, <1>7, <1>8, <1>9

-----------------------------------------------------------------------------
(* The theorems.                                                           *)

\* The admitted requests always split into the window of the bucket, the ones
\* before it and the ones a window older still, whatever the requests, the
\* faults and the removals of the key.
THEOREM Invariance == Spec => []IInv
  BY InitIsSafe, NextIsSafe, PTL DEF Spec

\* Every variable keeps its type, and the counter never exceeds Limit + 1.
THEOREM TypeCorrect == Spec => []TypeOK
<1>1. IInv => TypeOK
  BY DEF IInv
<1>2. QED
  BY <1>1, Invariance, PTL

\* THROTTLER_INCREMENT_LUA never lets more than 2 * Limit requests through in
\* any stretch of time as long as a window.
THEOREM BurstsAreBounded == Spec => []BurstIsBounded
<1>1. IInv => BurstIsBounded
  BY DEF IInv
<1>2. QED
  BY <1>1, Invariance, PTL

\* A block lasts until the moment its caller was told: neither a new window
\* nor the removal of the key ends it early.
THEOREM BlocksHold == Spec => []BlockHolds
<1>1. IInv => BlockHolds
  <2>1. SUFFICES ASSUME IInv, now < told PROVE bucket # Empty /\ bucket.isBlocked
    BY DEF BlockHolds
  <2>2. ~(told <= now)
    BY <2>1, Types
  <2>3. QED
    BY <2>1, <2>2 DEF IInv, NoBucket, OpenBucket
<1>2. QED
  BY <1>1, Invariance, PTL

\* From that moment on a request is refused only when Limit requests were let
\* through less than a window before.
THEOREM RefusalsAreEarned == Spec => []RefusalIsEarned
  BY RefusalFromInvariant, Invariance, PTL
=============================================================================
