------------------------------ MODULE Throttler ------------------------------
(***************************************************************************)
(* Rate limiting in apps/api: one bucket of RedisThrottlerStorage.  Every  *)
(* request runs THROTTLER_INCREMENT_LUA on the bucket, which is atomic in  *)
(* Redis, so the requests of all API processes are one sequence of steps.  *)
(* Time is Redis's own clock in whole seconds.                             *)
(*                                                                         *)
(*   now           redis.call('TIME')[1]                                   *)
(*   bucket        the hash under the key, Empty if there is no key        *)
(*   keyExpiresAt  when Redis may remove the key                           *)
(*   answer        what ThrottlerGuard was told last                       *)
(*   faults        failed calls so far, bounded by MaxFaults               *)
(*                                                                         *)
(* History variables:                                                      *)
(*   grants        when the script let a request through, in order         *)
(*   told          when the last block the script spoke of is over         *)
(***************************************************************************)
EXTENDS Integers, Sequences

CONSTANTS
  Ttl, BlockDuration,   \* in seconds
  Limit,
  Empty,                \* no key
  MaxTime,              \* bound of the clock
  MaxFaults             \* bound on failed calls

\* Limits and durations are positive numbers of seconds.  No throttler of
\* apps/api sets a block duration, and ThrottlerGuard then takes the ttl.
ASSUME ThrottlerConstants ==
  /\ Ttl \in Nat \ {0} /\ Limit \in Nat \ {0}
  /\ BlockDuration \in Nat /\ BlockDuration >= Ttl
  /\ MaxTime \in Nat /\ MaxFaults \in Nat

Bucket == [hits : Nat, expiresAt : Nat, blockExpiresAt : Nat, isBlocked : BOOLEAN]

ASSUME EmptyIsNoBucket == Empty \notin Bucket

VARIABLES now, bucket, keyExpiresAt, answer, faults, grants, told

keyVars   == <<bucket, keyExpiresAt>>
ghostVars == <<grants, told>>
vars      == <<now, keyVars, answer, faults, ghostVars>>

\* The answer when Redis is unreachable: not blocked, no hits.
FailOpen == [totalHits |-> 0, timeToExpire |-> Ttl, isBlocked |-> FALSE,
             timeToBlockExpire |-> 0]

Init ==
  /\ now = 1
  /\ bucket = Empty
  /\ keyExpiresAt = 0
  /\ answer = FailOpen
  /\ faults = 0
  /\ grants = <<>>
  /\ told = 0

-----------------------------------------------------------------------------
(* The script, one operator per statement that changes the bucket.         *)

Fresh == [hits |-> 0, expiresAt |-> now + Ttl, blockExpiresAt |-> 0, isBlocked |-> FALSE]

Stored == IF bucket = Empty THEN Fresh ELSE bucket

\* Mutation: the end of a block leaves the hits as they are.
EndBlock_KeepsHits(b) ==
  IF b.isBlocked /\ b.blockExpiresAt <= now
    THEN [b EXCEPT !.isBlocked = FALSE, !.expiresAt = now + Ttl] ELSE b

EndBlock(b) ==
  IF b.isBlocked /\ b.blockExpiresAt <= now
    THEN [b EXCEPT !.isBlocked = FALSE, !.hits = 0, !.expiresAt = now + Ttl] ELSE b

\* Mutation: a window ends one second early.
EndWindow_Early(b) ==
  IF ~b.isBlocked /\ b.expiresAt <= now + 1
    THEN [b EXCEPT !.hits = 0, !.expiresAt = now + Ttl] ELSE b

EndWindow(b) ==
  IF ~b.isBlocked /\ b.expiresAt <= now
    THEN [b EXCEPT !.hits = 0, !.expiresAt = now + Ttl] ELSE b

\* Mutation: refused requests are counted too.
CountHit_Always(b) == [b EXCEPT !.hits = @ + 1]

CountHit(b) == IF b.isBlocked THEN b ELSE [b EXCEPT !.hits = @ + 1]

StartBlock(b) ==
  IF b.hits > Limit /\ ~b.isBlocked
    THEN [b EXCEPT !.isBlocked = TRUE, !.blockExpiresAt = now + BlockDuration] ELSE b

Incremented == StartBlock(CountHit(EndWindow(EndBlock(Stored))))

\* Mutation: the key lives as long as its window.
ExpireAt_Window(b) == b.expiresAt

ExpireAt(b) == IF b.blockExpiresAt > b.expiresAt THEN b.blockExpiresAt ELSE b.expiresAt

AnswerOf(b) ==
  [totalHits |-> b.hits, timeToExpire |-> b.expiresAt - now, isBlocked |-> b.isBlocked,
   timeToBlockExpire |-> IF b.blockExpiresAt < now THEN 0 ELSE b.blockExpiresAt - now]

RunScript ==
  /\ bucket' = Incremented
  /\ keyExpiresAt' = IF ExpireAt(Incremented) > now THEN ExpireAt(Incremented) ELSE keyExpiresAt
  /\ grants' = IF Incremented.isBlocked THEN grants ELSE Append(grants, now)
  /\ told' = IF Incremented.isBlocked THEN Incremented.blockExpiresAt ELSE told

-----------------------------------------------------------------------------
Fault == faults < MaxFaults /\ faults' = faults + 1

\* increment(): the request passes unless the answer says isBlocked.
Increment ==
  /\ RunScript
  /\ answer' = AnswerOf(Incremented)
  /\ UNCHANGED <<now, faults>>

\* The script has run, but the command timed out: the storage fails open.
AnswerLost ==
  /\ Fault
  /\ RunScript
  /\ answer' = FailOpen
  /\ UNCHANGED now

Unreachable ==
  /\ Fault
  /\ answer' = FailOpen
  /\ UNCHANGED <<now, keyVars, ghostVars>>

\* External: Redis removes the key once the time of EXPIRE is over, which is
\* within the second after keyExpiresAt because EXPIRE counts from the
\* millisecond of the call.
KeyExpires ==
  /\ bucket # Empty /\ keyExpiresAt <= now
  /\ bucket' = Empty
  /\ UNCHANGED <<now, keyExpiresAt, answer, faults, ghostVars>>

Tick ==
  /\ now < MaxTime
  /\ now' = now + 1
  /\ UNCHANGED <<keyVars, answer, faults, ghostVars>>

Next == Increment \/ AnswerLost \/ Unreachable \/ KeyExpires \/ Tick

Spec == Init /\ [][Next]_vars

-----------------------------------------------------------------------------
(* Properties.                                                             *)

\* Every variable has its type; the counter of a blocked bucket stays one
\* above the limit, however many requests are refused.
TypeOK ==
  /\ now \in Nat
  /\ bucket \in Bucket \cup {Empty}
  /\ bucket # Empty => bucket.hits \in 1 .. Limit + 1
  /\ keyExpiresAt \in Nat
  /\ answer \in [totalHits : 0 .. Limit + 1, timeToExpire : Int, isBlocked : BOOLEAN,
                 timeToBlockExpire : Nat]
  /\ faults \in 0 .. MaxFaults
  /\ grants \in Seq(Nat)
  /\ told \in Nat

\* Windows are fixed, so a burst may straddle two of them, but never more: of
\* any 2 * Limit + 1 requests the script lets through, the first and the last
\* are more than a window apart, across resets, blocks and removed keys.
BurstIsBounded ==
  \A i \in DOMAIN grants : i + 2 * Limit \in DOMAIN grants =>
    grants[i + 2 * Limit] > grants[i] + Ttl

\* A block holds until the moment the refused caller was told, although the
\* window it belongs to ends earlier and the key carries an expiry.
BlockHolds == now < told => bucket # Empty /\ bucket.isBlocked

\* Whoever comes at that moment or later is refused only when Limit requests
\* were let through less than a window ago: being refused never prolongs a
\* block, and nothing of an old window or block is held against a new one.
RefusalIsEarned ==
  (now >= told /\ Incremented.isBlocked) =>
    /\ Len(grants) >= Limit
    /\ now < grants[Len(grants) - Limit + 1] + Ttl

(* The inductive invariant.                                                *)

\* The last n of the grants g belong to a window that starts at s; the ones
\* before were over when it started, and all but Limit of those for a window
\* longer.
Split(g, s, n) ==
  /\ n <= Len(g)
  /\ \A j \in DOMAIN g :
       /\ j > Len(g) - n => s <= g[j] /\ g[j] < s + Ttl
       /\ j <= Len(g) - n => g[j] < s
       /\ j <= Len(g) - n - Limit => g[j] < s - Ttl

OpenBucket ==
  (bucket # Empty /\ ~bucket.isBlocked) =>
    /\ bucket.hits <= Limit
    /\ bucket.expiresAt <= now + Ttl
    /\ Split(grants, bucket.expiresAt - Ttl, bucket.hits)
    /\ told <= now

BlockedBucket ==
  (bucket # Empty /\ bucket.isBlocked) =>
    /\ bucket.hits = Limit + 1
    /\ Split(grants, bucket.expiresAt - Ttl, Limit)
    /\ bucket.blockExpiresAt >= bucket.expiresAt
    /\ told = bucket.blockExpiresAt

\* Without a key, whatever the script will do starts a new window.
NoBucket == bucket = Empty => Split(grants, now, 0) /\ told <= now

KeyOutlivesBucket ==
  bucket # Empty =>
    /\ keyExpiresAt >= bucket.expiresAt
    /\ keyExpiresAt >= bucket.blockExpiresAt

IInv ==
  /\ TypeOK
  /\ BurstIsBounded
  /\ OpenBucket
  /\ BlockedBucket
  /\ NoBucket
  /\ KeyOutlivesBucket
=============================================================================
