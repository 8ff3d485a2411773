---------------------------- MODULE ResolveCache ----------------------------
(***************************************************************************)
(* GET /v1/resolve/:tag of apps/api, for one tag: the Redis entry that     *)
(* answers it, the fills that write the entry, and everything that makes   *)
(* the entry out of date.  Entries of different tags share nothing, so one *)
(* tag stands for all.                                                     *)
(*                                                                         *)
(*   history  the tag account at the end of every finalized slot           *)
(*   row      the identity row in Postgres        indexer, PATCH, moderator *)
(*   cache    the value under the resolve key in Redis, Empty if none      *)
(*   flight   per API process, the one resolve in inFlightResolves         *)
(*   req      the resolve requests              ans   what they were told  *)
(*   flow     the indexer's pipelines: idle, or between write and DEL      *)
(*   patch    the PATCH identity requests                                  *)
(*   faults, changes   counted up to MaxFaults and MaxChanges              *)
(*                                                                         *)
(* The indexer is the environment: of it, this module knows what Mirror    *)
(* promises, which IndexerProofs shows of every step of the indexer.       *)
(*                                                                         *)
(* Three more variables say what nothing in the program stores:            *)
(*   tainted  the entry in Redis was written by a fill that a row write    *)
(*            overtook, or should have been deleted and was not            *)
(*   visible  every answer that was right at some moment so far            *)
(*   raced    the wallets not in visible, found on chain by lookups begun   *)
(*            while there was no row and answered after one was written    *)
(***************************************************************************)
EXTENDS Integers, Sequences

CONSTANTS
  Tag,         \* the tag
  Keys,        \* public keys: owners and wallets
  Names,       \* what a profile may be set to
  NoName,      \* the profile columns of a new row
  Missing,     \* no account, no row
  Empty,       \* no entry under the key
  Negative,    \* the negative entry, and the 404 answer
  Error,       \* the answer 500
  None,        \* no flight, no answer yet
  Instances,   \* API processes
  Requests, Flows, Patches,
  MaxFaults,   \* bound on failed calls
  MaxChanges   \* bound on changes of the account, the profile and the status

ASSUME CacheConstants == MaxFaults \in Nat /\ MaxChanges \in Nat

Account  == [owner : Keys, wallet : Keys]
Row      == [owner : Keys, wallet : Keys, slot : Nat, name : Names \cup {NoName},
             status : {"active", "blocked"}]
Response == [wallet : Keys, name : Names \cup {NoName}]
Answer   == Response \cup {Negative}

ASSUME Sentinels ==
  /\ Missing \notin Row /\ Missing \notin Account
  /\ Missing \notin [owner : Keys, wallet : Keys, slot : Nat, status : {"active", "blocked"}]
  /\ Empty \notin Answer
  /\ None \notin [at : {"read", "lookup", "set"}, val : Answer, overtaken : BOOLEAN]
  /\ Response \cap {Negative, Error, None} = {}
  /\ Instances \cap {"idle", "missed"} = {}

VARIABLES history, row, cache, flight, req, ans, flow, patch,
          faults, changes, tainted, visible, raced

apiVars   == <<flight, req, ans>>
ghostVars == <<tainted, visible, raced>>
vars == <<history, row, cache, apiVars, flow, patch, faults, changes, ghostVars>>

\* The finalized account, and the mirror of the tag: the columns of the row
\* that come from the chain.  A tag that fails the gate is one that the indexer
\* happens to block whenever it writes it.
account == history[Len(history)]
M == INSTANCE Mirror WITH
  Tags    <- {Tag},
  Profane <- {},
  history <- [s \in 1 .. Len(history) |-> [t \in {Tag} |-> history[s]]],
  rows    <- [t \in {Tag} |->
                IF row = Missing THEN Missing
                ELSE [owner |-> row.owner, wallet |-> row.wallet,
                      slot |-> row.slot, status |-> row.status]]

Flight == [at : {"read", "lookup", "set"}, val : Answer, overtaken : BOOLEAN]

\* The body GET resolve builds from a row, and what it answers for a row:
\* a blocked row is not found.
ResponseOf(r) == [wallet |-> r.wallet, name |-> r.name]
AnswerFor(r) == IF r.status = "active" THEN ResponseOf(r) ELSE Negative

\* The identity SolanaChainFallback makes of an account has no profile.
FallbackResponse(a) == [wallet |-> a.wallet, name |-> NoName]

\* The right answers while r is the row and a the account: what the row
\* says, and without a row what the chain says.  A blocked row is a row.
RightAnswers(r, a) ==
  IF r # Missing THEN {AnswerFor(r)}
  ELSE {Negative} \cup (IF a # Missing THEN {FallbackResponse(a)} ELSE {})

Init ==
  /\ history = <<Missing>>
  /\ row = Missing
  /\ cache = Empty
  /\ flight = [i \in Instances |-> None]
  /\ req = [r \in Requests |-> "idle"]
  /\ ans = [r \in Requests |-> None]
  /\ flow = [f \in Flows |-> "idle"]
  /\ patch = [p \in Patches |-> "idle"]
  /\ faults = 0
  /\ changes = 0
  /\ tainted = FALSE
  /\ visible = {Negative}
  /\ raced = {}

-----------------------------------------------------------------------------
(* Bounds, and what a write of the row does to the history variables.      *)

Fault  == faults < MaxFaults /\ faults' = faults + 1
Change == changes < MaxChanges /\ changes' = changes + 1

\* Every fill that has read the row already is overtaken by the write.
Overtake ==
  flight' = [i \in Instances |->
    IF flight[i] # None /\ flight[i].at # "read"
      THEN [flight[i] EXCEPT !.overtaken = TRUE] ELSE flight[i]]

WriteRow(r) ==
  /\ row' = r
  /\ visible' = visible \cup RightAnswers(r, account)
  /\ Overtake
  /\ UNCHANGED <<req, ans, raced>>

\* DEL of the key, which fails softly in both services.
DeleteKey ==
  \/ cache' = Empty /\ tainted' = FALSE /\ UNCHANGED faults
  \/ Fault /\ tainted' = (cache # Empty) /\ UNCHANGED cache

-----------------------------------------------------------------------------
(* resolve(): look into Redis, then join or start the process's flight.    *)
(* A client that has its answer may ask again; ans keeps the last answer.  *)

\* cache.get: a failure counts as a miss.
GetCache(r) ==
  /\ req[r] = "idle"
  /\ \/ /\ cache # Empty
        /\ ans' = [ans EXCEPT ![r] = cache]
        /\ UNCHANGED <<req, faults>>
     \/ /\ IF cache = Empty THEN UNCHANGED faults ELSE Fault
        /\ req' = [req EXCEPT ![r] = "missed"]
        /\ UNCHANGED ans
  /\ UNCHANGED <<history, row, cache, flight, flow, patch, changes, ghostVars>>

\* The check of inFlightResolves and the start of the fill are synchronous.
\* req[r] becomes the process whose flight the request waits for.
JoinOrStart(r, i) ==
  /\ req[r] = "missed"
  /\ req' = [req EXCEPT ![r] = i]
  /\ flight' = IF flight[i] # None THEN flight
       ELSE [flight EXCEPT ![i] = [at |-> "read", val |-> Negative, overtaken |-> FALSE]]
  /\ UNCHANGED <<history, row, cache, ans, flow, patch, faults, changes, ghostVars>>

-----------------------------------------------------------------------------
(* resolveUncached().                                                      *)

\* Mutation: a row that is not active sends the fill to the chain.
ReadMirror_BlockedFallsBack(i) ==
  /\ flight[i] # None /\ flight[i].at = "read"
  /\ flight' = [flight EXCEPT ![i] =
       IF row # Missing /\ row.status = "active"
         THEN [@ EXCEPT !.at = "set", !.val = AnswerFor(row)]
         ELSE [@ EXCEPT !.at = "lookup"]]
  /\ UNCHANGED <<history, row, cache, req, ans, flow, patch, faults, changes,
                 ghostVars>>

ReadMirror(i) ==
  /\ flight[i] # None /\ flight[i].at = "read"
  /\ flight' = [flight EXCEPT ![i] =
       IF row = Missing THEN [@ EXCEPT !.at = "lookup"]
       ELSE [@ EXCEPT !.at = "set", !.val = AnswerFor(row)]]
  /\ UNCHANGED <<history, row, cache, req, ans, flow, patch, faults, changes,
                 ghostVars>>

\* Only a tag without a row is looked up on chain; an RPC error counts as
\* "not found".  Nothing looks at the row again when the answer has come.
LookupChain(i) ==
  /\ flight[i] # None /\ flight[i].at = "lookup"
  /\ \/ /\ flight' = [flight EXCEPT ![i] = [@ EXCEPT !.at = "set",
             !.val = IF account = Missing THEN Negative ELSE FallbackResponse(account)]]
        /\ raced' = IF account # Missing /\ flight[i].overtaken
                      THEN raced \cup ({FallbackResponse(account)} \ visible) ELSE raced
        /\ UNCHANGED faults
     \/ /\ Fault
        /\ flight' = [flight EXCEPT ![i] = [@ EXCEPT !.at = "set", !.val = Negative]]
        /\ UNCHANGED raced
  /\ UNCHANGED <<history, row, cache, req, ans, flow, patch, changes, tainted,
                 visible>>

\* The promise settles: it leaves inFlightResolves, and everybody who waits
\* for it gets the same answer.
Settle(i, answer) ==
  /\ flight' = [flight EXCEPT ![i] = None]
  /\ req' = [r \in Requests |-> IF req[r] = i THEN "idle" ELSE req[r]]
  /\ ans' = [r \in Requests |-> IF req[r] = i THEN answer ELSE ans[r]]

\* cache.set: a failure leaves the key as it was; one that Redis carries out all
\* the same is like a success, for nobody is told of it.
SetCache(i) ==
  /\ flight[i] # None /\ flight[i].at = "set"
  /\ \/ cache' = flight[i].val /\ tainted' = flight[i].overtaken /\ UNCHANGED faults
     \/ Fault /\ UNCHANGED <<cache, tainted>>
  /\ Settle(i, flight[i].val)
  /\ UNCHANGED <<history, row, flow, patch, changes, visible, raced>>

\* Mutations: the failure is cached; the failed flight is never removed.
QueryFails_CachesError(i) ==
  /\ flight[i] # None /\ flight[i].at = "read"
  /\ Fault
  /\ Settle(i, Error)
  /\ cache' = Error
  /\ UNCHANGED <<history, row, flow, patch, changes, ghostVars>>

QueryFails_KeepsFlight(i) ==
  /\ flight[i] # None /\ flight[i].at = "read"
  /\ Fault
  /\ flight' = [flight EXCEPT ![i].at = "failed"]
  /\ UNCHANGED <<history, row, cache, req, ans, flow, patch, changes, ghostVars>>

\* The query of the mirror throws: nothing is cached.
QueryFails(i) ==
  /\ flight[i] # None /\ flight[i].at = "read"
  /\ Fault
  /\ Settle(i, Error)
  /\ UNCHANGED <<history, row, cache, flow, patch, changes, ghostVars>>

\* The process dies with its inFlightResolves, and the connections of those who
\* wait for a flight of it.
ProcessDies(i) ==
  /\ flight[i] # None
  /\ Fault
  /\ Settle(i, Error)
  /\ UNCHANGED <<history, row, cache, flow, patch, changes, ghostVars>>

\* Mutation: positive entries are stored without a TTL.
HasTtl_OnlyNegative(entry) == entry = Negative

\* RedisCacheReader.set stores every entry with EX: one TTL for positive
\* entries, a shorter one for negative ones.
HasTtl(entry) == entry # Empty

\* External: Redis drops the key when its TTL is over.
Expire ==
  /\ HasTtl(cache)
  /\ cache' = Empty
  /\ tainted' = FALSE
  /\ UNCHANGED <<history, row, apiVars, flow, patch, faults, changes, visible, raced>>

-----------------------------------------------------------------------------
(* The writers.                                                            *)

\* External: a slot with a transaction of this tag is finalized; the others
\* change nothing here.
ChainMoves ==
  /\ Change
  /\ \E a \in Account \ {account} :
       /\ history' = Append(history, a)
       /\ visible' = visible \cup RightAnswers(row, a)
  /\ UNCHANGED <<row, cache, apiVars, flow, patch, faults, tainted, raced>>

\* applyChange, as any step of the abstract mirror: the row moves to a slot
\* that is not older, however late it is observed, and may become blocked.  The
\* profile columns are left alone.
IndexerWrites(f) ==
  /\ flow[f] = "idle"
  /\ \E s \in 1 .. Len(history), status \in M!Status :
       /\ history[s] # Missing
       /\ row # Missing => row.slot <= s
       /\ M!MayBecome(Tag, status)
       /\ WriteRow([owner |-> history[s].owner, wallet |-> history[s].wallet, slot |-> s,
                    name |-> IF row = Missing THEN NoName ELSE row.name,
                    status |-> status])
  /\ flow' = [flow EXCEPT ![f] = "del"]
  /\ UNCHANGED <<history, cache, patch, faults, changes, tainted>>

IndexerDeletes(f) ==
  /\ flow[f] = "del"
  /\ DeleteKey
  /\ flow' = [flow EXCEPT ![f] = "idle"]
  /\ UNCHANGED <<history, row, apiVars, patch, changes, visible, raced>>

\* updateIdentity: the fresh read and the ownership check.  patch[p] becomes
\* the owner the check accepted.
PatchChecks(p) ==
  /\ patch[p] = "idle"
  /\ row # Missing /\ row.status = "active"
  /\ patch' = [patch EXCEPT ![p] = row.owner]
  /\ UNCHANGED <<history, row, cache, apiVars, flow, faults, changes, ghostVars>>

\* Mutation: the write is not followed by a DEL.
PatchWrites_NoDelete(p) ==
  /\ patch[p] \in Keys /\ row # Missing
  /\ Change
  /\ \E n \in Names : WriteRow([row EXCEPT !.name = n])
  /\ patch' = [patch EXCEPT ![p] = "done"]
  /\ UNCHANGED <<history, cache, flow, faults, tainted>>

\* Mutation: the update spreads the row that the check has read, active.
PatchWrites_SpreadsRow(p) ==
  /\ patch[p] \in Keys /\ row # Missing
  /\ Change
  /\ \E n \in Names : WriteRow([row EXCEPT !.name = n, !.status = "active"])
  /\ patch' = [patch EXCEPT ![p] = "del"]
  /\ UNCHANGED <<history, cache, flow, faults, tainted>>

\* The update names the tag only; without a row it would throw.
PatchWrites(p) ==
  /\ patch[p] \in Keys /\ row # Missing
  /\ Change
  /\ \E n \in Names : WriteRow([row EXCEPT !.name = n])
  /\ patch' = [patch EXCEPT ![p] = "del"]
  /\ UNCHANGED <<history, cache, flow, faults, tainted>>

PatchDeletes(p) ==
  /\ patch[p] = "del"
  /\ DeleteKey
  /\ patch' = [patch EXCEPT ![p] = "done"]
  /\ UNCHANGED <<history, row, apiVars, flow, changes, visible, raced>>

\* External: a moderator blocks the row by hand; nothing deletes the key.
ModeratorBlocks ==
  /\ Change
  /\ row # Missing /\ row.status = "active"
  /\ WriteRow([row EXCEPT !.status = "blocked"])
  /\ tainted' = (cache # Empty)
  /\ UNCHANGED <<history, cache, flow, patch, faults>>

-----------------------------------------------------------------------------
Next ==
  \/ \E r \in Requests : GetCache(r) \/ \E i \in Instances : JoinOrStart(r, i)
  \/ \E i \in Instances :
       \/ ReadMirror(i) \/ LookupChain(i) \/ SetCache(i) \/ QueryFails(i) \/ ProcessDies(i)
  \/ \E f \in Flows : IndexerWrites(f) \/ IndexerDeletes(f)
  \/ \E p \in Patches : PatchChecks(p) \/ PatchWrites(p) \/ PatchDeletes(p)
  \/ Expire \/ ChainMoves \/ ModeratorBlocks

Spec == Init /\ [][Next]_vars

\* Redis keeps its TTLs, and both services answer the calls they have begun.
\* Nothing is assumed of clients, the chain, the moderator, or how often the
\* indexer writes.
Fairness ==
  /\ WF_vars(Expire)
  /\ \A r \in Requests : WF_vars(\E i \in Instances : JoinOrStart(r, i))
  /\ \A i \in Instances :
       /\ WF_vars(ReadMirror(i)) /\ WF_vars(LookupChain(i))
       /\ WF_vars(SetCache(i))
  /\ \A f \in Flows : WF_vars(IndexerDeletes(f))
  /\ \A p \in Patches : WF_vars(PatchDeletes(p))

FairSpec == Spec /\ Fairness

-----------------------------------------------------------------------------
(* Safety.                                                                 *)

\* Every variable has its type.
TypeOK ==
  /\ history \in Seq(Account \cup {Missing}) /\ history # <<>>
  /\ row \in Row \cup {Missing}
  /\ cache \in Answer \cup {Empty}
  /\ flight \in [Instances -> Flight \cup {None}]
  /\ req \in [Requests -> {"idle", "missed"} \cup Instances]
  /\ ans \in [Requests -> Answer \cup {Error, None}]
  /\ flow \in [Flows -> {"idle", "del"}]
  /\ patch \in [Patches -> {"idle", "del", "done"} \cup Keys]
  /\ faults \in 0 .. MaxFaults
  /\ changes \in 0 .. MaxChanges
  /\ tainted \in BOOLEAN
  /\ visible \subseteq Answer
  /\ raced \subseteq Answer

DeletePending == (\E f \in Flows : flow[f] = "del") \/ (\E p \in Patches : patch[p] = "del")

\* What invalidation does guarantee: the entry of a mirrored tag is the answer
\* its row gives, blocked rows included, except while a DEL is on its way,
\* after a DEL failed or was never due (moderation by hand), and when a fill
\* stored what it had read before a write
\* (tags.service.ts resolveUncached against apply-change.ts and updateIdentity).
CacheAgrees ==
  (cache # Empty /\ row # Missing /\ ~tainted /\ ~DeletePending)
    => cache = AnswerFor(row)

\* A fill no write overtook holds what the mirror still says.
FlightsAgree ==
  \A i \in Instances : (flight[i] # None /\ ~flight[i].overtaken) =>
    /\ flight[i].at = "lookup" => row = Missing
    /\ (flight[i].at = "set" /\ row # Missing) => flight[i].val = AnswerFor(row)

\* The row is what its slot left of the account, whoever wrote it last.
RowIsSnapshot ==
  row # Missing =>
    /\ row.slot \in 1 .. Len(history)
    /\ history[row.slot] = [owner |-> row.owner, wallet |-> row.wallet]

\* A request that waits, waits for a flight that is still under way: a flight
\* that settles, whichever way, takes everybody along that joined it (resolve:
\* finally).  Without it no fairness would ever answer the request.
WaitersHaveFlights ==
  \A r \in Requests : req[r] \in Instances => flight[req[r]] # None

\* The inductive invariant behind CacheAgrees and MirrorKept.
IInv ==
  /\ TypeOK
  /\ RowIsSnapshot
  /\ CacheAgrees
  /\ FlightsAgree
  /\ WaitersHaveFlights

\* A wallet that a finalized slot gave the tag.
WasFinalized(wallet) ==
  \E s \in 1 .. Len(history) : history[s] # Missing /\ history[s].wallet = wallet

\* What anybody is told was right at some moment (not the wallet of one row
\* with the profile of another, and nothing of a row that was blocked when the
\* fill read it), however fills, writes, joins and failures interleave.  The one
\* exception is named: the wallet found on chain by a lookup that began without
\* a row and was overtaken by one; it may be that of a blocked tag, as the run
\* cache_blocked shows.  Every wallet anybody is told is one that the tag had at
\* the end of some finalized slot, however late indexer, fill and entry are.
AnswersWereVisible ==
  \A r \in Requests :
    /\ ans[r] \in visible \cup raced \cup {None, Error}
    /\ ans[r] \in Response => WasFinalized(ans[r].wallet)

\* Two services write the row.  None of the steps of this one, and no
\* moderator, undoes what the indexer is to keep of it: the columns of one
\* finalized slot, moving forward, and never unblocked (updateIdentity writes
\* the profile columns only).
MirrorKept == M!Spec

-----------------------------------------------------------------------------
(* Liveness.                                                               *)

\* The TTL is the backstop: once account, profile and status come to rest, the
\* entry agrees with the row for good, whatever failed or raced before.
EventuallyAgrees ==
  <>[](cache # Empty /\ row # Missing => cache = AnswerFor(row))

\* Nobody who missed the cache waits forever, also when the flight fails that
\* the request joined.
EveryRequestIsAnswered ==
  \A r \in Requests : req[r] # "idle" ~> req[r] = "idle"

-----------------------------------------------------------------------------
(* What the comments of the code say, and the code does not do.            *)

\* tags.service.ts:208-211: the service re-verifies the ownership against a
\* fresh row for what it is about to write, so the writer owns the row.
PatchedByOwner ==
  [][\A p \in Patches : PatchWrites(p) => row.owner = patch[p]]_vars

\* tags.service.ts:108-113: of a tag whose row is blocked the chain fallback must
\* never be consulted, which would silently defeat moderation; and
\* solana-chain-fallback.ts:37-39 says that it never is.  So no lookup finds
\* a wallet while the row is blocked.
BlockedIsNotLookedUp ==
  [][\A i \in Instances :
       LookupChain(i) /\ row # Missing /\ row.status = "blocked"
         => flight'[i].val = Negative]_vars
=============================================================================
