# Tagwise identity protocol: TLA+ specifications and proofs

This directory holds the formal models of the Tagwise identity protocol: a
Solana program that maps tags to owners and payment wallets, a worker that
mirrors the finalized accounts into Postgres, an API that answers from that
mirror through a Redis cache, an SDK, and two web sites. TLC checks the models on
small instances; TLAPS proves the main safety results for every instance.
`PROJECT.json` maps every definition to the lines it translates, lists the runs, a
mutation that each property detects, the hazards of the code and the findings.

## 1. Inventory

| part | state it keeps | operations |
| --- | --- | --- |
| `programs/tip_registry` | one PDA account per tag: owner, wallet | `register_tag`, `update_wallet`, `transfer_ownership`, `validate_canonical_tag` |
| `apps/indexer` | rows and cursor in Postgres; in memory the subscription, the observation each flow holds, the accounts left in a sweep | `reconcile`, `runLiveSubscription`, cron, `processAccountObservation`, `applyChange`, `advanceCursor`, cache DEL |
| `apps/indexer` moderation backfill | in memory the rows left to look at | list, check, conditional update, DEL; a process of its own |
| `apps/api` resolve | the resolve entry in Redis, `inFlightResolves` per process | `resolve`, `resolveUncached` |
| `apps/api` identity, search, availability, QR, payment link | none | reads of the mirror, normalization of what was typed, errors |
| `apps/api` PATCH | profile columns of a row | `TagOwnershipGuard`, DTO, `updateIdentity` |
| `apps/api` registration, wallet update | none (builds unsigned transactions from reads) | naming gate, blockhash, balance check, build |
| `apps/api` throttler | one hash per bucket in Redis | `RedisThrottlerStorage.increment`, the Lua script |
| `apps/api` sign-in | one nonce per challenge in Redis, JWT (stateless) | `challenge`, `verify`, `JwtAuthGuard` |
| `packages/core` | none | normalize, seeds, account codec, reserved names |
| `packages/moderation` | none | gate, profanity, leetspeak |
| `packages/sdk` | the session (token, pubkey) | `connect`, `verify`, `setSession`, `disconnect`, reads, writes, the chain read |
| `packages/db` | the schema: unique tag, one cursor row | |
| landing page and documentation site | what their components hold in `useState` and `useRef` | playground, copy buttons, navigation, diagram |
| configuration, health, OpenAPI, deployment | none | |

How they interact:

- A wallet sends a transaction to the program. The RPC node shows the indexer
  finalized accounts, by snapshot (`getProgramAccounts` with a context slot) and
  by account notifications. Several transactions of one slot are visible only as
  the last state.
- The indexer writes a row with a slot guard, then deletes the resolve key,
  then moves its cursor: three calls to two systems, not one transaction.
- The API reads the key, or reads the row (and the chain when there is no row) and
  stores what it read. Two services therefore write and delete one key with
  nothing but a TTL to order them.
- The API judges a registration by a mirror that is behind the chain, builds a
  message, and forgets it. Whoever signs it, when it lands, and what has become of
  the tag by then, is between the wallets and the program.
- A moderator changes rows by hand, the backfill blocks rows, and
  `PATCH /v1/identity/:tag` changes profile columns of the rows the indexer writes.
- Every text a user types is normalized by the SDK, by the API once more, judged by
  the naming gate, and judged again by the program, which only knows bytes.

What is hard in this system, and where a unit test seldom looks:

- one indexer process runs the subscription and any number of overlapping cron
  sweeps; they interleave at every await, and all of them push through the same
  non-atomic pipeline (`updateMany`, `findUnique`, `create`, DEL, cursor);
- notifications are lost at a disconnect, and those that arrive between a
  snapshot and the first read of the stream are delivered to nobody;
- a crash can fall between the row, the key and the cursor;
- a fill of the cache reads, awaits, and writes; a write and its DEL can fall in
  between; one flight is shared by several requests, fails for all of them, and
  must leave the map;
- every Redis call of both services may fail, and all but the nonce store
  swallow it;
- a window, a block and the expiry of the key that stores both run on the same
  clock but end at different times;
- a registration is checked now and lands later, paid by somebody else;
- the gate has to see through digits, underscores and repeated letters with a cap on
  how many readings it tries;
- six reads filter blocked rows, each for itself, and search ranks a bounded
  sample;
- answers and timers of the sites come back in any order.

What makes each part correct: the mirror holds for every tag exactly the account of one
finalized slot, moves forward only, and reaches the final state; the cursor is backed
by a row; the key of a written row is deleted in the end; the cache entry
agrees with the row except in the cases section 5 names; no request is told something
that was never true, and every request is told something; the limiter bounds
bursts and never blocks anybody longer than it said; a challenge is used once; a tag
has one owner, appears as its owner wished it, and changes only by its owner's signature;
normalization off chain accepts what the chain accepts; the codec reads what the
program writes and nothing else; a blocked tag looks like none; a backfill that says it
is done is done.

## 2. Modules

| module | models | what it keeps |
| --- | --- | --- |
| `TagAccounts` | the data all parts share: tags, keys, accounts | |
| `TagRegistry` | the program as seen from outside, and the finalization of slots | the three instructions with `init` and `has_one`, the two-instruction registration |
| `Mirror` | abstract specification of the mirror | |
| `Indexer` | `apps/indexer` on top of `TagRegistry` | every await of sweep, subscription, `applyChange`, DEL and cursor is a step of its own |
| `ResolveCache` | `resolve`, `resolveUncached`, `updateIdentity`, and the other writers of row and key | every await is a step; the check of `inFlightResolves` and the start of a flight are one |
| `Registration` | both requests that build transactions, composed with `TagRegistry` and an instance of `Mirror` | every await, every refusal in its order, signatures, fees, rent, expiry |
| `TagText` | `normalizeTag`, `validate_canonical_tag`, the naming gate's moderation | pure operators over texts |
| `AccountCodec` | the bytes of a tag account: what the program writes, `decodeTagAccount`, `resolveOnChain` of the SDK | pure operators over buffers; extends `TagText` |
| `Directory` | the reads of API and SDK, PATCH, the moderation backfill and the writers beside them; extends `AccountCodec` | reads are functions of the table and the text; PATCH and backfill step at every await |
| `Throttler` | the Lua script, its storage and the clock | one operator per statement of the script, one action per call |
| `SignIn` | `AuthService`, `RedisNonceStore`, `JwtAuthGuard` and the session of `TipClient` | one step per await of `connect`, `verify` and `take` |
| `Site` | playground, copy buttons, navigation bar, diagram component | one action per handler, timer and settled promise |
| `IndexerProofs`, `ResolveCacheProofs`, `RegistrationProofs`, `AccountCodecProofs`, `DirectoryProofs`, `ThrottlerProofs`, `SignInProofs`, `SiteProofs` | theorems about the module of that name | |
| `MCIndexer`, `MCResolveCache`, `MCRegistration`, `MCDirectory`, `MCSite` | instances for TLC: symmetry, alphabets, requests | |

### Indexer

`step[w]` is where flow `w` is: `Main` is `main()` with the subscription loop, the
elements of `Crons` are sweeps of the scheduler. `obs[w]` is the observation in
hand, `todo[w]` the accounts the sweep has not looked at, `snap[w]` the slot of its
snapshot (the local `slot` of `reconcile`), 0 when there is no sweep. `UpdateMany`,
`FindNothing`/`SkipStale` and `CreateRow` are the three database calls of
`applyChange`; `Invalidate` the DEL; `AdvanceCursor`, `FindCursor` and
`CreateCursor` those of `advanceCursor`. `Throw` is what an exception does in each
kind of flow: it ends a cron sweep, makes the subscription reconnect, and makes
a startup backfill end `main()`. `PublishSlot` finalizes a slot and hands the
changed accounts to an open subscription; before the loop reads the stream, any of
them may be dropped. `ConnectionLost` loses any part of what was under way.
`Crash` stops the process between any two steps and starts it again; a graceful
shutdown stops at one of these places too. `Outage` is a call that fails before it has any effect,
`AnswerLost` one that commits and whose answer is lost: the flow throws after the row is written, and
no DEL follows, or after the cursor has moved.

Choices: `COMMITMENT` is `finalized`, its default, so a slot never changes
(`history`); accounts the program wrote pass `decodeAndVerify`, so its error paths
do not occur; the order in which a sweep visits accounts and the stream hands over
notifications is left open; status is `active` or `blocked`, and `Profane` is
the set of tags the moderation gate blocks. `unflushed` records for which rows no DEL
has happened since the last write: it is state of Redis seen from the indexer.

### ResolveCache

One tag, because keys of different tags share nothing. `flight[i]` is the
entry of `inFlightResolves` in API process `i`, with the read it has done. A request
that joins a flight waits for the process it is in; `ProcessDies` ends a process with
its flights. `history` is the account of the tag slot by slot, where only slots that
change it count. `IndexerWrites` is any write that `Mirror` allows for the tag: a
finalized slot not older than the row's, however late it is observed, with any status
a mirror may give it; `IndexerDeletes` is the DEL after it. What is left out, how the
indexer comes to such a write, is `Indexer`'s business, and its theorem
`EachTagIsMirrored` says that it never comes to another.
`ans` and `visible` hold the answers and what was right at any moment; `raced` holds the wallets
that lookups found on the chain although a row had appeared since they read the table;
`tainted` and `overtaken` say where a fill or a failed call left the entry
behind the row. `TagOwnershipGuard` makes the same check as `updateIdentity`,
earlier, and does not restrict what happens after it, so it is not a step.

### Throttler

One bucket, with Redis's own clock in seconds. `Stored`, `EndBlock`, `EndWindow`,
`CountHit` and `StartBlock` are the statements of the script in their order, and
`RunScript` the whole of it with `EXPIRE`. `AnswerLost` is a command that ran although
the client gave up (`commandTimeout`), `Unreachable` one that did not; both let the request
pass. No throttler of the application sets a block duration, and the guard then
passes the ttl; the module asks only that a block is at least as long as the window.

### SignIn

`call[c]` is an asynchronous call of a client: `challenge` and `sign` are the awaits of
`connect()`, `verify` a request on its way, `take` and `check` the two awaits of
`AuthService.verify`, `answer` a token on its way back, `write` a request with
the token. A nonce stands for its message and for the token of it; `store` is the set
of keys in Redis, each made of a pubkey and a nonce, as `key()` does. `Verify` is
the public method of the client: an application may call it again with a message that is
signed, with any of its users' pubkeys, while another call is under way. `TakeFails` is a GETDEL
that did not run, or that ran and whose answer was lost or repeated by the Redis client;
`Lost` loses a request or an answer of the API, or is the failure of `signAsync` after the
nonce is taken, which spends the challenge as well. The message, the key and the token expire
each by a clock of its own, at any moment. A message is always well formed, since the server
wrote it; the parser's refusals are the refusals of `MayTake`.

### Registration

`calls[r]` is a request, cut at its awaits: `Register` is the naming gate with the key
checks that follow it, `GetBlockhash` the message, `CheckBalance` balance, rent and fee;
`Guard` is `TagOwnershipGuard`, `Reread` the check of `WalletUpdateService`, `BuildWallet` its
message. A query that fails before the first of these leaves no trace and is a call never
made; `CallFails` is every later one. `txs` are the messages handed out whose blockhash is
still valid; `signed`, `executed` and `lamports` are the wallets' and the chain's. `Land` runs
every instruction of a message; `LandInVain` is the same message when an instruction fails:
the fee is gone and the accounts stay. `Mirrored` is any step the abstract `Mirror` allows,
which `IndexerProofs` shows to cover every step of the indexer. `handedOut` adds `covered`: the registrations handed out on a fee the node named, as long as their
payer has paid for nothing else. A validator takes no fee and no rent that would leave a key with less than
`Exempt` lamports but not empty (`LeavesNoDust`). `transfer` is the last transfer of the slot with the
key that signed it. Owners send `Transfer`
directly, since no builder exists for it; a client that bypasses the API for the other two
instructions is not modelled, because nothing could be said of what it asked for.

### TagText and AccountCodec

Characters are members of a small alphabet with what the code asks of them: `LowerOf`
(a character may lower to another that is canonical, as the Kelvin sign does),
`StandsFor` (what a digit may be read as), `Canonical`. `NormalizeTag` is `normalize.ts`,
`ValidOnChain` the rule of the program, `Variants` the nested loops of `leetspeak.ts` with
their cap (recursive functions over the characters, so that they can be proved about), `ModerationGate` reserved names, allowlist, raw and collapsed matches. The engine
of `@2toad/profanity` is external: a substring match against a list. A buffer is a sequence of
bytes: `Encode` is what Anchor writes for the account, `DecodeTagAccount` the checks of
`account.ts` in their order, `DecodeTagBytes` the padded tag.

### Directory

`rows` is the identities table without the wallet, which none of these parts writes.
`Identity`, `Qr`, `Availability`, `Search`, `Resolve` and `ResolveTyped` are what a caller of the SDK gets for
a raw text, through both normalizations, with the error class `http.ts` makes of a status.
`Answers` is the set of answers search may give: the database returns any `FetchLimit` of the
matching rows in any order, `Sorted` is the sort by rank and length. Prisma's patterns
(`startsWith`, `contains`) are external. `Guard`, `Check`, `Write` and `DeleteKey` are a PATCH;
`ListActive`, `Inspect`, `BlockListed`, `FlushListed`, `SweepComplete` and `SweepCrash` the
backfill; `IndexerWrites` and `ModeratorBlocks` the writers beside it. `FillRead` and `FillStore`
are a resolve that fills the cache, for the tags a backfill may block: whether it finds the row before
the block and stores after the DEL is what `BackfillComplete` is about. `Resolve` is a resolve
that finds nothing in the cache, as a function of the table and of the account on the chain, with a status
filter of its own; what may happen between its reads is `ResolveCache`'s business. `ReadActive` is every
read of one tag but resolve.

### Site

The parts share no state, so a behaviour uses one of them (`part`). `requests` are the calls
of `resolveTag`, `first` the call that began the busy period; `timers` counts pending timers
per kind, because no timer but the menu's is ever cleared; `nav.lost` counts menu timers the ref has
forgotten; `diagram.effects` are the runs of the effect of the diagram component, each with its own
`cancelled`.

## 3. Runs

| run | instance | question |
| --- | --- | --- |
| `indexer_safety` | two tags, one of them profane, one key, three slots, one cron sweep beside the main flow, one fault | sweeps drop no account, the cursor is backed by a row, the inductive invariant; the indexer implements `Mirror` (1 738 866 states) |
| `indexer_live` | one tag, two keys, three slots, one cron sweep, one fault | a row never mixes two states of its account; the mirror catches up with the chain, and the key of a written row is deleted in the end, after a crash, an outage or a lost answer too (522 779 states) |
| `indexer_skip` | one tag, two keys, three slots | refutes what the log line of `applyChange` says: a newer slot is skipped |
| `cache_safety` | two processes, two requests, one pipeline, one PATCH, two faults, two changes | coherence, no wrong answer but the one `cache_blocked` shows, and two services that write one row keep its mirrored columns (1 052 958 states) |
| `cache_live` | one key, two processes, two requests, one fault, three changes | the entry agrees in the end, every request is answered (183 656 states) |
| `cache_patch` | one of each, no fault | refutes a comment of `tags.service.ts` |
| `cache_blocked` | one of each, no fault | refutes two comments: the chain is asked for a blocked tag |
| `registration` | two keys, two tags (one refused by the gate), three requests of eight wishes, three slots | what is refused, handed out and lands is what was asked for, and what is handed out on a known fee can be paid (438 953 states) |
| `directory` | texts over nine characters, three tags, two PATCHes of five bodies, a backfill killed any number of times | the rules about texts, tags, buffers and blocked rows; search, PATCH and backfill (134 917 states) |
| `site` | three requests, two timers of a kind, two link groups, four charts | nothing old replaces something new where the code prevents it (386 019 states) |
| `sign_in` | two pubkeys, two challenges, one client, two calls at once, one fault | one token per message, whole sessions, challenges that stay usable (434 258 states) |
| `throttler` | limit 2, window and block of 3 s, 12 s, one fault | bursts, blocks and refusals |

Why the bounds are enough for the cases that matter:

- `MaxSlot`: slot 1 is empty; a first registration and a later change need slots 2
  and 3, which is what two overlapping flows need to carry different slots of
  one tag. The last slot
  the bound allows is the moment the chain comes to rest.
- Two keys: enough for owner and wallet to differ and to change; keys are
  only compared for equality. `indexer_safety` is about rows and the cursor, and
  one key suffices for it.
- One cron sweep beside `Main`: two flows are enough for each of the three races of
  the pipeline (create against create, create against find, cursor against
  cursor). Cron sweeps start again, so one name covers any number one after another.
  The proofs cover any number at once.
- `MaxFaults` 1: one failure or crash at each possible place. `cache_safety` has two,
  so that a process may die after a failed DEL. More are covered by the proofs, which
  put no bound on it.
- `MaxChanges` 2: create an account, and change it, block its row or patch it. `cache_live` has
  three: the account, its profile and its status each change between two writes.
- `registration`: three requests let two owners race for one tag while a third request,
  a wallet update or another registration, is under way. `Validity` 1 lets a message land in
  the slot of its blockhash or the next, and be void in the third. `MCBalances` has, with rent 3,
  fee 2 and an exemption of 2, two cases: either key can pay for itself, `a` can sponsor `b`, and `b` can sponsor
  `a` only as long as the fee of the second signature is not known; or `b` has one lamport more, and
  would be left with dust. The wishes name an own wallet, a foreign one, a sponsor, a
  string that is no key, and a refused tag.
- `directory`: the alphabet has a digit that stands for two letters, the underscore, a letter
  that is upper case, one that lowers to a canonical character by Unicode only, and one no tag may contain.
  With `MinTag` 2 and `MaxTag` 4, all texts of up to five characters are
  normalized and judged; with `MaxVariants` 4, two ambiguous digits reach the cap and three
  exceed it. Buffers are all contents of the tag's bytes over five values with every
  length from 0 to one too many, under the right and a wrong discriminator, and every
  encoding cut short at every byte. Two PATCHes are enough for the lost update. `FetchLimit`
  2 is exceeded by three matching rows.
- `site`: three calls make two overlap after a first busy period ended; four charts let
  two older ones be under way when the newest is drawn; two timers of a kind are what a
  second click makes.
- Two calls and two challenges: enough for two verifications of one message, for
  two overlapping connects of one or of two pubkeys, and for a write beside either. One
  client suffices, since clients share nothing but Redis, where two calls of one client
  look like one call of each of two.
- `MaxTime` 12: four windows, of which the burst bound relates at most three.

Deadlock is checked in every run but `registration`, `directory` and `site`: there the bounded
requests, slots, PATCHes and charts run out, after which nothing is left to do.

### Fairness

`Indexer`: weak fairness of each flow (the event loop runs a flow whose answer has
arrived, and calls that do not fail return), of the cron tick, of the reconnect loop
and of reading the stream. Nothing is assumed of the chain, the websocket, outages,
the moderator or whoever redeploys: `CatchesUp` allows for a startup backfill that failed,
because nothing in the code restarts it. `ResolveCache`: weak fairness of TTL expiry and
of the steps of requests and pipelines already begun. Clients, chain, moderator and the
start of pipelines have none. `JoinOrStart` is fair per request and not per
request and process, since which process serves a request is not a choice of the code.

`Registration`, `Directory`, `Site`, `Throttler` and `SignIn` assume no fairness: their
properties say what may never happen.

## 4. Findings

Each is a run with a counterexample; `PROJECT.json` quotes the sentence it contradicts.

1. `indexer_skip`: an update that finds no row because there is none yet, and a row
   another flow creates from an older slot before the `findUnique`, make
   `applyChange` drop the newer change as stale: in the trace slot 3 is skipped while the row
   has slot 2 and its older wallet. (A skip of the very slot the row has is harmless and not
   counted.) The nightly sweep repairs it.
2. `cache_patch`: the owner may change between the check and the update of
   `updateIdentity`, which names only the tag.
3. `cache_blocked`: a row may appear, and be blocked, between the query of `resolveUncached` and the chain
   lookup it leads to. The lookup finds the wallet of a blocked tag, though two comments say that
   it is never reached for one, and the answer may be stored after the DEL of the block.

Limits the code accepts or that contradict no sentence of it; the properties allow for each:

- A fill stores what it read before a write whose DEL has already happened. The TTL, and not
  the invalidation, removes the entry (`CacheAgrees` and `BackfillComplete` name the exception).
- The first connection of a process runs no gap-heal sweep, so what is
  finalized between the startup snapshot and the first subscription is observed
  by nobody until the nightly sweep (`CatchesUp` needs that sweep).
- When the node cannot name the fee of a message, one signature is assumed, and a sponsored
  registration may be handed out that its payer cannot pay; nor does the check know that a key must
  not be left with dust (`CoveredRegistrationsLand` speaks of the others).
- Every reading the gate tries has its repeated letters collapsed, so a term with a doubled letter
  is found as it stands and not behind a digit or an underscore; and the gate stops at
  `MAX_VARIANTS` readings (`GateReadsDisguises` says what it does read).
- Search lowers and trims its query but strips no "@", and looks at a bounded sample of the
  matching rows: an exact match may be missing when more rows match (`SearchFindsExact`).
- The refusals for a tag that is taken speak of an active tag; any row counts, a
  blocked one included.
- The playground tells nothing apart: an older answer may replace a newer one while two calls
  overlap, so only the last busy period is promised. It says "3-32" characters where the
  protocol allows 20, and shows a blocked tag, which answers 404 to a read, as available.

## 5. Properties

Mirror and cache:

- `MirrorFaithful`: owner and wallet of a row are the ones its slot ended with.
  Relates the row to the history of the chain; breaks if any write leaves a field
  out or mixes observations.
- `MirrorSpec` (refinement of `Mirror`): rows move forward, never vanish, and
  are never unblocked.
- `SweepsCover`: a sweep ends only when every account of its snapshot has a row, and
  the startup backfill only when every row is as new as the snapshot, whatever the
  other flows wrote, blocked or raced for meanwhile. It relates the accounts still to do,
  the one in hand, the row and the history; a sweep that skips what has a row breaks it.
- `CursorBacked`: some row is at least as new as the cursor, after any crash.
- `CatchesUp`, `EventuallyFlushed`: see section 3. The second one rests on the slot guard
  accepting an equal slot: with a strict guard, a crash between row and DEL leaves
  the key for ever (the mutant `Accepts_StrictlyNewer` shows it).
- `CacheAgrees`: the entry of a mirrored tag is its row's answer, except while a DEL is
  pending, after one failed or was never due (moderation by hand), and when a write
  overtook the fill.
- `AnswersWereVisible`: each answer was right at some moment so far, but for the wallet a lookup found
  after a row had overtaken it (which finding 3 is about when that row is blocked); and each wallet anybody
  is told, that one included, is one a finalized slot gave the tag, however late indexer, fill and entry are.
- `BlockedIsNotLookedUp` (refuted): no lookup finds a wallet while the row is blocked.
- `PatchedByOwner` (refuted): a PATCH is written by the owner of the row.
- `SkippedOnlyIfStale` (refuted): no skipped observation is newer than the row.
- `MirrorKept` (refinement of `Mirror` by `ResolveCache`): a PATCH or a moderator beside the
  indexer undoes nothing of what the indexer keeps: the mirrored columns stay those of
  one slot, move forward, and are never unblocked.
- `EventuallyAgrees`, `EveryRequestIsAnswered`: the TTL repairs everything once
  things are at rest, and nobody waits forever for a flight that failed.

Registration:

- `RefusalsTrue`: a 409 was of a tag that was registered, a 403 of a caller who was not the
  owner, at some finalized slot, however late the mirror is. The converse does not hold:
  "available" may be out of date, and the program decides.
- `AccountsObeyOwners`: an account changes by a transfer its owner of that moment signed, or to a wallet
  this owner asked for, in an answered wallet update of that tag, and signed; a message built for an
  earlier owner changes nothing. It breaks without the signer check of `transfer_ownership`.
- `LandsAsAsked`: a tag appears on chain with the owner and the wallet of one answered wish at
  once, and nobody but the payer it names, who signed, pays for it.
- `NeverFreeAgain`: what the gate refuses it refuses for ever.
- `CoveredRegistrationsLand`: a registration handed out on a fee the node named, whose payer has paid for
  nothing since and keeps no dust, registers its tag if it is processed while the tag is free. It
  relates the answer to what the cluster does with the message any number of steps later, and
  breaks if the balance that is read is not that of the key which pays.

Texts, reads and moderation:

- `TagRulesAgree`: what `normalizeTag` returns is a fixed point of it that the program accepts,
  and what the program accepts can be typed.
- `GateReadsDisguises`: the gate blocks a tag exactly if one of its readings contains a blocked
  term and it is not allowed by name, up to the cap; so does the backfill.
- `CodecIsExact`: what the program stores is read back; a buffer it does not write is refused.
- `BlockedLooksAbsent`: with the blocked rows removed from the table, search, identity and QR
  answer the same, and availability never says "available" of them. A resolve of a blocked tag whose account
  is on the chain answers as one of a tag that is neither in the table nor on the chain.
- `SearchFindsExact`: what search finds can be read, and the tag typed exactly comes first, if no more rows match
  than the query fetches.
- `ProfileIsPatched`: a profile field changes only to what a PATCH that passed its checks provided for it; no
  other writer and no other PATCH of the row undoes one. That the caller still owns the tag is what
  finding 2 refutes.
- `BackfillComplete`: see section 2; holds after any crash and rerun.

Limits, sessions and sites:

- `BurstIsBounded`: of any `2 * Limit + 1` admitted requests the first and the last are
  more than a window apart. Windows are fixed, so `Limit` per window is not what
  holds of a sliding window, and twice the limit is.
- `BlockHolds`, `RefusalIsEarned`: a block lasts exactly until the moment the caller was
  told; after it, a refusal needs `Limit` admissions less than a window ago.
- `OneTokenPerChallenge`: at most one token for a signed message, to the pubkey it names
  and with its key gone from Redis, however many verifications overlap. A GET with
  a later DEL breaks it.
- `SessionsAreWhole`: the pubkey a client shows is the one its token makes the API act for,
  in its session, in what the application keeps for `setSession`, and in each write on
  its way. It does not say which of two overlapping connects wins: the one that answers
  last does, and it also replaces a session that `disconnect` has cleared meanwhile.
- `ChallengeStaysUsable`: only its own consumption or its expiry ends a challenge.
- `PlaygroundSettles`: when every call has settled, the spinner is gone and the section shows
  the answer of a call of the last busy period. Which of its overlapping calls, nothing in the code decides.
- `MenuFollowsPointer`: no menu closes under the pointer, and none stays open without it.
- `DiagramIsNewest`: a slower, older rendering never replaces a newer one, and none draws once the component
  is unmounted.

## 6. Proofs

All theorems hold for every value of the constants that the named assumptions
allow, and every leaf is checked by `tlapm` (SMT, Zenon, and PTL for the temporal steps).

`IndexerProofs`. Assumptions: the sentinels are no rows or observations, `Profane`
is a set of tags, `Main` is no cron sweep, the bounds are numbers. `MirrorFaithful` is not
inductive: a row is faithful because the observation it was written from was, so
`ObservationsFaithful` says so of the stream, of every flow's hand and of every sweep's rest.
`CursorBacked` needs to know that a flow that has passed the write left a row at least as
new (`AppliedBeforeCursor`), and that rows never go back (`RowsMoveForward`), which
is taken from the refinement step. `NoAccountLost` gives the abstract `Grow` its guard. The proof
shows Init, then each conjunct over each action, then `IndexerImplementsMirror` from
`StepImplementsMirror`: `PublishSlot` is `Grow`, a write is `MoveForward`, manual moderation
is `Block`, and everything else stutters.

`SweepsCoverTheirSnapshots` says that a sweep drops nothing. A step takes an account out of the hands of
a sweep in four ways: the guarded update or the create wrote it (`WriteRowApplies`), `findUnique`
saw a row, or the sweep is over. For the startup backfill the third must mean that the row is
newer, which holds because it runs alone: `StartupIsAlone` says that no cron sweep is under way then,
that what it skips the guard has refused, and that its two creates cannot collide.
`StartupFailsOnlyByOutage` follows: races between flows may end a sweep or a connection, never
`main()`. `FlushesAreDue` is the safety half of `EventuallyFlushed`: until the first outage a row
whose key is not yet deleted belongs to a flow that deletes it next, also when two flows write
one tag. `EachTagIsMirrored` projects history and rows to one tag: `Grow` stays `Grow`, a write
of another tag becomes a stutter. It discharges what `ResolveCache` assumes of the indexer.

`ResolveCacheProofs`. Assumptions: the sentinels differ from answers, rows and flights, and a
process is none of the marks of a request.
`CacheAgrees` needs `FlightsAgree`: a fill that no write overtook holds what the row
still says. The interesting steps are the write (which marks every fill that has read), the
fill (which passes its mark to the entry) and the DEL that fails.

`AnswersAreHonest` says that no caller is told an answer that was right at no moment, but for a wallet among
`raced`, and that this one too is of a finalized slot. It needs to
know where every answer came from: `SourcesVisible` says that what a fill may still read, in the row or
on the chain, is right now, `HoldersVisible` that what the entry, every fill and every
caller holds was right at some moment, and `VisibleIsFinal` that a wallet that was right is one of
the history, which rests on `RowIsSnapshot`: the row is what its slot left of the account. With the
same conjunct, `WritersKeepMirror` shows that both services together implement `Mirror`: the chain's
step is `Grow`, a write of the indexer `MoveForward`, moderation `Block`, and a PATCH a stutter. So the
argument is closed: the cache is proved for any indexer that keeps the mirror of a tag, and the indexer is
proved to be one. `NobodyWaitsInVain` is the safety half of `EveryRequestIsAnswered`: a request
that joined a flight always has one to wait for, since a flight ends only by settling.

`RegistrationProofs`. Assumptions: the wishes are well-formed, rent, fee, validity and balances are
numbers, the sentinels are no keys and no rows. The invariant: every row is an account of a
finalized slot (`RowsAreSnapshots`), what a call relies on at each await (`Relies`), and every
message handed out goes back to an answered wish (`AskedFor`). `RefusalsAreTrue` follows from the
first; `AccountsAreObedient` and `RegistrationsLandAsAsked` from the last, with `has_one` and `init`
of the program: a transfer is signed by the owner whom `has_one` compares with, and a wallet update
that lands is one `AskedFor` names, with the signature of that same owner. `RefusedTagsStayRefused` follows from the fact that
no step removes a row. `BalanceCheckHolds` rests on an invariant of its own: what is `covered` is affordable to its
payer at every moment, because whoever pays for anything leaves `covered` with all its
messages; a covered message that is processed while its tag is free can therefore not fail.

`AccountCodecProofs` and `DirectoryProofs`. Assumptions: `MinTag` and `MaxTag` are ordered numbers,
the "@" and the canonical characters are their own lower case, different characters have
different bytes, bytes are numbers, tags are canonical, PATCHes name tags and fields, and the
sentinel is no row, and a digit stands for at least one canonical character. `TagRulesAlwaysAgree` and
`CodecIsAlwaysExact` are facts about operators for every
alphabet, every text and every buffer; the second decomposes a buffer into its fields, reads
the tag out of its padded bytes, and puts the same buffer together again. The invariant of the table is in three
parts: a row a backfill has listed is still there, and blocked if it fails the gate and was looked at
(`ListedAreSeen`); an old answer of a tag it blocked is in the cache, or on its way, only if the DEL is
still due or it is among `missed` (`BlockedAreFlushed`); a PATCH that passed its check has a body the
profanity check accepts (`CheckedIsClean`). `BlockedIsInvisible` compares two tables: if they have the
same active rows with the same contents (`SameActive`), matching, ranking, sorting and reading
give the same, and the table without its blocked rows is such a one; `ResolveOfInactive` adds that a resolve
of a row that is not active never comes to the account. `ExactIsFirst` rests on three
facts: a subset of the matching rows that is as large as all of them is all of them, an order of a finite
set names each member, and only the tag typed exactly has rank 0. It assumes that
the table is finite and both limits are positive. `GateReadsEveryDisguise` is about texts of every
length, whose readings are built character by character by recursive functions. Its inductions
need no induction theorem: a set of numbers up to a length that holds 0 and is closed under
successor has no least number outside it (`LeastMember`, `SetInduction`, `PrefixInduction`).
`GateAlwaysExact` shows so that the readings up to the cap are all of them, and that each one is
a reading beyond it too; `BackfillBlocksTheProfane` adds that a backfill blocks nothing else.

`ThrottlerProofs`. Assumptions: `Ttl`, `Limit` positive, `BlockDuration >= Ttl`. The
invariant splits the admitted requests at the start of the bucket's window (`Split`): the last
`n` are inside, the rest were before it, and all but `Limit` of the rest were before it by
a whole window. `WindowIsOver` shows that a finished window, however it ends (expiry, block or
removal of the key), becomes the earlier part of the next split; `ScriptCases` reduces
the script to four cases (a new window, a counted hit, a block, a refusal). The bound on
bursts, the length of a block and what a refusal needs follow.

`SignInProofs`. Assumptions: the sentinel is no pubkey, session or call. What a call may rely
on at each await (`Relies`) is what makes the awaits safe: between `take` and
`check` it relies on having the nonce (`n \in taken`, no token yet), which is true
of one call at most (`CallsAreAlone`), because a key that was taken never comes back
(`StoreIsUntaken`). `CallEnds`, `CallStarts` and `CallGoesOn` say once what most
actions do; `Challenge`, `Sign`, GETDEL, `IssueToken` and `StoreSession` have a lemma each. The
proof bounds neither calls nor failures.

`SiteProofs`. Assumptions: the sentinel and the empty input are no texts, and the example is a tag. For the playground
(`PlayInv`) every pending call belongs to the busy period, an error or a free tag on display is
the answer of one of its calls, and the last call to settle always leaves something on display. The
menu's ref holds every pending timer because the pointer cannot leave twice without entering. All
effects of the diagram but the newest are cancelled, so only the newest draws.

Only model-checked: the liveness properties `CatchesUp`, `EventuallyFlushed`, `EventuallyAgrees` and
`EveryRequestIsAnswered` (fairness and ENABLED are outside the prover; the safety half of each is
proved), the three refutations, and the instances themselves. Every other property of a run is a
theorem.

## 7. Not modelled

- PDA derivation and signatures are cryptographic and stay abstract: one account
  per tag, a signer is who it says, a signature is good or bad.
- Forks: a `COMMITMENT` below finalized would let a slot be rolled back. The default is finalized and the
  modules take it.
- Which requests share a throttler bucket (trackers of the guards), eviction or restart of
  Redis.
- The order in which two wallet updates of one owner land: nothing in the code orders them.
- A SET whose client has timed out and that lands later, after a DEL. What it leaves in the cache is what
  a flight leaves that waits between its reads and its SET while row and key are written, and `ResolveCache` has those.
- What spends a payer's lamports outside the messages of the API, between answer and landing.
- Of a sign-in message only the nonce and the pubkey count: `parseSignInMessage` leaves domain and time to what
  the caller sends. `SignIn` gives `verify` a signature somebody made; one that was made up
  behaves like a bad one, which it has.
- The fail-safe of the indexer's moderation gate, which lets a tag pass when the check itself throws:
  `Profane` is any set of tags, and one the check always throws for is no member; that the check
  throws now and then is not modelled.
- Characters whose lower case is more than one character: `LowerOf` is one to one. Both sides refuse
  such texts.
- Graceful shutdown apart from a crash: it stops at one of the same places.
- On the sites: the mobile menu, the rotating steps, the theme toggle and analytics keep local
  state without interplay.
- Configuration, logging, OpenAPI, health, static content and deployment files
  keep no protocol state.

## 8. Plan

1. `TipSystem`: `Indexer` and `ResolveCache` over one history, to state the end-to-end
   delay: an answer is never older than the mirror was one TTL ago.
2. Forks for a commitment below finalized: what the slot guard keeps of a slot that is rolled
   back, and when a sweep repairs it.
