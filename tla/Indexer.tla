------------------------------ MODULE Indexer ------------------------------
(***************************************************************************)
(* apps/indexer: the worker that copies finalized tag accounts into the    *)
(* mirror.  One process runs several asynchronous flows that interleave at *)
(* every await: Main (startup backfill, then the live subscription with a  *)
(* gap-heal sweep after each reconnect) and any number of overlapping cron *)
(* sweeps.  All of them push observations through one pipeline whose       *)
(* database and Redis calls are separate steps here.                       *)
(*                                                                         *)
(*   rows    identity rows in Postgres           (survives a crash)        *)
(*   cursor  indexer_state.lastProcessedSlot, 0 when there is no row       *)
(*   unflushed  tags whose row was written since the resolve cache key was *)
(*              last deleted                     (the state of Redis)      *)
(*   phase, firstConnection, open, stream        the subscription of Main  *)
(*   step, obs, todo, snap                       where each flow is        *)
(*   faults  how many outages and crashes happened, bounded by MaxFaults   *)
(***************************************************************************)
EXTENDS TagRegistry, FiniteSets

CONSTANTS
  Profane,    \* the tags the moderation gate blocks
  Main,       \* the flow of main(): startup backfill and subscription loop
  Crons,      \* the cron sweeps that may overlap
  None,       \* no observation in hand
  MaxFaults   \* bound on outages and crashes

ASSUME IndexerConstants ==
  /\ Profane \subseteq Tags
  /\ Main \notin Crons
  /\ MaxFaults \in Nat

ASSUME NoneIsNoObservation ==
  None \notin [tag : Tags, slot : Nat, acct : Account]

ASSUME MissingIsNoRow == Missing \notin
  [owner : Keys, wallet : Keys, slot : Nat, status : {"active", "blocked"}]

VARIABLES rows, cursor, unflushed, phase, firstConnection, open, stream,
          step, obs, todo, snap, faults

dbVars   == <<rows, cursor>>
linkVars == <<phase, firstConnection, open, stream>>
flowVars == <<step, obs, todo, snap>>
vars     == <<chainVars, dbVars, unflushed, linkVars, flowVars, faults>>

M == INSTANCE Mirror WITH history <- history, rows <- rows

Workers == {Main} \cup Crons

Phases == {"startup", "connecting", "healing", "live", "failed"}
Steps == {"idle", "fetch", "next", "update", "find", "create", "invalidate",
          "cursor", "cursorFind", "cursorCreate"}

\* What the RPC node reports of one account: its content at the end of a
\* finalized slot, and that slot.  decodeAndVerify turns it into a change.
Observation == [tag : Tags, slot : Nat, acct : Account]

Observe(t, s) == [tag |-> t, slot |-> s, acct |-> history[s][t]]

\* Everything getProgramAccounts returns for slot s, under one context slot.
Accounts(s) == {Observe(t, s) : t \in {u \in Tags : history[s][u] # Missing}}

Init ==
  /\ ChainInit
  /\ rows = NoAccounts
  /\ cursor = 0
  /\ unflushed = {}
  /\ phase = "startup"
  /\ firstConnection = TRUE
  /\ open = FALSE
  /\ stream = {}
  /\ step = [w \in Workers |-> IF w = Main THEN "fetch" ELSE "idle"]
  /\ obs = [w \in Workers |-> None]
  /\ todo = [w \in Workers |-> {}]
  /\ snap = [w \in Workers |-> 0]
  /\ faults = 0

-----------------------------------------------------------------------------
(* Control flow helpers.                                                   *)

GoTo(w, s) == step' = [step EXCEPT ![w] = s]

\* The observation in hand is finished; the loop asks for the next one.
Finish(w) ==
  /\ GoTo(w, "next")
  /\ obs' = [obs EXCEPT ![w] = None]
  /\ UNCHANGED <<todo, snap>>

\* An exception leaves the loop that processed observations.  A cron sweep
\* logs it and drops the rest; the subscription loop reconnects; main() does
\* not recover from a failed startup backfill.
Throw(w) ==
  /\ GoTo(w, "idle")
  /\ obs' = [obs EXCEPT ![w] = None]
  /\ todo' = [todo EXCEPT ![w] = {}]
  /\ snap' = [snap EXCEPT ![w] = 0]
  /\ IF w = Main
       THEN /\ phase' = IF phase = "startup" THEN "failed" ELSE "connecting"
            /\ open' = FALSE
            /\ stream' = {}
            /\ UNCHANGED firstConnection
       ELSE UNCHANGED linkVars

Sweeping(w) == w \in Crons \/ phase \in {"startup", "healing"}

-----------------------------------------------------------------------------
(* reconcile(): one snapshot, then one account after the other.  snap[w] is *)
(* the slot of the snapshot a sweep works on, and 0 if there is no sweep.   *)

\* Mutation: the sweep only looks at accounts that have no row yet.
FetchAccounts_OnlyUnmirrored(w) ==
  /\ step[w] = "fetch"
  /\ todo' = [todo EXCEPT ![w] = {o \in Accounts(FinalSlot) : rows[o.tag] = Missing}]
  /\ snap' = [snap EXCEPT ![w] = FinalSlot]
  /\ GoTo(w, "next")
  /\ UNCHANGED <<chainVars, dbVars, unflushed, linkVars, obs, faults>>

FetchAccounts(w) ==
  /\ step[w] = "fetch"
  /\ todo' = [todo EXCEPT ![w] = Accounts(FinalSlot)]
  /\ snap' = [snap EXCEPT ![w] = FinalSlot]
  /\ GoTo(w, "next")
  /\ UNCHANGED <<chainVars, dbVars, unflushed, linkVars, obs, faults>>

TakeAccount(w) ==
  /\ step[w] = "next" /\ Sweeping(w)
  /\ \E o \in todo[w] :
       /\ obs' = [obs EXCEPT ![w] = o]
       /\ todo' = [todo EXCEPT ![w] = @ \ {o}]
  /\ GoTo(w, "update")
  /\ UNCHANGED <<chainVars, dbVars, unflushed, linkVars, snap, faults>>

\* The startup backfill ends and the subscription loop begins; a gap-heal
\* sweep ends and the loop starts to read the stream; a cron sweep ends.
SweepEnds(w) ==
  /\ step[w] = "next" /\ Sweeping(w) /\ todo[w] = {}
  /\ IF w = Main
       THEN /\ phase' = IF phase = "startup" THEN "connecting" ELSE "live"
            /\ GoTo(w, IF phase = "startup" THEN "idle" ELSE "next")
       ELSE GoTo(w, "idle") /\ UNCHANGED phase
  /\ snap' = [snap EXCEPT ![w] = 0]
  /\ UNCHANGED <<chainVars, dbVars, unflushed, firstConnection, open, stream,
                 obs, todo, faults>>

\* node-cron fires: main() schedules it once the startup backfill is done.
CronTick(w) ==
  /\ w \in Crons /\ step[w] = "idle"
  /\ phase \notin {"startup", "failed"}
  /\ GoTo(w, "fetch")
  /\ UNCHANGED <<chainVars, dbVars, unflushed, linkVars, obs, todo, snap, faults>>

-----------------------------------------------------------------------------
(* runLiveSubscription().  A failed attempt to subscribe only waits longer *)
(* and is not a step here.                                                 *)

\* The gap-heal sweep runs before the stream is read, except on the first
\* connection of the process.
Subscribe ==
  /\ phase = "connecting" /\ step[Main] = "idle"
  /\ open' = TRUE
  /\ stream' = {}
  /\ firstConnection' = FALSE
  /\ phase' = IF firstConnection THEN "live" ELSE "healing"
  /\ GoTo(Main, IF firstConnection THEN "next" ELSE "fetch")
  /\ UNCHANGED <<chainVars, dbVars, unflushed, obs, todo, snap, faults>>

\* for await: notifications may be handed over in any order.
TakeNotification ==
  /\ phase = "live" /\ step[Main] = "next"
  /\ \E o \in stream :
       /\ obs' = [obs EXCEPT ![Main] = o]
       /\ stream' = stream \ {o}
  /\ GoTo(Main, "update")
  /\ UNCHANGED <<chainVars, dbVars, unflushed, phase, firstConnection, open,
                 todo, snap, faults>>

\* External: the websocket closes; any part of what it carried is lost.
ConnectionLost ==
  /\ open
  /\ open' = FALSE
  /\ \E kept \in SUBSET stream : stream' = kept
  /\ UNCHANGED <<chainVars, dbVars, unflushed, phase, firstConnection,
                 flowVars, faults>>

\* The stream is drained and closed: the loop backs off and reconnects.
StreamEnds ==
  /\ phase = "live" /\ step[Main] = "next"
  /\ ~open /\ stream = {}
  /\ phase' = "connecting"
  /\ GoTo(Main, "idle")
  /\ UNCHANGED <<chainVars, dbVars, unflushed, firstConnection, open, stream,
                 obs, todo, snap, faults>>

\* External: a slot is finalized, and its account changes are published to
\* the open subscription.  The subscription drops what arrives before the
\* loop first reads it, which is not before the gap-heal sweep has ended.
PublishSlot ==
  LET notes == {[tag |-> t, slot |-> FinalSlot + 1, acct |-> bank[t]] : t \in Touched}
  IN  /\ FinalizeSlot
      /\ \E got \in SUBSET notes :
           /\ phase = "live" => got = notes
           /\ stream' = IF open THEN stream \cup got ELSE stream
      /\ UNCHANGED <<dbVars, unflushed, phase, firstConnection, open, flowVars, faults>>

-----------------------------------------------------------------------------
(* applyChange(): a guarded updateMany, then a findUnique, then a create.  *)

\* Mutations: no slot guard, and the strict guard.
Accepts_AnySlot(row, o) == row # Missing
Accepts_StrictlyNewer(row, o) == row # Missing /\ row.slot < o.slot

\* where: { tag, lastAppliedSlot: { lte: change.slot } }
Accepts(row, o) == row # Missing /\ row.slot <= o.slot

StatusAfter(o) ==
  IF o.tag \in Profane THEN "blocked"
  ELSE IF rows[o.tag] = Missing THEN "active"
  ELSE rows[o.tag].status

\* Mutation: an update leaves lastAppliedSlot out.
WriteRow_ForgetsSlot(o) ==
  /\ rows' = [rows EXCEPT ![o.tag] =
                [owner |-> o.acct.owner, wallet |-> o.acct.wallet,
                 slot |-> IF @ = Missing THEN o.slot ELSE @.slot,
                 status |-> StatusAfter(o)]]
  /\ unflushed' = unflushed \cup {o.tag}

WriteRow(o) ==
  /\ rows' = [rows EXCEPT ![o.tag] =
                [owner |-> o.acct.owner, wallet |-> o.acct.wallet,
                 slot |-> o.slot, status |-> StatusAfter(o)]]
  /\ unflushed' = unflushed \cup {o.tag}

UpdateMany(w) ==
  /\ step[w] = "update"
  /\ IF Accepts(rows[obs[w].tag], obs[w])
       THEN WriteRow(obs[w]) /\ GoTo(w, "invalidate")
       ELSE GoTo(w, "find") /\ UNCHANGED <<rows, unflushed>>
  /\ UNCHANGED <<chainVars, cursor, linkVars, obs, todo, snap, faults>>

\* findUnique found a row: "skipped_stale".
SkipStale(w) ==
  /\ step[w] = "find"
  /\ rows[obs[w].tag] # Missing
  /\ Finish(w)
  /\ UNCHANGED <<chainVars, dbVars, unflushed, linkVars, faults>>

\* Mutation: a change of an unknown tag is dropped, and counted as applied.
FindNothing_DropsNewTag(w) ==
  /\ step[w] = "find"
  /\ rows[obs[w].tag] = Missing
  /\ GoTo(w, "cursor")
  /\ UNCHANGED <<chainVars, dbVars, unflushed, linkVars, obs, todo, snap, faults>>

FindNothing(w) ==
  /\ step[w] = "find"
  /\ rows[obs[w].tag] = Missing
  /\ GoTo(w, "create")
  /\ UNCHANGED <<chainVars, dbVars, unflushed, linkVars, obs, todo, snap, faults>>

\* Mutation: the pipeline invalidates after an update only, since a new tag
\* "cannot be cached".
CreateRow_NoDelete(w) ==
  /\ step[w] = "create"
  /\ IF rows[obs[w].tag] = Missing
       THEN WriteRow(obs[w]) /\ GoTo(w, "cursor")
            /\ UNCHANGED <<linkVars, obs, todo, snap>>
       ELSE Throw(w) /\ UNCHANGED <<rows, unflushed>>
  /\ UNCHANGED <<chainVars, cursor, faults>>

\* The tag column is unique: create throws when another flow created the
\* row since the findUnique.
CreateRow(w) ==
  /\ step[w] = "create"
  /\ IF rows[obs[w].tag] = Missing
       THEN WriteRow(obs[w]) /\ GoTo(w, "invalidate")
            /\ UNCHANGED <<linkVars, obs, todo, snap>>
       ELSE Throw(w) /\ UNCHANGED <<rows, unflushed>>
  /\ UNCHANGED <<chainVars, cursor, faults>>

\* RedisCacheInvalidator deletes the key, or fails softly.
Invalidate(w) ==
  /\ step[w] = "invalidate"
  /\ \/ unflushed' = unflushed \ {obs[w].tag} /\ UNCHANGED faults
     \/ faults < MaxFaults /\ faults' = faults + 1 /\ UNCHANGED unflushed
  /\ GoTo(w, "cursor")
  /\ UNCHANGED <<chainVars, dbVars, linkVars, obs, todo, snap>>

-----------------------------------------------------------------------------
(* advanceCursor(): the same three calls on the singleton cursor row.      *)

AdvanceCursor(w) ==
  /\ step[w] = "cursor"
  /\ IF cursor # 0 /\ cursor < obs[w].slot
       THEN cursor' = obs[w].slot /\ Finish(w)
       ELSE GoTo(w, "cursorFind") /\ UNCHANGED <<cursor, obs, todo, snap>>
  /\ UNCHANGED <<chainVars, rows, unflushed, linkVars, faults>>

FindCursor(w) ==
  /\ step[w] = "cursorFind"
  /\ IF cursor = 0
       THEN GoTo(w, "cursorCreate") /\ UNCHANGED <<obs, todo, snap>>
       ELSE Finish(w)
  /\ UNCHANGED <<chainVars, dbVars, unflushed, linkVars, faults>>

CreateCursor(w) ==
  /\ step[w] = "cursorCreate"
  /\ IF cursor = 0
       THEN cursor' = obs[w].slot /\ Finish(w) /\ UNCHANGED linkVars
       ELSE Throw(w) /\ UNCHANGED cursor
  /\ UNCHANGED <<chainVars, rows, unflushed, faults>>

-----------------------------------------------------------------------------
(* Failures, and the moderator.                                            *)

\* An RPC or database call of the flow fails, and has done nothing.
Outage(w) ==
  /\ faults < MaxFaults
  /\ step[w] \notin {"idle", "next", "invalidate"}
  /\ Throw(w)
  /\ faults' = faults + 1
  /\ UNCHANGED <<chainVars, dbVars, unflushed>>

\* A write of the flow commits and its answer is lost: the flow throws, and the
\* row is written without a DEL after it, or the cursor is moved.
AnswerLost(w) ==
  /\ faults < MaxFaults
  /\ \/ /\ \/ step[w] = "update" /\ Accepts(rows[obs[w].tag], obs[w])
           \/ step[w] = "create" /\ rows[obs[w].tag] = Missing
        /\ WriteRow(obs[w])
        /\ UNCHANGED cursor
     \/ /\ \/ step[w] = "cursor" /\ cursor # 0 /\ cursor < obs[w].slot
           \/ step[w] = "cursorCreate" /\ cursor = 0
        /\ cursor' = obs[w].slot
        /\ UNCHANGED <<rows, unflushed>>
  /\ Throw(w)
  /\ faults' = faults + 1
  /\ UNCHANGED chainVars

Boot ==
  /\ phase' = "startup"
  /\ firstConnection' = TRUE
  /\ open' = FALSE
  /\ stream' = {}
  /\ step' = [w \in Workers |-> IF w = Main THEN "fetch" ELSE "idle"]
  /\ obs' = [w \in Workers |-> None]
  /\ todo' = [w \in Workers |-> {}]
  /\ snap' = [w \in Workers |-> 0]
  /\ UNCHANGED <<chainVars, dbVars, unflushed>>

\* The process dies, between any two steps, or is told to stop: shutdown()
\* aborts the subscription, lets its change be applied, and exits in the midst
\* of a cron sweep.  It is started again.
Crash == faults < MaxFaults /\ faults' = faults + 1 /\ Boot

\* Somebody restarts a process whose startup backfill failed.
Redeploy == phase = "failed" /\ Boot /\ UNCHANGED faults

\* External: a moderator blocks a row by hand.
ModeratorBlocks(t) ==
  /\ rows[t] # Missing
  /\ rows[t].status = "active"
  /\ rows' = [rows EXCEPT ![t].status = "blocked"]
  /\ UNCHANGED <<chainVars, cursor, unflushed, linkVars, flowVars, faults>>

-----------------------------------------------------------------------------
Transact ==
  /\ Transaction
  /\ UNCHANGED <<dbVars, unflushed, linkVars, flowVars, faults>>

\* The steps the event loop takes on behalf of one flow.
Flow(w) ==
  \/ FetchAccounts(w) \/ TakeAccount(w) \/ SweepEnds(w)
  \/ UpdateMany(w) \/ SkipStale(w) \/ FindNothing(w) \/ CreateRow(w)
  \/ Invalidate(w) \/ AdvanceCursor(w) \/ FindCursor(w) \/ CreateCursor(w)

Next ==
  \/ Transact \/ PublishSlot
  \/ Subscribe \/ TakeNotification \/ ConnectionLost \/ StreamEnds
  \/ \E w \in Workers : Flow(w) \/ CronTick(w) \/ Outage(w) \/ AnswerLost(w)
  \/ Crash \/ Redeploy
  \/ \E t \in Tags : ModeratorBlocks(t)

Spec == Init /\ [][Next]_vars

\* The event loop runs every flow that has an answer to handle, node-cron
\* keeps firing, and the loop keeps reconnecting.  Nothing is assumed of the
\* chain, the websocket, outages, moderators or whoever redeploys.
Fairness ==
  /\ \A w \in Workers : WF_vars(Flow(w)) /\ WF_vars(CronTick(w))
  /\ WF_vars(Subscribe) /\ WF_vars(TakeNotification) /\ WF_vars(StreamEnds)

FairSpec == Spec /\ Fairness

-----------------------------------------------------------------------------
(* Safety.                                                                 *)

\* Every variable has its type, and only a flow that is at a pipeline step
\* has an observation in hand.
TypeOK ==
  /\ ChainTypeOK
  /\ rows \in [Tags -> M!Row \cup {Missing}]
  /\ cursor \in Nat
  /\ unflushed \subseteq Tags
  /\ phase \in Phases
  /\ firstConnection \in BOOLEAN
  /\ open \in BOOLEAN
  /\ stream \subseteq Observation
  /\ step \in [Workers -> Steps]
  /\ obs \in [Workers -> Observation \cup {None}]
  /\ \A w \in Workers : obs[w] = None <=> step[w] \in {"idle", "fetch", "next"}
  /\ todo \in [Workers -> SUBSET Observation]
  /\ snap \in [Workers -> Nat]
  /\ faults \in 0 .. MaxFaults

\* A row never mixes two states of its account: whatever sweeps and
\* notifications overlapped, its owner and wallet are the ones the account
\* had at the end of the very slot the row carries.
MirrorFaithful ==
  \A t \in Tags : rows[t] # Missing =>
    /\ rows[t].slot \in 1 .. FinalSlot
    /\ history[rows[t].slot][t] = [owner |-> rows[t].owner, wallet |-> rows[t].wallet]

\* cursor.ts: the cursor moves only after the change that carries it has been
\* applied, so a mirrored row at least as new as the cursor always exists,
\* also after crashes and between overlapping flows.
CursorBacked ==
  cursor # 0 => \E t \in Tags : rows[t] # Missing /\ rows[t].slot >= cursor

\* The mirror implements the abstract mirror: rows only move forward to a
\* finalized snapshot, never disappear, and a block is never undone.
MirrorSpec == M!Spec

\* A sweep that ends has left no account of its snapshot without a row, and the
\* startup backfill (main.ts:23-25: "anything that happened while the worker
\* was down") none behind the snapshot: each account is still to do, in hand,
\* or mirrored.  For the other sweeps the slot of the row is not promised,
\* since they may skip what another flow has just created from an older slot.
IsAhead(w, o) ==
  o \in todo[w] \/ (obs[w] = o /\ step[w] \in {"update", "find", "create"})

IsMirrored(w, o) ==
  /\ rows[o.tag] # Missing
  /\ (w = Main /\ phase = "startup") => rows[o.tag].slot >= o.slot

SweepsCover ==
  \A w \in Workers : snap[w] # 0 =>
    /\ snap[w] <= FinalSlot
    /\ \A o \in Accounts(snap[w]) : IsAhead(w, o) \/ IsMirrored(w, o)

(* The inductive invariant.                                                *)

\* An observation is what its slot held.
IsFaithful(o) ==
  /\ o.slot \in 1 .. FinalSlot
  /\ history[o.slot][o.tag] = o.acct

\* Nothing in flight mixes a slot with another slot's account.
ObservationsFaithful ==
  /\ \A o \in stream : IsFaithful(o)
  /\ \A w \in Workers : obs[w] # None => IsFaithful(obs[w])
  /\ \A w \in Workers : \A o \in todo[w] : IsFaithful(o)

\* A flow past the write has a row at least as new as its observation.
AppliedBeforeCursor ==
  \A w \in Workers : step[w] \in {"invalidate", "cursor", "cursorFind", "cursorCreate"}
    => /\ rows[obs[w].tag] # Missing
       /\ rows[obs[w].tag].slot >= obs[w].slot

\* The startup backfill runs alone: no sweep of the scheduler is under way before
\* it has ended or after it has failed, it skips only what is older than the
\* row, and its two creates lose no race.
StartupIsAlone ==
  /\ phase \in {"startup", "failed"} => \A c \in Crons : step[c] = "idle"
  /\ (phase = "startup" /\ step[Main] = "find") => ~Accepts(rows[obs[Main].tag], obs[Main])
  /\ (phase = "startup" /\ step[Main] = "create") => rows[obs[Main].tag] = Missing
  /\ (phase = "startup" /\ step[Main] = "cursorCreate") => cursor = 0

\* main.ts gives up only after an outage: nothing that flows do to one another
\* can make the startup backfill throw.
FailsOnlyByOutage == phase = "failed" => faults > 0

\* Every row written is on its way to the DEL of its key, unless there was an
\* outage or a crash.
FlushIsDue ==
  \A t \in unflushed :
    faults > 0 \/ \E w \in Workers : step[w] = "invalidate" /\ obs[w].tag = t

\* The invariant of which MirrorFaithful and CursorBacked are consequences:
\* the account a flow is about to write is one the chain finalized, and the
\* slot a flow is about to record is one the mirror has reached.  The last
\* three say what the liveness properties rest on when nothing fails.
IInv ==
  /\ TypeOK
  /\ NoAccountLost
  /\ MirrorFaithful
  /\ ObservationsFaithful
  /\ AppliedBeforeCursor
  /\ CursorBacked
  /\ SweepsCover
  /\ StartupIsAlone
  /\ FailsOnlyByOutage
  /\ FlushIsDue

-----------------------------------------------------------------------------
(* Liveness.                                                               *)

RowIsCurrent(t) ==
  Finalized[t] # Missing =>
    rows[t] # Missing /\ Finalized[t] = [owner |-> rows[t].owner, wallet |-> rows[t].wallet]

\* Whatever was missed, dropped, skipped or interrupted, the mirror agrees
\* with the finalized chain in the end, as long as the chain comes to rest and
\* the startup backfill of the process did not fail for good.
CatchesUp == <>[](phase = "failed") \/ <>[](\A t \in Tags : RowIsCurrent(t))

\* A row written by the indexer has its resolve cache key deleted in the end,
\* even when the process died between the write and the DEL.
EventuallyFlushed ==
  \A t \in Tags : t \in unflushed ~> (t \notin unflushed \/ phase = "failed")

-----------------------------------------------------------------------------
(* What the comments of the code say, and the code does not do.            *)

\* apply-change.ts:70-73 reports "skipped stale change, incoming slot is
\* older than the stored slot": whenever it does, nothing newer is dropped,
\* since the row is as new or says the same.
SkippedOnlyIfStale ==
  [][\A w \in Workers : SkipStale(w) =>
       LET row == rows[obs[w].tag]
       IN  \/ row.slot >= obs[w].slot
           \/ obs[w].acct = [owner |-> row.owner, wallet |-> row.wallet]]_vars
=============================================================================
