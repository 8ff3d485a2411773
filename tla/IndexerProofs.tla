--------------------------- MODULE IndexerProofs ---------------------------
(***************************************************************************)
(* The safety properties of Indexer, proved for every set of tags, keys    *)
(* and overlapping cron sweeps, every number of slots and of faults.       *)
(***************************************************************************)
EXTENDS Indexer, SequenceTheorems, TLAPS

-----------------------------------------------------------------------------
(* The chain.                                                              *)

\* What the chain may do in one step, as its readers rely on it: nothing, a
\* change of the open slot that removes no account, or a new snapshot.
ChainStep ==
  \/ UNCHANGED chainVars
  \/ /\ UNCHANGED history
     /\ bank' \in Ledger
     /\ \A t \in Tags : bank[t] # Missing => bank'[t] # Missing
  \/ history' = Append(history, bank) /\ UNCHANGED bank

LEMMA NextIsChainStep ==
  ASSUME TypeOK, [Next]_vars
  PROVE  ChainStep
<1>1. CASE Transact
  <2>1. ASSUME NEW t \in Tags, NEW o \in Keys, RegisterTag(t, o)
        PROVE  ChainStep
    BY <2>1, MissingIsNoAccount
    DEF RegisterTag, ChainStep, TypeOK, ChainTypeOK, Ledger, Account
  <2>2. ASSUME NEW t \in Tags, NEW o \in Keys, NEW k \in Keys,
               RegisterWithWallet(t, o, k)
        PROVE  ChainStep
    BY <2>2, MissingIsNoAccount
    DEF RegisterWithWallet, ChainStep, TypeOK, ChainTypeOK, Ledger, Account
  <2>3. ASSUME NEW t \in Tags, NEW o \in Keys, NEW k \in Keys, UpdateWallet(t, o, k)
        PROVE  ChainStep
    <3>1. bank[t] \in Account
      BY <2>3 DEF UpdateWallet, HasOneOwner, TypeOK, ChainTypeOK, Ledger
    <3>2. [bank[t] EXCEPT !.wallet = k] \in Account
      BY <3>1 DEF Account
    <3>3. QED
      BY <2>3, <3>2, MissingIsNoAccount
      DEF UpdateWallet, ChainStep, TypeOK, ChainTypeOK, Ledger
  <2>4. ASSUME NEW t \in Tags, NEW o \in Keys, NEW k \in Keys,
               TransferOwnership(t, o, k)
        PROVE  ChainStep
    <3>1. bank[t] \in Account
      BY <2>4 DEF TransferOwnership, HasOneOwner, TypeOK, ChainTypeOK, Ledger
    <3>2. [bank[t] EXCEPT !.owner = k] \in Account
      BY <3>1 DEF Account
    <3>3. QED
      BY <2>4, <3>2, MissingIsNoAccount
      DEF TransferOwnership, ChainStep, TypeOK, ChainTypeOK, Ledger
  <2>5. QED
    BY <1>1, <2>1, <2>2, <2>3, <2>4 DEF Transact, Transaction
<1>2. CASE PublishSlot
  BY <1>2 DEF PublishSlot, FinalizeSlot, ChainStep
<1>3. CASE ~Transact /\ ~PublishSlot
  BY <1>3
  DEF Next, vars, ChainStep, Flow, Subscribe, TakeNotification, ConnectionLost,
      StreamEnds, CronTick, Outage, AnswerLost, Crash, Redeploy, Boot, ModeratorBlocks,
      FetchAccounts, TakeAccount, SweepEnds, UpdateMany, SkipStale, FindNothing,
      CreateRow, Invalidate, AdvanceCursor, FindCursor, CreateCursor
<1>4. QED
  BY <1>1, <1>2, <1>3

\* A step of the chain keeps the snapshots it has and loses no account.
LEMMA SnapshotsAreKept ==
  ASSUME ChainTypeOK, NoAccountLost, ChainStep
  PROVE  /\ ChainTypeOK'
         /\ NoAccountLost'
         /\ FinalSlot \in Nat /\ FinalSlot' \in Nat /\ FinalSlot <= FinalSlot'
         /\ \A s \in 1 .. FinalSlot : history'[s] = history[s]
<1>1. CASE UNCHANGED history /\ bank' \in Ledger
           /\ \A t \in Tags : bank[t] # Missing => bank'[t] # Missing
  BY <1>1 DEF ChainTypeOK, NoAccountLost, FinalSlot, Finalized
<1>2. CASE history' = Append(history, bank) /\ UNCHANGED bank
  <2>1. /\ FinalSlot' = FinalSlot + 1
        /\ FinalSlot \in Nat
        /\ Finalized' = bank
        /\ history' \in Seq(Ledger)
    BY <1>2 DEF ChainTypeOK, FinalSlot, Finalized
  <2>2. \A s \in 1 .. FinalSlot : history'[s] = history[s]
    BY <1>2 DEF ChainTypeOK, FinalSlot
  <2>3. ChainTypeOK'
    BY <1>2, <2>1 DEF ChainTypeOK
  <2>4. NoAccountLost'
    BY <1>2, <2>1 DEF NoAccountLost
  <2>5. QED
    BY <2>1, <2>2, <2>3, <2>4
<1>3. QED
  BY <1>1, <1>2 DEF ChainStep, chainVars, ChainTypeOK

-----------------------------------------------------------------------------
(* Type correctness.                                                       *)

\* The part of TypeOK about the flows, the subscription and the stores.
LEMMA ObservationsHaveTheirType ==
  ASSUME ChainTypeOK
  PROVE  /\ \A s \in 1 .. FinalSlot : Accounts(s) \in SUBSET Observation
         /\ \A t \in Tags : bank[t] # Missing =>
              [tag |-> t, slot |-> FinalSlot + 1, acct |-> bank[t]] \in Observation
<1>1. FinalSlot \in Nat
  BY DEF ChainTypeOK, FinalSlot
<1>2. ASSUME NEW s \in 1 .. FinalSlot, NEW t \in Tags, history[s][t] # Missing
      PROVE  Observe(t, s) \in Observation
  <2>1. history[s] \in Ledger
    BY DEF ChainTypeOK, FinalSlot
  <2>2. history[s][t] \in Account
    BY <2>1, <1>2 DEF Ledger
  <2>3. QED
    BY <2>2, <1>1 DEF Observe, Observation
<1>3. ASSUME NEW t \in Tags, bank[t] # Missing
      PROVE  [tag |-> t, slot |-> FinalSlot + 1, acct |-> bank[t]] \in Observation
  <2>1. bank[t] \in Account
    BY <1>3 DEF ChainTypeOK, Ledger
  <2>2. QED
    BY <2>1, <1>1 DEF Observation
<1>4. QED
  BY <1>2, <1>3 DEF Accounts

\* Throw leaves the flow idle and the subscription well typed.
LEMMA ThrowIsTyped ==
  ASSUME TypeOK, NEW w \in Workers, Throw(w), UNCHANGED chainVars,
         rows' \in [Tags -> M!Row \cup {Missing}], cursor' \in Nat,
         unflushed' \subseteq Tags, faults' \in 0 .. MaxFaults
  PROVE  TypeOK'
  BY DEF Throw, GoTo, TypeOK, ChainTypeOK, FinalSlot, chainVars, dbVars, linkVars,
         Steps, Phases, Workers

\* The row a write leaves is a row.
LEMMA WriteRowIsTyped ==
  ASSUME TypeOK, NEW o \in Observation, WriteRow(o)
  PROVE  /\ rows' \in [Tags -> M!Row \cup {Missing}]
         /\ unflushed' \subseteq Tags
<1>1. StatusAfter(o) \in M!Status
  BY MissingIsNoRow DEF StatusAfter, TypeOK, Observation, M!Row, M!Status
<1>2. o.acct.owner \in Keys /\ o.acct.wallet \in Keys /\ o.slot \in Nat /\ o.tag \in Tags
  BY DEF Observation, Account
<1>3. [owner |-> o.acct.owner, wallet |-> o.acct.wallet,
       slot |-> o.slot, status |-> StatusAfter(o)] \in M!Row
  BY <1>1, <1>2 DEF M!Row
<1>4. QED
  BY <1>2, <1>3 DEF WriteRow, TypeOK

\* Once an observation is written, its row carries its slot.
LEMMA WriteRowApplies ==
  ASSUME TypeOK, NEW o \in Observation, WriteRow(o)
  PROVE  rows'[o.tag] # Missing /\ rows'[o.tag].slot = o.slot
<1>1. o.tag \in Tags /\ rows' \in [Tags -> M!Row \cup {Missing}]
  BY WriteRowIsTyped DEF Observation
<1>2. rows'[o.tag] = [owner |-> o.acct.owner, wallet |-> o.acct.wallet,
                      slot |-> o.slot, status |-> StatusAfter(o)]
  BY <1>1 DEF WriteRow, TypeOK
<1>3. StatusAfter(o) \in {"active", "blocked"}
  BY <1>1, MissingIsNoRow DEF StatusAfter, TypeOK, M!Row, M!Status
<1>4. QED
  BY <1>1, <1>2, <1>3, MissingIsNoRow DEF Observation, Account

LEMMA TypeStep ==
  ASSUME TypeOK, NoAccountLost, [Next]_vars
  PROVE  TypeOK' /\ NoAccountLost'
<1> USE DEF GoTo, Finish, chainVars, dbVars, linkVars, flowVars
<1>1. /\ ChainTypeOK' /\ NoAccountLost'
      /\ FinalSlot \in Nat
  BY NextIsChainStep, SnapshotsAreKept DEF TypeOK
<1>2. /\ ChainTypeOK
      /\ MaxFaults \in Nat
      /\ Main \in Workers
  BY IndexerConstants DEF TypeOK, Workers
<1>3. ASSUME NEW w \in Workers, obs[w] # None
      PROVE  obs[w] \in Observation /\ obs[w].slot \in Nat /\ obs[w].tag \in Tags
  BY <1>3 DEF TypeOK, Observation
<1>4. CASE UNCHANGED vars
  BY <1>4 DEF vars, TypeOK, ChainTypeOK, FinalSlot, NoAccountLost, Finalized
<1>5. CASE Transact
  BY <1>1, <1>5 DEF Transact, TypeOK
<1>6. CASE PublishSlot
  <2>1. \A t \in Touched : bank[t] # Missing
    BY DEF Touched, NoAccountLost
  <2>2. {[tag |-> t, slot |-> FinalSlot + 1, acct |-> bank[t]] : t \in Touched}
          \subseteq Observation
    BY <1>2, <2>1, ObservationsHaveTheirType DEF Touched
  <2>3. stream' \subseteq Observation
    BY <1>6, <2>2 DEF PublishSlot, TypeOK
  <2>4. QED
    BY <1>1, <1>6, <2>3 DEF PublishSlot, TypeOK
<1>7. CASE Subscribe
  BY <1>1, <1>2, <1>7 DEF Subscribe, TypeOK, Steps, Phases
<1>8. CASE TakeNotification
  <2>1. PICK o \in stream : /\ obs' = [obs EXCEPT ![Main] = o]
                             /\ stream' = stream \ {o}
    BY <1>8 DEF TakeNotification
  <2>2. o \in Observation /\ o # None
    BY NoneIsNoObservation DEF TypeOK, Observation
  <2>3. QED
    BY <1>1, <1>2, <1>8, <2>1, <2>2 DEF TakeNotification, TypeOK, Steps
<1>9. CASE ConnectionLost
  BY <1>1, <1>9 DEF ConnectionLost, TypeOK
<1>10. CASE StreamEnds
  BY <1>1, <1>2, <1>10 DEF StreamEnds, TypeOK, Steps, Phases
<1>11. ASSUME NEW w \in Workers, FetchAccounts(w)
       PROVE  TypeOK'
  <2>1. Accounts(FinalSlot) \in SUBSET Observation
    BY <1>1, <1>2, ObservationsHaveTheirType DEF ChainTypeOK
  <2>2. QED
    BY <1>1, <1>11, <2>1 DEF FetchAccounts, TypeOK, Steps
<1>12. ASSUME NEW w \in Workers, TakeAccount(w)
       PROVE  TypeOK'
  <2>1. PICK o \in todo[w] : /\ obs' = [obs EXCEPT ![w] = o]
                              /\ todo' = [todo EXCEPT ![w] = @ \ {o}]
    BY <1>12 DEF TakeAccount
  <2>2. o \in Observation /\ o # None
    BY NoneIsNoObservation DEF TypeOK, Observation
  <2>3. QED
    BY <1>1, <1>12, <2>1, <2>2 DEF TakeAccount, TypeOK, Steps
<1>13. ASSUME NEW w \in Workers, SweepEnds(w)
       PROVE  TypeOK'
  BY <1>1, <1>13 DEF SweepEnds, TypeOK, Steps, Phases
<1>14. ASSUME NEW w \in Workers, CronTick(w)
       PROVE  TypeOK'
  BY <1>1, <1>14 DEF CronTick, TypeOK, Steps
<1>15. ASSUME NEW w \in Workers, UpdateMany(w)
       PROVE  TypeOK'
  <2>1. obs[w] # None
    BY <1>15 DEF UpdateMany, TypeOK
  <2>2. /\ rows' \in [Tags -> M!Row \cup {Missing}]
        /\ unflushed' \subseteq Tags
    BY <1>3, <1>15, <2>1, WriteRowIsTyped DEF UpdateMany, TypeOK
  <2>3. QED
    BY <1>1, <1>15, <2>1, <2>2 DEF UpdateMany, TypeOK, Steps
<1>16. ASSUME NEW w \in Workers, SkipStale(w) \/ FindNothing(w)
       PROVE  TypeOK'
  BY <1>1, <1>16 DEF SkipStale, FindNothing, TypeOK, Steps
<1>17. ASSUME NEW w \in Workers, CreateRow(w)
       PROVE  TypeOK'
  <2>1. obs[w] # None
    BY <1>17 DEF CreateRow, TypeOK
  <2>2. CASE rows[obs[w].tag] = Missing
    <3>1. /\ rows' \in [Tags -> M!Row \cup {Missing}]
          /\ unflushed' \subseteq Tags
      BY <1>3, <1>17, <2>1, <2>2, WriteRowIsTyped DEF CreateRow
    <3>2. QED
      BY <1>1, <1>17, <2>1, <2>2, <3>1 DEF CreateRow, TypeOK, Steps
  <2>3. CASE rows[obs[w].tag] # Missing
    BY <1>17, <2>3, ThrowIsTyped DEF CreateRow, TypeOK
  <2>4. QED
    BY <2>2, <2>3
<1>18. ASSUME NEW w \in Workers, Invalidate(w)
       PROVE  TypeOK'
  BY <1>1, <1>2, <1>18 DEF Invalidate, TypeOK, Steps
<1>19. ASSUME NEW w \in Workers, AdvanceCursor(w) \/ FindCursor(w)
       PROVE  TypeOK'
  <2>1. obs[w] # None
    BY <1>19 DEF AdvanceCursor, FindCursor, TypeOK
  <2>2. QED
    BY <1>1, <1>3, <1>19, <2>1 DEF AdvanceCursor, FindCursor, TypeOK, Steps
<1>20. ASSUME NEW w \in Workers, CreateCursor(w)
       PROVE  TypeOK'
  <2>1. obs[w] # None
    BY <1>20 DEF CreateCursor, TypeOK
  <2>2. CASE cursor = 0
    BY <1>1, <1>3, <1>20, <2>1, <2>2 DEF CreateCursor, TypeOK, Steps
  <2>3. CASE cursor # 0
    BY <1>20, <2>3, ThrowIsTyped DEF CreateCursor, TypeOK
  <2>4. QED
    BY <2>2, <2>3
<1>21. ASSUME NEW w \in Workers, Outage(w)
       PROVE  TypeOK'
  BY <1>2, <1>21, ThrowIsTyped DEF Outage, TypeOK
<1>22. CASE Crash \/ Redeploy
  <2>1. /\ step' \in [Workers -> Steps]
        /\ \A w \in Workers : step'[w] \in {"idle", "fetch"}
    BY <1>22 DEF Crash, Redeploy, Boot, Steps
  <2>2. /\ obs' \in [Workers -> Observation \cup {None}]
        /\ \A w \in Workers : obs'[w] = None
        /\ todo' \in [Workers -> SUBSET Observation]
        /\ phase' \in Phases /\ firstConnection' \in BOOLEAN /\ open' \in BOOLEAN
        /\ stream' \subseteq Observation
    BY <1>22 DEF Crash, Redeploy, Boot, Phases
  <2>3. faults' \in 0 .. MaxFaults /\ snap' \in [Workers -> Nat]
    BY <1>2, <1>22 DEF Crash, Redeploy, Boot, TypeOK
  <2>4. QED
    BY <1>1, <1>22, <2>1, <2>2, <2>3 DEF Crash, Redeploy, Boot, TypeOK
<1>23. ASSUME NEW t \in Tags, ModeratorBlocks(t)
       PROVE  TypeOK'
  <2>1. rows[t] \in M!Row
    BY <1>23 DEF ModeratorBlocks, TypeOK
  <2>2. [rows[t] EXCEPT !.status = "blocked"] \in M!Row
    BY <2>1 DEF M!Row, M!Status
  <2>3. QED
    BY <1>1, <1>23, <2>2 DEF ModeratorBlocks, TypeOK
<1>24. ASSUME NEW w \in Workers, AnswerLost(w)
       PROVE  TypeOK'
  <2>1. obs[w] # None
    BY <1>24 DEF AnswerLost, TypeOK
  <2>2. rows' \in [Tags -> M!Row \cup {Missing}] /\ unflushed' \subseteq Tags
    BY <1>3, <1>24, <2>1, WriteRowIsTyped DEF AnswerLost, TypeOK
  <2>3. cursor' \in Nat
    BY <1>3, <1>24, <2>1 DEF AnswerLost, TypeOK
  <2>4. Throw(w) /\ UNCHANGED chainVars /\ faults' \in 0 .. MaxFaults
    BY <1>2, <1>24 DEF AnswerLost, TypeOK
  <2>5. QED
    BY <2>2, <2>3, <2>4, ThrowIsTyped
<1>25. QED
  BY <1>1, <1>4, <1>5, <1>6, <1>7, <1>8, <1>9, <1>10, <1>11, <1>12, <1>13, <1>14,
     <1>15, <1>16, <1>17, <1>18, <1>19, <1>20, <1>21, <1>22, <1>23, <1>24
  DEF Next, Flow

\* The state the process, the stores and the chain start in.
LEMMA InitIsTyped == Init => TypeOK /\ NoAccountLost
<1> SUFFICES ASSUME Init PROVE TypeOK /\ NoAccountLost
  OBVIOUS
<1>1. NoAccounts \in Ledger
  BY DEF NoAccounts, Ledger
<1>2. ChainTypeOK /\ NoAccountLost
  BY <1>1 DEF Init, ChainInit, ChainTypeOK, FinalSlot, NoAccountLost, Finalized
<1>3. /\ step \in [Workers -> Steps]
      /\ \A w \in Workers : obs[w] = None /\ step[w] \in {"idle", "fetch"}
      /\ obs \in [Workers -> Observation \cup {None}]
      /\ todo \in [Workers -> SUBSET Observation]
      /\ snap \in [Workers -> Nat]
  BY DEF Init, Steps
<1>4. rows \in [Tags -> M!Row \cup {Missing}] /\ faults \in 0 .. MaxFaults
  BY IndexerConstants DEF Init, NoAccounts
<1>5. QED
  BY <1>2, <1>3, <1>4 DEF Init, TypeOK, Phases

-----------------------------------------------------------------------------
(* Every step of the indexer is a step of the abstract mirror.             *)

mirrorVars == <<history, rows>>

\* A write of a faithful observation that is not older than the row moves
\* the row forward to a finalized snapshot.
LEMMA WriteRowMovesForward ==
  ASSUME TypeOK, NEW o \in Observation, IsFaithful(o), WriteRow(o), UNCHANGED history,
         rows[o.tag] # Missing => rows[o.tag].slot <= o.slot
  PROVE  M!MoveForward(o.tag)
<1>1. o.tag \in Tags /\ o.acct \in Account
  BY DEF Observation
<1>2. /\ o.slot \in 1 .. Len(history)
      /\ history[o.slot][o.tag] = o.acct
      /\ history[o.slot][o.tag] # Missing
  BY <1>1, MissingIsNoAccount DEF IsFaithful, FinalSlot
<1>3. /\ StatusAfter(o) \in M!Status
      /\ M!MayBecome(o.tag, StatusAfter(o))
  BY <1>1, MissingIsNoRow DEF StatusAfter, TypeOK, M!Row, M!Status, M!MayBecome
<1>4. rows' = [rows EXCEPT ![o.tag] = M!SnapshotRow(o.tag, o.slot, StatusAfter(o))]
  BY <1>2 DEF WriteRow, M!SnapshotRow
<1>5. QED
  BY <1>2, <1>3, <1>4 DEF M!MoveForward

LEMMA StepImplementsMirror ==
  ASSUME TypeOK, NoAccountLost, ObservationsFaithful, [Next]_vars
  PROVE  [M!Next]_mirrorVars
<1> USE DEF chainVars, dbVars, mirrorVars
<1>1. ASSUME NEW w \in Workers, obs[w] # None
      PROVE  obs[w] \in Observation /\ IsFaithful(obs[w]) /\ obs[w].tag \in Tags
  BY <1>1 DEF TypeOK, ObservationsFaithful, Observation
<1>2. ASSUME NEW w \in Workers, UpdateMany(w)
      PROVE  [M!Next]_mirrorVars
  <2>1. obs[w] # None
    BY <1>2 DEF UpdateMany, TypeOK
  <2>2. CASE Accepts(rows[obs[w].tag], obs[w])
    <3>1. /\ WriteRow(obs[w]) /\ UNCHANGED history
          /\ rows[obs[w].tag].slot <= obs[w].slot
      BY <1>2, <2>2 DEF UpdateMany, Accepts
    <3>2. M!MoveForward(obs[w].tag)
      BY <1>1, <2>1, <3>1, WriteRowMovesForward
    <3>3. QED
      BY <1>1, <2>1, <3>2 DEF M!Next
  <2>3. CASE ~Accepts(rows[obs[w].tag], obs[w])
    BY <1>2, <2>3 DEF UpdateMany
  <2>4. QED
    BY <2>2, <2>3
<1>3. ASSUME NEW w \in Workers, CreateRow(w)
      PROVE  [M!Next]_mirrorVars
  <2>1. obs[w] # None
    BY <1>3 DEF CreateRow, TypeOK
  <2>2. CASE rows[obs[w].tag] = Missing
    <3>1. WriteRow(obs[w]) /\ UNCHANGED history
      BY <1>3, <2>2 DEF CreateRow
    <3>2. M!MoveForward(obs[w].tag)
      BY <1>1, <2>1, <2>2, <3>1, WriteRowMovesForward
    <3>3. QED
      BY <1>1, <2>1, <3>2 DEF M!Next
  <2>3. CASE rows[obs[w].tag] # Missing
    BY <1>3, <2>3 DEF CreateRow
  <2>4. QED
    BY <2>2, <2>3
<1>4. ASSUME NEW t \in Tags, ModeratorBlocks(t)
      PROVE  M!Next
  BY <1>4 DEF ModeratorBlocks, M!Next, M!Block
<1>5. CASE PublishSlot
  <2>1. /\ bank \in Ledger
        /\ \A t \in Tags : history[Len(history)][t] # Missing => bank[t] # Missing
    BY DEF TypeOK, ChainTypeOK, NoAccountLost, Finalized, FinalSlot
  <2>2. history' = Append(history, bank) /\ UNCHANGED rows
    BY <1>5 DEF PublishSlot, FinalizeSlot
  <2>3. M!Grow
    BY <2>1, <2>2 DEF M!Grow, M!Ledger, M!Account, Ledger, Account
  <2>4. QED
    BY <2>3 DEF M!Next
<1>6. CASE Transact
  BY <1>6
  DEF Transact, Transaction, RegisterTag, RegisterWithWallet, UpdateWallet,
      TransferOwnership
<1>7. CASE UNCHANGED vars
  BY <1>7 DEF vars
<1>8. ASSUME NEW w \in Workers,
             \/ FetchAccounts(w) \/ TakeAccount(w) \/ SweepEnds(w) \/ SkipStale(w)
             \/ FindNothing(w) \/ Invalidate(w) \/ AdvanceCursor(w) \/ FindCursor(w)
             \/ CreateCursor(w) \/ CronTick(w) \/ Outage(w)
      PROVE  UNCHANGED mirrorVars
  BY <1>8
  DEF FetchAccounts, TakeAccount, SweepEnds, SkipStale, FindNothing, Invalidate,
      AdvanceCursor, FindCursor, CreateCursor, CronTick, Outage
<1>9. CASE Subscribe \/ TakeNotification \/ ConnectionLost \/ StreamEnds \/ Crash \/ Redeploy
  BY <1>9
  DEF Subscribe, TakeNotification, ConnectionLost, StreamEnds, Crash, Redeploy, Boot
<1>10. ASSUME NEW w \in Workers, AnswerLost(w)
       PROVE  [M!Next]_mirrorVars
  <2>1. obs[w] # None /\ UNCHANGED history
    BY <1>10 DEF AnswerLost, TypeOK
  <2>2. CASE /\ WriteRow(obs[w])
             /\ rows[obs[w].tag] # Missing => rows[obs[w].tag].slot <= obs[w].slot
    BY <1>1, <2>1, <2>2, WriteRowMovesForward DEF M!Next
  <2>3. CASE UNCHANGED rows
    BY <2>1, <2>3
  <2>4. QED
    BY <1>10, <2>2, <2>3 DEF AnswerLost, Accepts
<1>11. QED
  BY <1>2, <1>3, <1>4, <1>5, <1>6, <1>7, <1>8, <1>9, <1>10 DEF Next, Flow

\* Along a step of the mirror rows stay, and their slots do not go back.
LEMMA RowsMoveForward ==
  ASSUME TypeOK, [M!Next]_mirrorVars
  PROVE  \A t \in Tags : rows[t] # Missing =>
           /\ rows'[t] # Missing
           /\ rows[t].slot \in Nat /\ rows'[t].slot \in Nat
           /\ rows[t].slot <= rows'[t].slot
<1>1. \A t \in Tags : rows[t] # Missing => rows[t] \in M!Row /\ rows[t].slot \in Nat
  BY DEF TypeOK, M!Row
<1>2. CASE UNCHANGED rows
  BY <1>1, <1>2
<1>3. ASSUME NEW t \in Tags, M!MoveForward(t)
      PROVE  \A u \in Tags : rows[u] # Missing =>
               /\ rows'[u] # Missing
               /\ rows'[u].slot \in Nat
               /\ rows[u].slot <= rows'[u].slot
  <2>1. PICK s \in 1 .. Len(history), status \in M!Status :
          /\ history[s][t] # Missing
          /\ rows[t] # Missing => rows[t].slot <= s
          /\ rows' = [rows EXCEPT ![t] = M!SnapshotRow(t, s, status)]
    BY <1>3 DEF M!MoveForward
  <2>2. history[s] \in Ledger /\ s \in Nat
    BY DEF TypeOK, ChainTypeOK
  <2>3. history[s][t] \in Account
    BY <2>1, <2>2 DEF Ledger
  <2>4. M!SnapshotRow(t, s, status) \in M!Row
    BY <2>2, <2>3 DEF M!SnapshotRow, M!Row, Account
  <2>5. rows'[t] # Missing /\ rows'[t].slot = s
    BY <2>1, <2>4, MissingIsNoRow DEF TypeOK, M!SnapshotRow, M!Row, M!Status
  <2>6. QED
    BY <1>1, <2>1, <2>2, <2>5 DEF TypeOK
<1>4. ASSUME NEW t \in Tags, M!Block(t)
      PROVE  \A u \in Tags : rows[u] # Missing =>
               /\ rows'[u] # Missing
               /\ rows'[u].slot = rows[u].slot
  <2>1. /\ rows[t] \in M!Row
        /\ rows' = [rows EXCEPT ![t] = [rows[t] EXCEPT !.status = "blocked"]]
    BY <1>1, <1>4 DEF M!Block
  <2>2. /\ [rows[t] EXCEPT !.status = "blocked"] \in M!Row
        /\ [rows[t] EXCEPT !.status = "blocked"].slot = rows[t].slot
    BY <2>1 DEF M!Row, M!Status
  <2>3. QED
    BY <2>1, <2>2, MissingIsNoRow DEF TypeOK, M!Row
<1>5. QED
  BY <1>1, <1>2, <1>3, <1>4 DEF M!Next, M!Grow, mirrorVars

\* A step of the mirror keeps MirrorFaithful.
LEMMA MirrorStaysFaithful ==
  ASSUME TypeOK, NoAccountLost, ChainStep, MirrorFaithful, [M!Next]_mirrorVars
  PROVE  MirrorFaithful'
<1> USE DEF mirrorVars
<1>1. /\ FinalSlot \in Nat /\ FinalSlot' \in Nat /\ FinalSlot <= FinalSlot'
      /\ \A s \in 1 .. FinalSlot : history'[s] = history[s]
  BY SnapshotsAreKept DEF TypeOK
<1>2. \A t \in Tags : rows[t] # Missing => rows[t] \in M!Row
  BY DEF TypeOK
<1>3. CASE UNCHANGED rows
  BY <1>1, <1>3 DEF MirrorFaithful
<1>4. ASSUME NEW t \in Tags, M!MoveForward(t)
      PROVE  MirrorFaithful'
  <2>1. PICK s \in 1 .. Len(history), status \in M!Status :
          /\ history[s][t] # Missing
          /\ rows' = [rows EXCEPT ![t] = M!SnapshotRow(t, s, status)]
          /\ UNCHANGED history
    BY <1>4 DEF M!MoveForward
  <2>2. history[s][t] \in Account
    BY <2>1 DEF TypeOK, ChainTypeOK, Ledger
  <2>3. /\ rows'[t].slot = s
        /\ history'[s][t] = [owner |-> rows'[t].owner, wallet |-> rows'[t].wallet]
    BY <2>1, <2>2 DEF TypeOK, M!SnapshotRow, Account
  <2>4. \A u \in Tags : u # t => rows'[u] = rows[u]
    BY <2>1 DEF TypeOK
  <2>5. QED
    BY <2>1, <2>3, <2>4 DEF MirrorFaithful, FinalSlot
<1>5. ASSUME NEW t \in Tags, M!Block(t)
      PROVE  MirrorFaithful'
  <2>1. /\ rows[t] \in M!Row
        /\ rows[t] # Missing
        /\ rows' = [rows EXCEPT ![t] = [rows[t] EXCEPT !.status = "blocked"]]
    BY <1>2, <1>5 DEF M!Block
  <2>2. /\ rows'[t].slot = rows[t].slot
        /\ rows'[t].owner = rows[t].owner
        /\ rows'[t].wallet = rows[t].wallet
    BY <2>1 DEF TypeOK, M!Row
  <2>3. \A u \in Tags : u # t => rows'[u] = rows[u]
    BY <2>1 DEF TypeOK
  <2>4. QED
    BY <1>1, <2>1, <2>2, <2>3 DEF MirrorFaithful
<1>6. QED
  BY <1>3, <1>4, <1>5 DEF M!Next, M!Grow

-----------------------------------------------------------------------------
(* What is in flight, and the cursor.                                      *)

\* An observation stays what its slot held.
LEMMA FaithfulIsStable ==
  ASSUME ChainTypeOK, NoAccountLost, ChainStep, NEW o, IsFaithful(o)
  PROVE  IsFaithful(o)'
  BY SnapshotsAreKept DEF IsFaithful

LEMMA ObservationsStayFaithful ==
  ASSUME TypeOK, NoAccountLost, ObservationsFaithful, [Next]_vars
  PROVE  ObservationsFaithful'
<1> USE DEF GoTo, Finish, Throw, chainVars, dbVars, linkVars, flowVars
<1>1. /\ \A o : IsFaithful(o) => IsFaithful(o)'
      /\ FinalSlot \in Nat
      /\ None \notin Observation
      /\ Main \in Workers
  BY NextIsChainStep, FaithfulIsStable, NoneIsNoObservation
  DEF TypeOK, ChainTypeOK, FinalSlot, Observation, Workers
<1> DEFINE
  NothingNew ==
    /\ stream' \subseteq stream
    /\ \A w \in Workers : obs'[w] \in {obs[w], None}
    /\ \A w \in Workers : todo'[w] \subseteq todo[w]
<1>2. ASSUME NothingNew
      PROVE  ObservationsFaithful'
  BY <1>1, <1>2 DEF ObservationsFaithful
<1>3. CASE PublishSlot
  <2>1. ASSUME NEW t \in Touched, NEW o,
               o = [tag |-> t, slot |-> FinalSlot + 1, acct |-> bank[t]]
        PROVE  IsFaithful(o)'
    <3>1. FinalSlot' = FinalSlot + 1 /\ history'[FinalSlot + 1] = bank
      BY <1>1, <1>3 DEF PublishSlot, FinalizeSlot, FinalSlot, TypeOK, ChainTypeOK
    <3>2. QED
      BY <1>1, <2>1, <3>1 DEF IsFaithful
  <2>2. \A o \in stream' : IsFaithful(o)'
    BY <1>1, <1>3, <2>1 DEF PublishSlot, ObservationsFaithful
  <2>3. QED
    BY <1>1, <1>3, <2>2 DEF PublishSlot, ObservationsFaithful
<1>4. CASE TakeNotification
  <2>1. PICK o \in stream : /\ obs' = [obs EXCEPT ![Main] = o]
                             /\ stream' = stream \ {o}
    BY <1>4 DEF TakeNotification
  <2>2. QED
    BY <1>1, <1>4, <2>1 DEF TakeNotification, ObservationsFaithful, TypeOK
<1>5. ASSUME NEW w \in Workers, FetchAccounts(w)
      PROVE  ObservationsFaithful'
  <2>1. \A o \in Accounts(FinalSlot) : IsFaithful(o)
    BY <1>1 DEF Accounts, Observe, IsFaithful, TypeOK, ChainTypeOK
  <2>2. QED
    BY <1>1, <1>5, <2>1 DEF FetchAccounts, ObservationsFaithful, TypeOK
<1>6. ASSUME NEW w \in Workers, TakeAccount(w)
      PROVE  ObservationsFaithful'
  <2>1. PICK o \in todo[w] : /\ obs' = [obs EXCEPT ![w] = o]
                              /\ todo' = [todo EXCEPT ![w] = @ \ {o}]
    BY <1>6 DEF TakeAccount
  <2>2. QED
    BY <1>1, <1>6, <2>1 DEF TakeAccount, ObservationsFaithful, TypeOK
<1>7. ASSUME NEW w \in Workers,
             \/ SweepEnds(w) \/ SkipStale(w) \/ FindNothing(w) \/ Invalidate(w)
             \/ AdvanceCursor(w) \/ FindCursor(w) \/ CronTick(w) \/ UpdateMany(w)
      PROVE  NothingNew
  BY <1>7
  DEF SweepEnds, SkipStale, FindNothing, Invalidate, AdvanceCursor, FindCursor,
      CronTick, UpdateMany, TypeOK
<1>8. ASSUME NEW w \in Workers, CreateRow(w) \/ CreateCursor(w) \/ Outage(w) \/ AnswerLost(w)
      PROVE  NothingNew
  BY <1>8 DEF CreateRow, CreateCursor, Outage, AnswerLost, TypeOK
<1>9. CASE Subscribe \/ ConnectionLost \/ StreamEnds \/ Crash \/ Redeploy
  <2>1. NothingNew
    BY <1>9 DEF Subscribe, ConnectionLost, StreamEnds, Crash, Redeploy, Boot, TypeOK
  <2>2. QED
    BY <1>2, <2>1
<1>10. CASE Transact \/ UNCHANGED vars \/ \E t \in Tags : ModeratorBlocks(t)
  <2>1. NothingNew
    BY <1>10 DEF Transact, vars, ModeratorBlocks
  <2>2. QED
    BY <1>2, <2>1
<1>11. QED
  BY <1>2, <1>3, <1>4, <1>5, <1>6, <1>7, <1>8, <1>9, <1>10 DEF Next, Flow

\* A flow reaches the steps after the write only by writing its own
\* observation, and rows do not go back afterwards.
LEMMA AppliedStaysBeforeCursor ==
  ASSUME TypeOK, AppliedBeforeCursor, [Next]_vars, [M!Next]_mirrorVars
  PROVE  AppliedBeforeCursor'
<1> DEFINE Late == {"invalidate", "cursor", "cursorFind", "cursorCreate"}
<1> USE DEF GoTo, Finish, Throw, chainVars, dbVars, linkVars, flowVars
<1>1. \A t \in Tags : rows[t] # Missing =>
        /\ rows'[t] # Missing
        /\ rows[t].slot \in Nat /\ rows'[t].slot \in Nat
        /\ rows[t].slot <= rows'[t].slot
  BY RowsMoveForward
<1>2. \A w \in Workers : obs[w] # None =>
        obs[w].tag \in Tags /\ obs[w].slot \in Nat
  BY DEF TypeOK, Observation
<1>3. \A w \in Workers : step[w] \in Late => obs[w] # None
  BY DEF TypeOK
<1>4. ASSUME NEW w \in Workers, step[w] \in Late, obs'[w] = obs[w]
      PROVE  rows'[obs'[w].tag] # Missing /\ rows'[obs'[w].tag].slot >= obs'[w].slot
  BY <1>1, <1>2, <1>3, <1>4 DEF AppliedBeforeCursor
<1> DEFINE NoNewWrite ==
      \A w \in Workers : step'[w] \in Late => step[w] \in Late /\ obs'[w] = obs[w]
<1>5. ASSUME NoNewWrite
      PROVE  AppliedBeforeCursor'
  BY <1>4, <1>5 DEF AppliedBeforeCursor
<1>6. ASSUME NEW w \in Workers, WriteRow(obs[w]), obs[w] # None,
             GoTo(w, "invalidate"), UNCHANGED obs
      PROVE  AppliedBeforeCursor'
  <2>1. /\ rows'[obs[w].tag] # Missing
        /\ rows'[obs[w].tag].slot = obs[w].slot
    BY <1>6, WriteRowApplies DEF TypeOK
  <2>2. \A v \in Workers : v # w => step'[v] = step[v]
    BY <1>6 DEF TypeOK
  <2>3. QED
    BY <1>2, <1>4, <1>6, <2>1, <2>2 DEF AppliedBeforeCursor
<1>7. ASSUME NEW w \in Workers, UpdateMany(w)
      PROVE  AppliedBeforeCursor'
  <2>1. CASE Accepts(rows[obs[w].tag], obs[w])
    BY <1>6, <1>7, <2>1 DEF UpdateMany, TypeOK
  <2>2. CASE ~Accepts(rows[obs[w].tag], obs[w])
    BY <1>5, <1>7, <2>2 DEF UpdateMany, TypeOK
  <2>3. QED
    BY <2>1, <2>2
<1>8. ASSUME NEW w \in Workers, CreateRow(w)
      PROVE  AppliedBeforeCursor'
  <2>1. CASE rows[obs[w].tag] = Missing
    BY <1>6, <1>8, <2>1 DEF CreateRow, TypeOK
  <2>2. CASE rows[obs[w].tag] # Missing
    BY <1>5, <1>8, <2>2 DEF CreateRow, TypeOK
  <2>3. QED
    BY <2>1, <2>2
<1>9. ASSUME NEW w \in Workers,
             \/ FetchAccounts(w) \/ TakeAccount(w) \/ SweepEnds(w) \/ CronTick(w)
             \/ SkipStale(w) \/ FindNothing(w) \/ Outage(w) \/ AnswerLost(w)
      PROVE  NoNewWrite
  BY <1>9
  DEF FetchAccounts, TakeAccount, SweepEnds, CronTick, SkipStale, FindNothing,
      Outage, AnswerLost, TypeOK
<1>10. ASSUME NEW w \in Workers,
              \/ Invalidate(w) \/ AdvanceCursor(w) \/ FindCursor(w) \/ CreateCursor(w)
       PROVE  NoNewWrite
  BY <1>10 DEF Invalidate, AdvanceCursor, FindCursor, CreateCursor, TypeOK
<1>11. CASE \/ Subscribe \/ TakeNotification \/ StreamEnds \/ Crash \/ Redeploy
  <2>1. NoNewWrite
    BY <1>11 DEF Subscribe, TakeNotification, StreamEnds, Crash, Redeploy, Boot, TypeOK
  <2>2. QED
    BY <1>5, <2>1
<1>12. CASE \/ Transact \/ PublishSlot \/ ConnectionLost \/ UNCHANGED vars
            \/ \E t \in Tags : ModeratorBlocks(t)
  <2>1. UNCHANGED <<step, obs>>
    BY <1>12 DEF Transact, PublishSlot, ConnectionLost, vars, ModeratorBlocks
  <2>2. QED
    BY <1>5, <2>1
<1>13. QED
  BY <1>5, <1>7, <1>8, <1>9, <1>10, <1>11, <1>12 DEF Next, Flow

\* The cursor moves to the slot of an observation that has been applied.
LEMMA CursorStaysBacked ==
  ASSUME TypeOK, AppliedBeforeCursor, CursorBacked, [Next]_vars, [M!Next]_mirrorVars
  PROVE  CursorBacked'
<1>1. \A t \in Tags : rows[t] # Missing =>
        /\ rows'[t] # Missing
        /\ rows[t].slot \in Nat /\ rows'[t].slot \in Nat
        /\ rows[t].slot <= rows'[t].slot
  BY RowsMoveForward
<1>2. CASE UNCHANGED cursor
  BY <1>1, <1>2 DEF CursorBacked, TypeOK
<1>3. ASSUME NEW w \in Workers, AdvanceCursor(w) \/ CreateCursor(w) \/ AnswerLost(w),
             cursor' # cursor
      PROVE  CursorBacked'
  <2>1. /\ step[w] \in {"cursor", "cursorCreate"}
        /\ cursor' = obs[w].slot
    BY <1>3 DEF AdvanceCursor, CreateCursor, AnswerLost
  <2>2. obs[w].tag \in Tags /\ obs[w].slot \in Nat
    BY <2>1 DEF TypeOK, Observation
  <2>3. rows[obs[w].tag] # Missing /\ rows[obs[w].tag].slot >= obs[w].slot
    BY <2>1 DEF AppliedBeforeCursor
  <2>4. rows'[obs[w].tag] # Missing /\ rows'[obs[w].tag].slot >= cursor'
    BY <1>1, <2>1, <2>2, <2>3
  <2>5. QED
    BY <2>2, <2>4 DEF CursorBacked
<1>4. QED
  BY <1>2, <1>3
  DEF Next, Flow, vars, chainVars, dbVars, linkVars, flowVars, Transact, PublishSlot, Subscribe,
      TakeNotification, ConnectionLost, StreamEnds, FetchAccounts, TakeAccount,
      SweepEnds, CronTick, UpdateMany, SkipStale, FindNothing, CreateRow,
      Invalidate, FindCursor, Outage, Crash, Redeploy, Boot, ModeratorBlocks

-----------------------------------------------------------------------------
(* The startup backfill runs alone.                                        *)

\* A call of the flow fails, before or after it took effect.
Failure(w) == Outage(w) \/ AnswerLost(w)

\* The sweeps of the scheduler are under way neither before the startup
\* backfill has ended nor after it has failed, so its rows and its cursor are
\* its own: main() can be stopped by an outage only.
LEMMA StartupStaysAlone ==
  ASSUME TypeOK, StartupIsAlone, FailsOnlyByOutage, [Next]_vars
  PROVE  StartupIsAlone' /\ FailsOnlyByOutage'
<1> USE DEF GoTo, Finish, chainVars, dbVars, linkVars, flowVars
<1>1. /\ Main \notin Crons /\ Main \in Workers /\ Crons \subseteq Workers
      /\ faults \in Nat /\ MaxFaults \in Nat
  BY IndexerConstants DEF Workers, TypeOK
<1>2. ASSUME phase' \notin {"startup", "failed"}
      PROVE  StartupIsAlone' /\ FailsOnlyByOutage'
  BY <1>2 DEF StartupIsAlone, FailsOnlyByOutage
<1>3. ASSUME UNCHANGED <<phase, step, obs, rows, cursor, faults>>
      PROVE  StartupIsAlone' /\ FailsOnlyByOutage'
  BY <1>3 DEF StartupIsAlone, FailsOnlyByOutage, Accepts
<1>4. CASE Transact \/ PublishSlot \/ ConnectionLost \/ UNCHANGED vars
  BY <1>3, <1>4 DEF Transact, PublishSlot, ConnectionLost, vars
<1>5. CASE Subscribe \/ TakeNotification \/ StreamEnds
  BY <1>2, <1>5 DEF Subscribe, TakeNotification, StreamEnds
<1>6. CASE Crash \/ Redeploy
  <2>1. /\ phase' = "startup" /\ step'[Main] = "fetch"
        /\ \A c \in Crons : step'[c] = "idle"
    BY <1>1, <1>6 DEF Crash, Redeploy, Boot
  <2>2. QED
    BY <2>1 DEF StartupIsAlone, FailsOnlyByOutage
<1>7. ASSUME NEW t \in Tags, ModeratorBlocks(t)
      PROVE  StartupIsAlone' /\ FailsOnlyByOutage'
  <2>1. /\ rows[t] \in M!Row /\ rows[t] # Missing
        /\ rows' = [rows EXCEPT ![t] = [rows[t] EXCEPT !.status = "blocked"]]
        /\ UNCHANGED <<phase, step, obs, cursor, faults>>
    BY <1>7 DEF ModeratorBlocks, TypeOK
  <2>2. /\ [rows[t] EXCEPT !.status = "blocked"] \in M!Row
        /\ [rows[t] EXCEPT !.status = "blocked"].slot = rows[t].slot
    BY <2>1 DEF M!Row, M!Status
  <2>3. /\ rows'[t].slot = rows[t].slot
        /\ rows'[t] # Missing
        /\ \A u \in Tags : u # t => rows'[u] = rows[u]
    BY <2>1, <2>2, MissingIsNoRow DEF TypeOK, M!Row, M!Status
  <2>4. step[Main] \in {"find", "create"} => obs[Main].tag \in Tags
    BY <1>1 DEF TypeOK, Observation
  <2>5. (phase' = "startup" /\ step'[Main] = "find")
          => ~Accepts(rows'[obs'[Main].tag], obs'[Main])
    BY <2>1, <2>3, <2>4 DEF StartupIsAlone, Accepts
  <2>6. (phase' = "startup" /\ step'[Main] = "create")
          => rows'[obs'[Main].tag] = Missing
    BY <2>1, <2>3, <2>4 DEF StartupIsAlone
  <2>7. QED
    BY <2>1, <2>5, <2>6 DEF StartupIsAlone, FailsOnlyByOutage, Accepts
<1>8. ASSUME NEW w \in Workers, Flow(w) \/ CronTick(w) \/ Failure(w),
             phase \notin {"startup", "failed"}
      PROVE  StartupIsAlone' /\ FailsOnlyByOutage'
  <2>1. phase' \notin {"startup", "failed"}
    BY <1>8
    DEF Flow, CronTick, Failure, Outage, AnswerLost, Throw, FetchAccounts, TakeAccount, SweepEnds,
        UpdateMany, SkipStale, FindNothing, CreateRow, Invalidate,
        AdvanceCursor, FindCursor, CreateCursor
  <2>2. QED
    BY <1>2, <2>1
<1>9. ASSUME NEW w \in Crons, Flow(w) \/ CronTick(w) \/ Failure(w),
             phase \in {"startup", "failed"}
      PROVE  FALSE
  BY <1>9
  DEF StartupIsAlone, Flow, CronTick, Failure, Outage, AnswerLost, FetchAccounts, TakeAccount,
      SweepEnds, UpdateMany, SkipStale, FindNothing, CreateRow, Invalidate,
      AdvanceCursor, FindCursor, CreateCursor
<1>10. ASSUME Flow(Main) \/ Failure(Main), phase = "failed"
       PROVE  StartupIsAlone' /\ FailsOnlyByOutage'
  <2>1. /\ phase' \in {"failed", "connecting"}
        /\ faults' >= faults
        /\ \A c \in Crons : step'[c] = step[c]
    BY <1>1, <1>10
    DEF Flow, Failure, Outage, AnswerLost, Throw, Sweeping, FetchAccounts, TakeAccount, SweepEnds,
        UpdateMany, SkipStale, FindNothing, CreateRow, Invalidate,
        AdvanceCursor, FindCursor, CreateCursor, TypeOK
  <2>2. faults' \in Nat /\ faults > 0
    BY <1>1, <1>10
    DEF FailsOnlyByOutage, Flow, Failure, Outage, AnswerLost, FetchAccounts, TakeAccount, SweepEnds,
        UpdateMany, SkipStale, FindNothing, CreateRow, Invalidate,
        AdvanceCursor, FindCursor, CreateCursor
  <2>3. QED
    BY <1>1, <1>10, <2>1, <2>2 DEF StartupIsAlone, FailsOnlyByOutage
<1>11. ASSUME Flow(Main) \/ Failure(Main), phase = "startup"
       PROVE  StartupIsAlone' /\ FailsOnlyByOutage'
  <2>1. \A c \in Crons : step[c] = "idle" /\ step'[c] = "idle"
    BY <1>1, <1>11
    DEF StartupIsAlone, Flow, Failure, Outage, AnswerLost, Throw, FetchAccounts, TakeAccount, SweepEnds,
        UpdateMany, SkipStale, FindNothing, CreateRow, Invalidate,
        AdvanceCursor, FindCursor, CreateCursor, TypeOK
  <2>2. ASSUME step'[Main] \notin {"find", "create", "cursorCreate"},
               phase' # "failed"
        PROVE  StartupIsAlone' /\ FailsOnlyByOutage'
    BY <2>1, <2>2 DEF StartupIsAlone, FailsOnlyByOutage
  <2>3. CASE \/ FetchAccounts(Main) \/ TakeAccount(Main) \/ SweepEnds(Main)
             \/ SkipStale(Main) \/ Invalidate(Main) \/ AdvanceCursor(Main)
    BY <1>1, <1>11, <2>2, <2>3
    DEF FetchAccounts, TakeAccount, SweepEnds, SkipStale, Invalidate,
        AdvanceCursor, TypeOK
  <2>4. CASE UpdateMany(Main)
    <3>1. CASE Accepts(rows[obs[Main].tag], obs[Main])
      BY <1>1, <1>11, <2>2, <2>4, <3>1 DEF UpdateMany, TypeOK
    <3>2. CASE ~Accepts(rows[obs[Main].tag], obs[Main])
      <4>1. step'[Main] = "find" /\ UNCHANGED <<phase, rows, obs, faults>>
        BY <1>1, <2>4, <3>2 DEF UpdateMany, TypeOK
      <4>2. QED
        BY <1>11, <2>1, <3>2, <4>1 DEF StartupIsAlone, FailsOnlyByOutage, Accepts
    <3>3. QED
      BY <3>1, <3>2
  <2>5. CASE FindNothing(Main)
    <3>1. /\ step'[Main] = "create" /\ UNCHANGED <<phase, rows, obs, faults>>
          /\ rows[obs[Main].tag] = Missing
      BY <1>1, <2>5 DEF FindNothing, TypeOK
    <3>2. QED
      BY <1>11, <2>1, <3>1 DEF StartupIsAlone, FailsOnlyByOutage
  <2>6. CASE CreateRow(Main)
    <3>1. rows[obs[Main].tag] = Missing
      BY <1>11, <2>6 DEF CreateRow, StartupIsAlone
    <3>2. QED
      BY <1>1, <1>11, <2>2, <2>6, <3>1 DEF CreateRow, TypeOK
  <2>7. CASE FindCursor(Main)
    <3>1. CASE cursor = 0
      <4>1. step'[Main] = "cursorCreate" /\ UNCHANGED <<phase, cursor, faults>>
        BY <1>1, <2>7, <3>1 DEF FindCursor, TypeOK
      <4>2. QED
        BY <1>11, <2>1, <3>1, <4>1 DEF StartupIsAlone, FailsOnlyByOutage
    <3>2. CASE cursor # 0
      BY <1>1, <1>11, <2>2, <2>7, <3>2 DEF FindCursor, TypeOK
    <3>3. QED
      BY <3>1, <3>2
  <2>8. CASE CreateCursor(Main)
    <3>1. cursor = 0
      BY <1>11, <2>8 DEF CreateCursor, StartupIsAlone
    <3>2. QED
      BY <1>1, <1>11, <2>2, <2>8, <3>1 DEF CreateCursor, TypeOK
  <2>9. CASE Failure(Main)
    <3>1. step'[Main] = "idle" /\ faults' = faults + 1
      BY <1>1, <2>9 DEF Failure, Outage, AnswerLost, Throw, TypeOK
    <3>2. QED
      BY <1>1, <2>1, <3>1 DEF StartupIsAlone, FailsOnlyByOutage
  <2>10. QED
    BY <1>11, <2>3, <2>4, <2>5, <2>6, <2>7, <2>8, <2>9 DEF Flow
<1>12. ASSUME NEW w \in Workers, Flow(w) \/ CronTick(w) \/ Failure(w)
       PROVE  StartupIsAlone' /\ FailsOnlyByOutage'
  <2>1. CASE phase \notin {"startup", "failed"}
    BY <1>8, <1>12, <2>1
  <2>2. CASE phase \in {"startup", "failed"}
    <3>1. w = Main /\ ~CronTick(w)
      BY <1>1, <1>9, <1>12, <2>2 DEF Workers, CronTick
    <3>2. QED
      BY <1>10, <1>11, <1>12, <2>2, <3>1
  <2>3. QED
    BY <2>1, <2>2
<1>13. QED
  BY <1>4, <1>5, <1>6, <1>7, <1>12 DEF Next, Failure

\* A row written is flushed at the flow's next step, which only an outage can
\* prevent (pipeline.ts: apply, invalidate, advance).
LEMMA FlushStaysDue ==
  ASSUME TypeOK, FailsOnlyByOutage, FlushIsDue, [Next]_vars
  PROVE  FlushIsDue'
<1> USE DEF GoTo, Finish, chainVars, dbVars, linkVars, flowVars
<1>1. faults \in Nat
  BY IndexerConstants DEF TypeOK
<1> DEFINE Pending == \A w \in Workers : step[w] = "invalidate" =>
                        step'[w] = "invalidate" /\ obs'[w] = obs[w]
<1>2. ASSUME Pending, unflushed' \subseteq unflushed, faults' = faults
      PROVE  FlushIsDue'
  BY <1>2 DEF FlushIsDue
<1>3. ASSUME NEW w \in Workers, Pending, WriteRow(obs[w]), UNCHANGED <<obs, faults>>,
             step'[w] = "invalidate"
      PROVE  FlushIsDue'
  BY <1>3 DEF FlushIsDue, WriteRow
<1>4. ASSUME faults' > 0
      PROVE  FlushIsDue'
  BY <1>4 DEF FlushIsDue
<1>5. CASE Crash \/ Redeploy \/ \E w \in Workers : Failure(w)
  <2>1. faults' > 0
    BY <1>1, <1>5 DEF Crash, Redeploy, Failure, Outage, AnswerLost, FailsOnlyByOutage
  <2>2. QED
    BY <1>4, <2>1
<1>6. CASE \/ Transact \/ PublishSlot \/ ConnectionLost \/ UNCHANGED vars
           \/ \E t \in Tags : ModeratorBlocks(t)
  BY <1>2, <1>6 DEF Transact, PublishSlot, ConnectionLost, vars, ModeratorBlocks
<1>7. CASE Subscribe \/ TakeNotification \/ StreamEnds
  BY <1>2, <1>7 DEF Subscribe, TakeNotification, StreamEnds, TypeOK
<1>8. ASSUME NEW w \in Workers,
             \/ FetchAccounts(w) \/ TakeAccount(w) \/ SweepEnds(w) \/ CronTick(w)
             \/ SkipStale(w) \/ FindNothing(w)
      PROVE  FlushIsDue'
  BY <1>2, <1>8
  DEF FetchAccounts, TakeAccount, SweepEnds, CronTick, SkipStale, FindNothing, TypeOK
<1>9. ASSUME NEW w \in Workers, AdvanceCursor(w) \/ FindCursor(w) \/ CreateCursor(w)
      PROVE  FlushIsDue'
  BY <1>2, <1>9 DEF AdvanceCursor, FindCursor, CreateCursor, Throw, TypeOK
<1>10. ASSUME NEW w \in Workers, UpdateMany(w) \/ CreateRow(w)
       PROVE  FlushIsDue'
  <2>1. CASE WriteRow(obs[w]) /\ GoTo(w, "invalidate") /\ UNCHANGED <<obs, faults>>
    BY <1>3, <1>10, <2>1 DEF UpdateMany, CreateRow, TypeOK
  <2>2. CASE UpdateMany(w) /\ UNCHANGED unflushed /\ GoTo(w, "find")
    BY <1>2, <2>2 DEF UpdateMany, TypeOK
  <2>3. CASE CreateRow(w) /\ UNCHANGED unflushed /\ Throw(w)
    BY <1>2, <2>3 DEF CreateRow, Throw, TypeOK
  <2>4. QED
    BY <1>10, <2>1, <2>2, <2>3 DEF UpdateMany, CreateRow
<1>11. ASSUME NEW w \in Workers, Invalidate(w)
       PROVE  FlushIsDue'
  <2>1. CASE faults' = faults + 1
    BY <1>1, <1>4, <2>1
  <2>2. CASE unflushed' = unflushed \ {obs[w].tag} /\ UNCHANGED faults
    <3>1. \A v \in Workers : v # w => step'[v] = step[v] /\ obs'[v] = obs[v]
      BY <1>11 DEF Invalidate, TypeOK
    <3>2. QED
      BY <2>2, <3>1 DEF FlushIsDue
  <2>3. QED
    BY <1>11, <2>1, <2>2 DEF Invalidate
<1>12. QED
  BY <1>5, <1>6, <1>7, <1>8, <1>9, <1>10, <1>11 DEF Next, Flow, Failure

-----------------------------------------------------------------------------
(* What a sweep covers.                                                    *)

\* One sweep: what a step takes out of its hands, it has mirrored.
LEMMA SweepStaysCovered ==
  ASSUME TypeOK, NoAccountLost, ChainStep, SweepsCover, [M!Next]_mirrorVars,
         NEW w \in Workers,
         snap'[w] \in {0, snap[w]},
         w = Main /\ phase' = "startup" /\ snap'[w] # 0 => phase = "startup",
         \A o \in Observation :
           IsAhead(w, o) /\ o.slot = snap[w] /\ snap'[w] # 0
             => IsAhead(w, o)' \/ IsMirrored(w, o)'
  PROVE  snap'[w] # 0 =>
           /\ snap'[w] <= FinalSlot'
           /\ \A o \in Accounts(snap[w])' : IsAhead(w, o)' \/ IsMirrored(w, o)'
<1> SUFFICES ASSUME snap'[w] # 0
             PROVE  /\ snap'[w] <= FinalSlot'
                    /\ \A o \in Accounts(snap[w])' : IsAhead(w, o)' \/ IsMirrored(w, o)'
  OBVIOUS
<1>1. /\ FinalSlot \in Nat /\ FinalSlot' \in Nat /\ FinalSlot <= FinalSlot'
      /\ snap[w] \in 1 .. FinalSlot /\ snap'[w] = snap[w]
  BY SnapshotsAreKept DEF TypeOK, SweepsCover
<1>2. Accounts(snap[w])' = Accounts(snap[w])
  <2>1. history'[snap[w]] = history[snap[w]]
    BY <1>1, SnapshotsAreKept DEF TypeOK
  <2>2. QED
    BY <1>1, <2>1 DEF Accounts, Observe
<1>3. ASSUME NEW o \in Accounts(snap[w])
      PROVE  IsAhead(w, o)' \/ IsMirrored(w, o)'
  <2>1. o \in Observation /\ o.slot = snap[w] /\ o.tag \in Tags
    BY <1>1, ObservationsHaveTheirType DEF TypeOK, Accounts, Observe
  <2>2. CASE IsAhead(w, o)
    BY <1>1, <2>1, <2>2
  <2>3. CASE IsMirrored(w, o)
    <3>1. /\ rows'[o.tag] # Missing
          /\ rows[o.tag].slot \in Nat /\ rows'[o.tag].slot \in Nat
          /\ rows[o.tag].slot <= rows'[o.tag].slot
      BY <2>1, <2>3, RowsMoveForward DEF IsMirrored
    <3>2. QED
      BY <1>1, <2>1, <2>3, <3>1 DEF IsMirrored
  <2>4. QED
    BY <1>1, <2>2, <2>3 DEF SweepsCover
<1>4. QED
  BY <1>1, <1>2, <1>3

\* The step that finishes an account of a sweep is one at which its tag has a
\* row: the guarded update or the create wrote it, or findUnique saw it.
LEMMA SweepsKeepCovering ==
  ASSUME TypeOK, NoAccountLost, StartupIsAlone, SweepsCover, ChainStep,
         [Next]_vars, [M!Next]_mirrorVars
  PROVE  SweepsCover'
<1> SUFFICES ASSUME NEW w \in Workers, snap'[w] # 0
             PROVE  /\ snap'[w] <= FinalSlot'
                    /\ \A o \in Accounts(snap[w])' : IsAhead(w, o)' \/ IsMirrored(w, o)'
  BY DEF SweepsCover
<1> DEFINE Early == {"update", "find", "create"}
           Goal == /\ snap'[w] <= FinalSlot'
                   /\ \A o \in Accounts(snap[w])' : IsAhead(w, o)' \/ IsMirrored(w, o)'
<1> USE DEF GoTo, Finish, Throw, chainVars, dbVars, linkVars, flowVars
<1>1. /\ Main \notin Crons /\ Main \in Workers
      /\ None \notin Observation
      /\ \A v \in Workers : step[v] \in Early => obs[v] \in Observation
  BY IndexerConstants, NoneIsNoObservation DEF Workers, TypeOK, Observation
<1>2. ASSUME snap'[w] = snap[w], phase' = "startup" => phase = "startup",
             \A o \in Observation : IsAhead(w, o) /\ o.slot = snap[w]
               => IsAhead(w, o)' \/ IsMirrored(w, o)'
      PROVE  Goal
  BY <1>2, SweepStaysCovered
<1>3. ASSUME snap'[w] = snap[w], phase' = "startup" => phase = "startup",
             todo'[w] = todo[w],
             step[w] \in Early => step'[w] \in Early /\ obs'[w] = obs[w]
      PROVE  Goal
  BY <1>2, <1>3 DEF IsAhead
<1>4. CASE \/ Transact \/ PublishSlot \/ ConnectionLost \/ UNCHANGED vars
           \/ \E t \in Tags : ModeratorBlocks(t)
  BY <1>3, <1>4 DEF Transact, PublishSlot, ConnectionLost, vars, ModeratorBlocks
<1>5. CASE Subscribe \/ TakeNotification \/ StreamEnds
  BY <1>3, <1>5 DEF Subscribe, TakeNotification, StreamEnds, TypeOK
<1>6. CASE Crash \/ Redeploy
  BY <1>6 DEF Crash, Redeploy, Boot
<1>7. ASSUME NEW v \in Workers, Flow(v) \/ CronTick(v) \/ Failure(v), v # w
      PROVE  Goal
  <2>1. /\ step'[w] = step[w] /\ obs'[w] = obs[w]
        /\ todo'[w] = todo[w] /\ snap'[w] = snap[w]
        /\ phase' = "startup" => phase = "startup"
    BY <1>7
    DEF Flow, CronTick, Failure, Outage, AnswerLost, FetchAccounts, TakeAccount, SweepEnds,
        UpdateMany, SkipStale, FindNothing, CreateRow, Invalidate,
        AdvanceCursor, FindCursor, CreateCursor, TypeOK
  <2>2. QED
    BY <1>3, <2>1
<1>8. CASE FetchAccounts(w)
  <2>1. snap'[w] = FinalSlot /\ todo'[w] = Accounts(FinalSlot) /\ UNCHANGED history
    BY <1>8 DEF FetchAccounts, TypeOK
  <2>2. Accounts(snap[w])' = Accounts(FinalSlot) /\ FinalSlot \in Nat /\ FinalSlot' = FinalSlot
    BY <2>1 DEF Accounts, Observe, FinalSlot, TypeOK, ChainTypeOK
  <2>3. QED
    BY <2>1, <2>2 DEF IsAhead
<1>9. CASE TakeAccount(w)
  <2>1. PICK o \in todo[w] : /\ obs' = [obs EXCEPT ![w] = o]
                              /\ todo' = [todo EXCEPT ![w] = @ \ {o}]
    BY <1>9 DEF TakeAccount
  <2>2. obs'[w] = o /\ todo'[w] = todo[w] \ {o} /\ step'[w] = "update"
    BY <1>9, <2>1 DEF TakeAccount, TypeOK
  <2>3. QED
    BY <1>2, <1>9, <2>2 DEF TakeAccount, IsAhead
<1>10. CASE SweepEnds(w) \/ Failure(w)
  BY <1>10 DEF SweepEnds, Failure, Outage, AnswerLost, TypeOK
<1>11. CASE CronTick(w) \/ Invalidate(w) \/ AdvanceCursor(w) \/ FindCursor(w)
  BY <1>3, <1>11 DEF CronTick, Invalidate, AdvanceCursor, FindCursor, TypeOK
<1>12. CASE CreateCursor(w)
  BY <1>3, <1>12 DEF CreateCursor, TypeOK
<1>13. CASE FindNothing(w)
  BY <1>3, <1>13 DEF FindNothing, TypeOK
<1>14. ASSUME WriteRow(obs[w]), step[w] \in Early,
              UNCHANGED <<obs, todo, snap, phase>>
       PROVE  Goal
  <2>1. obs[w] \in Observation
    BY <1>1, <1>14
  <2>2. rows'[obs[w].tag] # Missing /\ rows'[obs[w].tag].slot = obs[w].slot
    BY <1>14, <2>1, WriteRowApplies
  <2>3. obs[w].slot \in Nat
    BY <2>1 DEF Observation
  <2>4. QED
    BY <1>2, <1>14, <2>2, <2>3 DEF IsAhead, IsMirrored
<1>15. CASE UpdateMany(w)
  <2>1. CASE Accepts(rows[obs[w].tag], obs[w])
    BY <1>14, <1>15, <2>1 DEF UpdateMany
  <2>2. CASE ~Accepts(rows[obs[w].tag], obs[w])
    BY <1>3, <1>15, <2>2 DEF UpdateMany, TypeOK
  <2>3. QED
    BY <2>1, <2>2
<1>16. CASE CreateRow(w)
  <2>1. CASE rows[obs[w].tag] = Missing
    BY <1>14, <1>16, <2>1 DEF CreateRow
  <2>2. CASE rows[obs[w].tag] # Missing
    BY <1>16, <2>2 DEF CreateRow, TypeOK
  <2>3. QED
    BY <2>1, <2>2
<1>17. CASE SkipStale(w)
  <2>1. /\ obs[w] \in Observation /\ rows[obs[w].tag] # Missing
        /\ UNCHANGED <<rows, todo, snap, phase>>
    BY <1>1, <1>17 DEF SkipStale
  <2>2. rows[obs[w].tag].slot \in Nat /\ obs[w].slot \in Nat
    BY <2>1 DEF TypeOK, Observation, M!Row
  <2>3. (w = Main /\ phase = "startup") => rows[obs[w].tag].slot >= obs[w].slot
    BY <1>17, <2>1, <2>2 DEF SkipStale, StartupIsAlone, Accepts
  <2>4. QED
    BY <1>2, <2>1, <2>3 DEF IsAhead, IsMirrored
<1>18. QED
  BY <1>4, <1>5, <1>6, <1>7, <1>8, <1>9, <1>10, <1>11, <1>12, <1>13, <1>15, <1>16,
     <1>17 DEF Next, Flow, Failure

-----------------------------------------------------------------------------
(* The theorems.                                                           *)

LEMMA InitImpliesIInv == Init => IInv
<1> SUFFICES ASSUME Init PROVE IInv
  OBVIOUS
<1>1. TypeOK /\ NoAccountLost
  BY InitIsTyped
<1>2. MirrorFaithful /\ CursorBacked
  BY DEF Init, MirrorFaithful, CursorBacked, NoAccounts
<1>3. ObservationsFaithful /\ AppliedBeforeCursor
  BY DEF Init, ObservationsFaithful, AppliedBeforeCursor
<1>4. StartupIsAlone /\ FailsOnlyByOutage /\ FlushIsDue
  BY IndexerConstants
  DEF Init, StartupIsAlone, FailsOnlyByOutage, FlushIsDue, Workers
<1>5. SweepsCover
  BY DEF Init, SweepsCover
<1>6. QED
  BY <1>1, <1>2, <1>3, <1>4, <1>5 DEF IInv

LEMMA IInvIsInductive == IInv /\ [Next]_vars => IInv'
<1> SUFFICES ASSUME IInv, [Next]_vars PROVE IInv'
  OBVIOUS
<1> USE DEF IInv
<1>1. TypeOK' /\ NoAccountLost'
  BY TypeStep
<1>2. ChainStep /\ [M!Next]_mirrorVars
  BY NextIsChainStep, StepImplementsMirror
<1>3. MirrorFaithful'
  BY <1>2, MirrorStaysFaithful
<1>4. ObservationsFaithful'
  BY ObservationsStayFaithful
<1>5. AppliedBeforeCursor' /\ CursorBacked'
  BY <1>2, AppliedStaysBeforeCursor, CursorStaysBacked
<1>6. StartupIsAlone' /\ FailsOnlyByOutage' /\ FlushIsDue'
  BY StartupStaysAlone, FlushStaysDue
<1>7. SweepsCover'
  BY <1>2, SweepsKeepCovering
<1>8. QED
  BY <1>1, <1>3, <1>4, <1>5, <1>6, <1>7

\* The inductive invariant holds in every reachable state of the indexer.
THEOREM Invariance == Spec => []IInv
  BY InitImpliesIInv, IInvIsInductive, PTL DEF Spec

\* Every variable keeps its type.
THEOREM TypeCorrect == Spec => []TypeOK
<1>1. IInv => TypeOK
  BY DEF IInv
<1>2. QED
  BY <1>1, Invariance, PTL

\* Rows only ever hold an account as the slot they carry finalized it
\* (apply-change.ts, for any overlap of sweeps and notifications).
THEOREM MirrorIsFaithful == Spec => []MirrorFaithful
<1>1. IInv => MirrorFaithful
  BY DEF IInv
<1>2. QED
  BY <1>1, Invariance, PTL

\* The cursor is never ahead of every row (cursor.ts, pipeline.ts).
THEOREM CursorIsBacked == Spec => []CursorBacked
<1>1. IInv => CursorBacked
  BY DEF IInv
<1>2. QED
  BY <1>1, Invariance, PTL

\* No sweep drops an account of its snapshot: when it has nothing left to do,
\* all of them have a row, and after the startup backfill a row at least as
\* new as the snapshot (sweeper.ts, main.ts:23-25).
THEOREM SweepsCoverTheirSnapshots == Spec => []SweepsCover
<1>1. IInv => SweepsCover
  BY DEF IInv
<1>2. QED
  BY <1>1, Invariance, PTL

\* Overlapping flows cannot make main() fail: only an outage stops the startup
\* backfill (main.ts:23-36).
THEOREM StartupFailsOnlyByOutage == Spec => []FailsOnlyByOutage
<1>1. IInv => FailsOnlyByOutage
  BY DEF IInv
<1>2. QED
  BY <1>1, Invariance, PTL

\* Without outages no written row is forgotten before its key is deleted, also
\* when two flows write the same tag (pipeline.ts).
THEOREM FlushesAreDue == Spec => []FlushIsDue
<1>1. IInv => FlushIsDue
  BY DEF IInv
<1>2. QED
  BY <1>1, Invariance, PTL

\* The indexer implements the abstract mirror: rows move forward from
\* finalized snapshot to finalized snapshot, are never deleted, and a blocked
\* row is never made active (apply-change.ts:20-33).
THEOREM IndexerImplementsMirror == Spec => MirrorSpec
<1>1. Init => M!Init
  BY DEF Init, ChainInit, M!Init, M!NoAccounts, NoAccounts
<1>2. IInv /\ [Next]_vars => [M!Next]_<<history, rows>>
  BY StepImplementsMirror DEF IInv, mirrorVars
<1>3. QED
  BY <1>1, <1>2, Invariance, PTL DEF Spec, MirrorSpec, M!Spec

-----------------------------------------------------------------------------
(* One tag at a time.  ResolveCache follows a single tag, and takes the     *)
(* indexer to be any program that keeps the mirror of this tag.            *)

\* The history as those see it who only look at tag t, and the mirror they see.
LedgerFor(t, ledger) == [u \in {t} |-> ledger[u]]
HistoryFor(t, h) == [s \in 1 .. Len(h) |-> LedgerFor(t, h[s])]
RowsFor(t, r) == [u \in {t} |-> r[u]]

OneTag(t) == INSTANCE Mirror WITH
  Tags    <- {t},
  Profane <- Profane \cap {t},
  history <- [s \in 1 .. Len(history) |-> [u \in {t} |-> history[s][u]]],
  rows    <- [u \in {t} |-> rows[u]]

\* A sequence is the function of its elements.
LEMMA SequenceIsFunction ==
  ASSUME NEW S, NEW q \in Seq(S)
  PROVE  q = [s \in 1 .. Len(q) |-> q[s]]
<1>1. q \in [1 .. Len(q) -> S]
  BY LenProperties
<1>2. QED
  BY <1>1

\* One more slot is one more ledger, for every tag.
LEMMA AppendedHistory ==
  ASSUME NEW t \in Tags, NEW h \in Seq(Ledger), NEW ledger \in Ledger
  PROVE  HistoryFor(t, Append(h, ledger)) = Append(HistoryFor(t, h), LedgerFor(t, ledger))
<1> DEFINE n == Len(h)
           G == HistoryFor(t, h)
           last == LedgerFor(t, ledger)
           seen == {LedgerFor(t, h[s]) : s \in 1 .. n} \cup {last}
<1>1. n \in Nat /\ Len(Append(h, ledger)) = n + 1
  OBVIOUS
<1>2. \A s \in 1 .. n + 1 : Append(h, ledger)[s] = IF s = n + 1 THEN ledger ELSE h[s]
  BY <1>1
<1>3. G \in Seq(seen) /\ Len(G) = n /\ last \in seen
  <2> HIDE DEF last
  <2>1. last \in seen /\ \A s \in 1 .. n : LedgerFor(t, h[s]) \in seen
    OBVIOUS
  <2> HIDE DEF seen
  <2>2. QED
    BY <1>1, <2>1 DEF HistoryFor
<1>4. \A s \in 1 .. n : G[s] = LedgerFor(t, h[s])
  BY DEF HistoryFor, LedgerFor
<1> HIDE DEF seen, G, last
<1>5. /\ Append(G, last) \in Seq(seen) /\ Len(Append(G, last)) = n + 1
      /\ \A s \in 1 .. n + 1 : Append(G, last)[s] = IF s = n + 1 THEN last ELSE G[s]
  BY <1>1, <1>3
<1>6. Append(G, last) = [s \in 1 .. n + 1 |-> Append(G, last)[s]]
  BY <1>5, SequenceIsFunction
<1>7. ASSUME NEW s \in 1 .. n + 1
      PROVE  LedgerFor(t, Append(h, ledger)[s]) = Append(G, last)[s]
  <2>1. CASE s = n + 1
    BY <1>2, <1>5, <2>1 DEF last
  <2>2. CASE s # n + 1
    <3>1. s \in 1 .. n
      BY <1>1, <2>2
    <3>2. QED
      BY <1>2, <1>4, <1>5, <2>2, <3>1
  <2>3. QED
    BY <2>1, <2>2
<1>8. HistoryFor(t, Append(h, ledger))
        = [s \in 1 .. n + 1 |-> LedgerFor(t, Append(h, ledger)[s])]
  BY <1>1 DEF HistoryFor, LedgerFor
<1>9. QED
  BY <1>6, <1>7, <1>8 DEF G, last

\* Every step of the mirror is a step of the mirror of one tag, or none for it.
LEMMA StepAtOneTag ==
  ASSUME TypeOK, NEW t \in Tags, [M!Next]_mirrorVars
  PROVE  [OneTag(t)!Next]_<<HistoryFor(t, history), RowsFor(t, rows)>>
<1>1. history \in Seq(Ledger) /\ Len(history) \in Nat
  BY DEF TypeOK, ChainTypeOK
<1>2. CASE UNCHANGED mirrorVars
  BY <1>2 DEF mirrorVars, HistoryFor, LedgerFor, RowsFor
<1>3. CASE M!Grow
  <2>1. PICK ledger \in Ledger :
          /\ \A u \in Tags : history[Len(history)][u] # Missing => ledger[u] # Missing
          /\ history' = Append(history, ledger)
          /\ UNCHANGED rows
    BY <1>3 DEF M!Grow, M!Ledger, Ledger, M!Account, Account
  <2>2. HistoryFor(t, history)' = Append(HistoryFor(t, history), LedgerFor(t, ledger))
    BY <1>1, <2>1, AppendedHistory
  <2>3. LedgerFor(t, ledger) \in [{t} -> Account \cup {Missing}]
    BY <2>1 DEF LedgerFor, Ledger
  <2>4. RowsFor(t, rows)' = RowsFor(t, rows)
    BY <2>1 DEF RowsFor
  <2>5. /\ Len(HistoryFor(t, history)) = Len(history) /\ Len(history) \in 1 .. Len(history)
        /\ HistoryFor(t, history)[Len(history)][t] = history[Len(history)][t]
        /\ LedgerFor(t, ledger)[t] = ledger[t]
    BY <1>1 DEF HistoryFor, LedgerFor, TypeOK, ChainTypeOK, FinalSlot
  <2>6. /\ LedgerFor(t, ledger) \in OneTag(t)!Ledger
        /\ \A u \in {t} : HistoryFor(t, history)[Len(HistoryFor(t, history))][u] # Missing
                            => LedgerFor(t, ledger)[u] # Missing
    BY <2>1, <2>3, <2>5 DEF OneTag!Ledger, OneTag!Account, Account
  <2>7. OneTag(t)!Grow
    <3> DEFINE L == LedgerFor(t, ledger)
    <3> HIDE DEF L
    <3>1. /\ L \in OneTag(t)!Ledger
          /\ \A u \in {t} : HistoryFor(t, history)[Len(HistoryFor(t, history))][u] # Missing
                              => L[u] # Missing
          /\ HistoryFor(t, history)' = Append(HistoryFor(t, history), L)
      BY <2>2, <2>6 DEF L
    <3>2. QED
      BY <2>4, <3>1 DEF OneTag!Grow, HistoryFor, LedgerFor, RowsFor
  <2>8. QED
    BY <2>7 DEF OneTag!Next
<1>4. ASSUME NEW u \in Tags, u # t, M!MoveForward(u) \/ M!Block(u)
      PROVE  UNCHANGED <<HistoryFor(t, history), RowsFor(t, rows)>>
  BY <1>4 DEF M!MoveForward, M!Block, HistoryFor, LedgerFor, RowsFor, TypeOK
<1>5. CASE M!MoveForward(t)
  <2>1. PICK s \in 1 .. Len(history), status \in M!Status :
          /\ history[s][t] # Missing
          /\ rows[t] # Missing => rows[t].slot <= s
          /\ M!MayBecome(t, status)
          /\ rows' = [rows EXCEPT ![t] = M!SnapshotRow(t, s, status)]
          /\ UNCHANGED history
    BY <1>5 DEF M!MoveForward
  <2>2. /\ HistoryFor(t, history)[s][t] = history[s][t]
        /\ s \in 1 .. Len(HistoryFor(t, history))
        /\ HistoryFor(t, history)' = HistoryFor(t, history)
    BY <1>1, <2>1 DEF HistoryFor, LedgerFor
  <2>3. RowsFor(t, rows)[t] = rows[t]
    BY DEF RowsFor
  <2>4. RowsFor(t, rows)' = [RowsFor(t, rows) EXCEPT ![t] = M!SnapshotRow(t, s, status)]
    BY <2>1 DEF RowsFor, TypeOK
  <2>5. OneTag(t)!MoveForward(t)
    BY <2>1, <2>2, <2>3, <2>4
    DEF OneTag!MoveForward, OneTag!MayBecome, OneTag!SnapshotRow, OneTag!Status,
        M!MayBecome, M!SnapshotRow, M!Status, HistoryFor, LedgerFor, RowsFor
  <2>6. QED
    BY <2>5 DEF OneTag!Next
<1>6. CASE M!Block(t)
  <2>1. /\ RowsFor(t, rows)[t] = rows[t]
        /\ HistoryFor(t, history)' = HistoryFor(t, history)
        /\ rows[t] # Missing
        /\ rows' = [rows EXCEPT ![t] = [rows[t] EXCEPT !.status = "blocked"]]
    BY <1>6 DEF M!Block, RowsFor, HistoryFor, LedgerFor
  <2>2. RowsFor(t, rows)' = [RowsFor(t, rows) EXCEPT ![t] = [rows[t] EXCEPT !.status = "blocked"]]
    BY <2>1 DEF RowsFor, TypeOK
  <2>3. OneTag(t)!Block(t)
    BY <2>1, <2>2 DEF OneTag!Block, HistoryFor, LedgerFor, RowsFor
  <2>4. QED
    BY <2>3 DEF OneTag!Next
<1>7. QED
  BY <1>2, <1>3, <1>4, <1>5, <1>6 DEF M!Next

\* What ResolveCache assumes of the indexer is so: seen at any one tag, the
\* indexer keeps the mirror of this tag (apply-change.ts writes one row, by its
\* tag, whatever happens to the others).
THEOREM EachTagIsMirrored ==
  ASSUME NEW t \in Tags
  PROVE  Spec => OneTag(t)!Spec
<1>1. Init => OneTag(t)!Init
  BY DEF Init, ChainInit, NoAccounts, OneTag!Init, OneTag!NoAccounts
<1>2. IInv /\ [Next]_vars
        => [OneTag(t)!Next]_<<HistoryFor(t, history), RowsFor(t, rows)>>
  BY StepImplementsMirror, StepAtOneTag DEF IInv
<1>3. QED
  BY <1>1, <1>2, Invariance, PTL DEF Spec, OneTag!Spec, HistoryFor, LedgerFor, RowsFor
=============================================================================
