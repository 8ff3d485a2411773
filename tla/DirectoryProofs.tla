-------------------------- MODULE DirectoryProofs --------------------------
(***************************************************************************)
(* The identities table and its writers: what holds for every set of tags, *)
(* keys and PATCH requests, and however often the backfill dies.           *)
(***************************************************************************)
EXTENDS Directory, AccountCodecProofs, FiniteSetTheorems

-----------------------------------------------------------------------------
(* The inductive invariant.                                                *)

Handling == [pc : {"idle"}]
            \cup [pc : {"guarded", "checked", "written"}, ask : Asks]
            \cup [pc : {"done"}]

Sweep == [pc : {"idle", "loop", "block", "flush", "done"}, todo : SUBSET Tags,
          tag : Tags \cup {Null}, listed : SUBSET Tags, blocked : SUBSET Tags,
          missed : SUBSET Tags]

TypeOK ==
  /\ rows \in [Tags -> Row \cup {Null}]
  /\ patches \in [Patches -> Handling]
  /\ sweep \in Sweep
  /\ sweep.pc \in {"block", "flush"} => sweep.tag \in Tags

IsBlocked(t) == rows[t] # Null /\ rows[t].status = "blocked"

\* A tag the run has listed has a row, and if it has to be blocked it is still
\* to be looked at, in hand, or blocked.
ListedAreSeen ==
  sweep.pc # "idle" =>
    \A t \in sweep.listed :
      /\ rows[t] # Null
      /\ t \in Profane =>
           t \in sweep.todo \/ (sweep.pc = "block" /\ sweep.tag = t) \/ IsBlocked(t)

\* What a key holds, or is about to.
Held == cached \cup filling

\* The key of a tag the run has blocked is gone, about to be deleted, or its
\* DEL has failed or missed a fill.
BlockedAreFlushed ==
  \A t \in sweep.blocked :
    /\ IsBlocked(t)
    /\ t \in Held => t \in sweep.missed \/ (sweep.pc = "flush" /\ sweep.tag = t)

DoneIsDone == sweep.pc = "done" => sweep.todo = {}

\* A PATCH that has passed the service's check has a row and clean free text.
CheckedIsClean ==
  \A p \in Patches :
    /\ patches[p].pc \in {"guarded", "checked", "written"} => rows[patches[p].ask.tag] # Null
    /\ patches[p].pc = "checked" => ~Blocked(patches[p].ask.body)

IInv == TypeOK /\ ListedAreSeen /\ BlockedAreFlushed /\ DoneIsDone /\ CheckedIsClean

-----------------------------------------------------------------------------
(* What may become of a row.                                               *)

\* No writer removes a row or unblocks one.
RowsOnlyGrow ==
  /\ rows' \in [Tags -> Row \cup {Null}]
  /\ \A u \in Tags : (rows[u] # Null => rows'[u] # Null) /\ (IsBlocked(u) => IsBlocked(u)')

LEMMA RowStep ==
  ASSUME TypeOK, NEW t \in Tags, NEW r \in Row, rows' = [rows EXCEPT ![t] = r],
         IsBlocked(t) => r.status = "blocked"
  PROVE  RowsOnlyGrow
  BY NullIsNoRow DEF TypeOK, IsBlocked, RowsOnlyGrow

LEMMA WriteIsRow ==
  ASSUME IInv, NEW p \in Patches, Write(p)
  PROVE  LET ask == patches[p].ask
             r == [rows[ask.tag] EXCEPT !.profile = Data(ask.body, rows[ask.tag].profile)]
         IN /\ ask \in Asks /\ ask.tag \in Tags /\ rows[ask.tag] \in Row /\ r \in Row
            /\ rows' = [rows EXCEPT ![ask.tag] = r]
            /\ r.status = rows[ask.tag].status
<1> DEFINE ask == patches[p].ask
           old == rows[ask.tag]
           r == [old EXCEPT !.profile = Data(ask.body, old.profile)]
<1>1. ask \in Asks
  BY DEF Write, IInv, TypeOK, Handling
<1>2. ask.tag \in Tags /\ DOMAIN ask.body \subseteq Fields
  BY <1>1, AsksAreAsks
<1>3. old \in Row
  BY <1>2 DEF Write, IInv, TypeOK, CheckedIsClean
<1>4. \A f \in DOMAIN ask.body : Value(ask.body, f) \in FieldValue
  BY <1>1 DEF FieldValue
<1>5. Data(ask.body, old.profile) \in [Fields -> FieldValue]
  BY <1>3, <1>4 DEF Data, Row
<1>6. r \in Row /\ r.status = old.status
  BY <1>3, <1>5 DEF Row
<1>7. rows' = [rows EXCEPT ![ask.tag] = r]
  BY DEF Write
<1>8. QED
  BY <1>1, <1>2, <1>3, <1>6, <1>7

LEMMA IndexerWriteIsRow ==
  ASSUME TypeOK, NEW t \in Tags, NEW owner \in Keys, IndexerWrites(t, owner)
  PROVE  \E r \in Row : /\ rows' = [rows EXCEPT ![t] = r]
                        /\ IsBlocked(t) => r.status = "blocked"
                        /\ rows[t] # Null => r.profile = rows[t].profile
<1> DEFINE status == IF t \in Profane THEN "blocked"
                     ELSE IF rows[t] = Null THEN "active" ELSE rows[t].status
           r == IF rows[t] = Null THEN Fresh(owner, status)
                ELSE [rows[t] EXCEPT !.owner = owner, !.status = status]
<1>1. rows' = [rows EXCEPT ![t] = r]
  BY DEF IndexerWrites
<1>2. CASE rows[t] = Null
  <2>1. status \in {"active", "blocked"} /\ r = Fresh(owner, status)
    BY <1>2
  <2>2. NoProfile \in [Fields -> FieldValue]
    BY DEF NoProfile, FieldValue
  <2>3. r \in Row
    BY <2>1, <2>2 DEF Fresh, Row
  <2>4. QED
    BY <1>1, <1>2, <2>3 DEF IsBlocked
<1>3. CASE rows[t] # Null
  <2>1. rows[t] \in Row
    BY <1>3 DEF TypeOK
  <2>2. /\ status \in {"active", "blocked"}
        /\ rows[t].status = "blocked" => status = "blocked"
    BY <1>3, <2>1 DEF Row
  <2>3. r = [rows[t] EXCEPT !.owner = owner, !.status = status]
    BY <1>3
  <2>4. r \in Row /\ r.status = status /\ r.profile = rows[t].profile
    BY <2>1, <2>2, <2>3 DEF Row
  <2>5. QED
    BY <1>1, <2>2, <2>4 DEF IsBlocked
<1>4. QED
  BY <1>2, <1>3

\* A moderator's block and the backfill's.
LEMMA BlockIsRow ==
  ASSUME TypeOK, NEW t \in Tags, rows[t] # Null,
         rows' = [rows EXCEPT ![t].status = "blocked"]
  PROVE  \E r \in Row : /\ rows' = [rows EXCEPT ![t] = r] /\ r.status = "blocked"
                        /\ r.profile = rows[t].profile
<1>1. rows[t] \in Row
  BY DEF TypeOK
<1>2. [rows[t] EXCEPT !.status = "blocked"] \in Row
  BY <1>1 DEF Row
<1>3. rows' = [rows EXCEPT ![t] = [rows[t] EXCEPT !.status = "blocked"]]
  OBVIOUS
<1>4. [rows[t] EXCEPT !.status = "blocked"].profile = rows[t].profile
  BY <1>1 DEF Row
<1>5. [rows[t] EXCEPT !.status = "blocked"].status = "blocked"
  BY <1>1 DEF Row
<1>6. QED
  BY <1>2, <1>3, <1>4, <1>5

-----------------------------------------------------------------------------
(* Steps of a PATCH.                                                       *)

\* A PATCH whose next state is in order, beside rows that only grow.
LEMMA PatchStep ==
  ASSUME IInv, NEW p \in Patches, NEW h \in Handling, To(p, h), RowsOnlyGrow,
         h.pc \in {"guarded", "checked", "written"} => rows[h.ask.tag] # Null,
         h.pc = "checked" => ~Blocked(h.ask.body)
  PROVE  patches' \in [Patches -> Handling] /\ CheckedIsClean'
<1>1. /\ patches' \in [Patches -> Handling] /\ patches'[p] = h
      /\ \A q \in Patches : q # p => patches'[q] = patches[q]
  BY DEF IInv, TypeOK, To
<1>2. ASSUME NEW q \in Patches, patches'[q].pc \in {"guarded", "checked", "written"}
      PROVE  /\ patches'[q].ask \in Asks /\ rows[patches'[q].ask.tag] # Null
             /\ patches'[q].pc = "checked" => ~Blocked(patches'[q].ask.body)
  <2>1. patches'[q].ask \in Asks
    BY <1>1, <1>2 DEF Handling
  <2>2. CASE q = p
    BY <1>1, <1>2, <2>1, <2>2
  <2>3. CASE q # p
    BY <1>1, <1>2, <2>1, <2>3 DEF IInv, CheckedIsClean
  <2>4. QED
    BY <2>2, <2>3
<1>3. CheckedIsClean'
  BY <1>2, AsksAreAsks DEF CheckedIsClean, RowsOnlyGrow, Blocked
<1>4. QED
  BY <1>1, <1>3

\* What the sweep's part of the invariant needs of a step that is not its own.
LEMMA SweepIsLeftAlone ==
  ASSUME IInv, sweep' = sweep, RowsOnlyGrow,
         \A t \in Tags : t \in Held' /\ IsBlocked(t) => t \in Held
  PROVE  ListedAreSeen' /\ BlockedAreFlushed' /\ DoneIsDone'
<1>1. sweep.listed \subseteq Tags /\ sweep.blocked \subseteq Tags
  BY DEF IInv, TypeOK, Sweep
<1>2. ListedAreSeen'
  BY <1>1 DEF IInv, ListedAreSeen, RowsOnlyGrow
<1>3. BlockedAreFlushed'
  BY <1>1 DEF IInv, BlockedAreFlushed, RowsOnlyGrow
<1>4. DoneIsDone'
  BY DEF IInv, DoneIsDone
<1>5. QED
  BY <1>2, <1>3, <1>4

LEMMA PatchKeepsIInv ==
  ASSUME IInv, NEW p \in Patches, Patch(p)
  PROVE  IInv'
<1>1. ASSUME NEW h \in Handling, To(p, h), RowsOnlyGrow, sweep' = sweep, Held' \subseteq Held,
             h.pc \in {"guarded", "checked", "written"} => rows[h.ask.tag] # Null,
             h.pc = "checked" => ~Blocked(h.ask.body)
      PROVE  IInv'
  <2>1. patches' \in [Patches -> Handling] /\ CheckedIsClean'
    BY <1>1, PatchStep
  <2>2. ListedAreSeen' /\ BlockedAreFlushed' /\ DoneIsDone'
    BY <1>1, SweepIsLeftAlone
  <2>3. TypeOK'
    BY <1>1, <2>1 DEF IInv, TypeOK, RowsOnlyGrow
  <2>4. QED
    BY <2>1, <2>2, <2>3 DEF IInv
<1>2. /\ UNCHANGED rows => RowsOnlyGrow
      /\ UNCHANGED <<cached, filling>> => Held' \subseteq Held
  BY DEF IInv, TypeOK, RowsOnlyGrow, IsBlocked, Held
<1>3. ASSUME NEW code \in {200, 400, 403, 404, 500}, Answer(p, code), UNCHANGED <<rows, sweep>>,
             Held' \subseteq Held
      PROVE  IInv'
  <2>1. [pc |-> "done"] \in Handling
    BY DEF Handling
  <2>2. To(p, [pc |-> "done"])
    BY <1>3 DEF Answer
  <2>3. QED
    BY <1>1, <1>2, <1>3, <2>1, <2>2
<1>4. ASSUME NEW ask \in Asks PROVE RowRefusal(ask) \in {200, 403, 404}
                                  /\ (RowRefusal(ask) = 200 => rows[ask.tag] # Null)
  BY DEF RowRefusal, Active
<1>5. patches[p].pc \in {"guarded", "checked", "written"} => patches[p].ask \in Asks
  BY DEF IInv, TypeOK, Handling
<1>6. ASSUME NEW ask \in Asks, Guard(p, ask) PROVE IInv'
  <2>1. CASE RowRefusal(ask) = 200
    <3>1. [pc |-> "guarded", ask |-> ask] \in Handling /\ To(p, [pc |-> "guarded", ask |-> ask])
      BY <1>6, <2>1 DEF Guard, Handling
    <3>2. UNCHANGED <<rows, cached, filling, sweep>>
      BY <1>6 DEF Guard
    <3>3. QED
      BY <1>1, <1>2, <1>4, <2>1, <3>1, <3>2
  <2>2. CASE RowRefusal(ask) # 200
    BY <1>2, <1>3, <1>4, <1>6, <2>2 DEF Guard
  <2>3. QED
    BY <2>1, <2>2
<1>7. CASE Check(p)
  <2> DEFINE ask == patches[p].ask
  <2>1. ask \in Asks /\ UNCHANGED <<rows, cached, filling, sweep>>
    BY <1>5, <1>7 DEF Check
  <2>2. \/ Answer(p, 400) \/ Answer(p, 403)
        \/ RowRefusal(ask) # 200 /\ Answer(p, RowRefusal(ask))
        \/ /\ RowRefusal(ask) = 200 /\ ~Blocked(ask.body)
           /\ To(p, [pc |-> "checked", ask |-> ask])
    BY <1>7 DEF Check
  <2>3. CASE RowRefusal(ask) = 200 /\ ~Blocked(ask.body) /\ To(p, [pc |-> "checked", ask |-> ask])
    <3>1. [pc |-> "checked", ask |-> ask] \in Handling
      BY <2>1 DEF Handling
    <3>2. QED
      BY <1>1, <1>2, <1>4, <2>1, <2>3, <3>1
  <2>4. QED
    BY <1>2, <1>3, <1>4, <2>1, <2>2, <2>3
<1>8. CASE Write(p)
  <2> DEFINE ask == patches[p].ask
             r == [rows[ask.tag] EXCEPT !.profile = Data(ask.body, rows[ask.tag].profile)]
  <2>1. /\ ask \in Asks /\ ask.tag \in Tags /\ r \in Row /\ rows' = [rows EXCEPT ![ask.tag] = r]
        /\ r.status = rows[ask.tag].status
    BY <1>8, WriteIsRow
  <2>2. RowsOnlyGrow
    BY <2>1, RowStep DEF IsBlocked, IInv
  <2>3. [pc |-> "written", ask |-> ask] \in Handling /\ To(p, [pc |-> "written", ask |-> ask])
    BY <1>8, <2>1 DEF Write, Handling
  <2>4. UNCHANGED <<cached, filling, sweep>> /\ rows[ask.tag] # Null
    BY <1>8 DEF Write, IInv, CheckedIsClean
  <2>5. QED
    BY <1>1, <1>2, <2>2, <2>3, <2>4
<1>9. CASE DeleteKey(p)
  BY <1>3, <1>9 DEF DeleteKey, Invalidate, InvalidateFails, Held
<1>10. CASE PatchFails(p)
  BY <1>2, <1>3, <1>10 DEF PatchFails
<1>11. QED
  BY <1>6, <1>7, <1>8, <1>9, <1>10 DEF Patch

-----------------------------------------------------------------------------
(* Steps of the other writers.                                             *)

\* The part of the invariant that speaks of PATCHes beside other writers.
LEMMA PatchesAreLeftAlone ==
  ASSUME IInv, patches' = patches, RowsOnlyGrow
  PROVE  CheckedIsClean'
<1>1. \A p \in Patches : patches[p].pc \in {"guarded", "checked", "written"} =>
        patches[p].ask \in Asks /\ patches[p].ask.tag \in Tags
  BY AsksAreAsks DEF IInv, TypeOK, Handling
<1>2. QED
  BY <1>1 DEF IInv, CheckedIsClean, RowsOnlyGrow, Blocked

LEMMA WritersKeepIInv ==
  ASSUME IInv, NEW t \in Tags,
         ModeratorBlocks(t) \/ FillRead(t) \/ FillStore(t) \/ \E owner \in Keys : IndexerWrites(t, owner)
  PROVE  IInv'
<1>1. UNCHANGED <<patches, sweep>>
  BY DEF ModeratorBlocks, FillRead, FillStore, IndexerWrites
<1>2. RowsOnlyGrow /\ \A u \in Tags : u \in Held' /\ IsBlocked(u) => u \in Held
  <2>1. CASE ModeratorBlocks(t)
    <3>1. rows[t] # Null /\ rows' = [rows EXCEPT ![t].status = "blocked"] /\ Held' = Held
      BY <2>1 DEF ModeratorBlocks, Active, Held
    <3>2. PICK r \in Row : rows' = [rows EXCEPT ![t] = r] /\ r.status = "blocked"
      BY <3>1, BlockIsRow DEF IInv
    <3>3. QED
      BY <3>1, <3>2, RowStep DEF IInv
  <2>2. CASE FillRead(t) \/ FillStore(t)
    BY <2>2 DEF FillRead, FillStore, Held, Active, RowsOnlyGrow, IsBlocked, IInv, TypeOK
  <2>3. ASSUME NEW owner \in Keys, IndexerWrites(t, owner)
        PROVE  RowsOnlyGrow /\ \A u \in Tags : u \in Held' /\ IsBlocked(u) => u \in Held
    <3>1. PICK r \in Row : rows' = [rows EXCEPT ![t] = r] /\ (IsBlocked(t) => r.status = "blocked")
      BY <2>3, IndexerWriteIsRow DEF IInv
    <3>2. Held' \subseteq Held
      BY <2>3 DEF IndexerWrites, Invalidate, InvalidateFails, Held
    <3>3. QED
      BY <3>1, <3>2, RowStep DEF IInv
  <2>4. QED
    BY <2>1, <2>2, <2>3
<1>3. TypeOK'
  BY <1>1, <1>2 DEF IInv, TypeOK, RowsOnlyGrow
<1>4. QED
  BY <1>1, <1>2, <1>3, SweepIsLeftAlone, PatchesAreLeftAlone DEF IInv

-----------------------------------------------------------------------------
(* Steps of the backfill.                                                  *)

LEMMA BackfillKeepsIInv ==
  ASSUME IInv, Backfill
  PROVE  IInv'
<1> USE DEF IInv
<1>1. /\ sweep \in Sweep /\ patches' = patches /\ rows \in [Tags -> Row \cup {Null}]
      /\ sweep.todo \subseteq Tags /\ sweep.listed \subseteq Tags /\ sweep.blocked \subseteq Tags
  BY DEF TypeOK, Sweep, Backfill, ListActive, Inspect, BlockListed, FlushListed, SweepComplete,
         SweepCrash
<1>2. UNCHANGED rows => RowsOnlyGrow
  BY DEF TypeOK, RowsOnlyGrow, IsBlocked
\* All but the sweep is as it should be once rows only grow.
<1>3. ASSUME RowsOnlyGrow, sweep' \in Sweep, sweep'.pc \in {"block", "flush"} => sweep'.tag \in Tags,
             ListedAreSeen', BlockedAreFlushed', DoneIsDone'
      PROVE  IInv'
  <2>1. TypeOK'
    BY <1>1, <1>3 DEF TypeOK, RowsOnlyGrow
  <2>2. QED
    BY <1>1, <1>3, <2>1, PatchesAreLeftAlone
<1>4. CASE ListActive
  <2> DEFINE active == {t \in Tags : Active(rows, t)}
  <2>1. /\ sweep' = [sweep EXCEPT !.pc = "loop", !.todo = active, !.listed = active]
        /\ UNCHANGED <<rows, cached, filling>> /\ sweep.pc = "idle"
    BY <1>4 DEF ListActive
  <2>2. /\ sweep' \in Sweep /\ sweep'.pc = "loop" /\ sweep'.todo = active /\ sweep'.listed = active
        /\ sweep'.blocked = sweep.blocked /\ sweep'.missed = sweep.missed
    BY <1>1, <2>1 DEF Sweep
  <2>3. \A t \in active : rows'[t] # Null
    BY <2>1 DEF Active
  <2>4. ListedAreSeen' /\ DoneIsDone'
    BY <2>2, <2>3 DEF ListedAreSeen, DoneIsDone
  <2>5. BlockedAreFlushed'
    BY <2>1, <2>2 DEF BlockedAreFlushed, Held, IsBlocked
  <2>6. QED
    BY <1>2, <1>3, <2>1, <2>2, <2>4, <2>5
<1>5. ASSUME NEW t \in Tags, Inspect(t) PROVE IInv'
  <2>1. UNCHANGED <<rows, cached, filling>> /\ sweep.pc = "loop" /\ t \in sweep.todo
    BY <1>5 DEF Inspect
  <2>2. /\ sweep' \in Sweep /\ sweep'.todo = sweep.todo \ {t} /\ sweep'.listed = sweep.listed
        /\ sweep'.blocked = sweep.blocked /\ sweep'.missed = sweep.missed
        /\ IF t \in Profane THEN sweep'.pc = "block" /\ sweep'.tag = t ELSE sweep'.pc = "loop"
    BY <1>1, <1>5 DEF Inspect, Sweep
  <2>3. ListedAreSeen'
    BY <1>1, <2>1, <2>2 DEF ListedAreSeen, IsBlocked
  <2>4. BlockedAreFlushed' /\ DoneIsDone'
    BY <2>1, <2>2 DEF BlockedAreFlushed, Held, DoneIsDone, IsBlocked
  <2>5. QED
    BY <1>2, <1>3, <2>1, <2>2, <2>3, <2>4
<1>6. CASE BlockListed /\ Active(rows, sweep.tag)
  <2> DEFINE t == sweep.tag
  <2>1. /\ sweep.pc = "block" /\ t \in Tags /\ rows[t] # Null /\ Held' = Held
        /\ rows' = [rows EXCEPT ![t].status = "blocked"]
        /\ sweep' = [sweep EXCEPT !.pc = "flush", !.blocked = @ \cup {t}]
    BY <1>6 DEF BlockListed, Active, Held
  <2>2. PICK r \in Row : rows' = [rows EXCEPT ![t] = r] /\ r.status = "blocked"
    BY <2>1, BlockIsRow
  <2>3. RowsOnlyGrow /\ rows'[t] # Null /\ rows'[t].status = "blocked"
    <3>1. RowsOnlyGrow
      BY <2>1, <2>2, RowStep
    <3>2. rows'[t] \in Row /\ rows'[t].status = "blocked"
      BY <1>1, <2>1, <2>2
    <3>3. QED
      BY <3>1, <3>2, NullIsNoRow
  <2>4. /\ sweep' \in Sweep /\ sweep'.pc = "flush" /\ sweep'.tag = t /\ sweep'.todo = sweep.todo
        /\ sweep'.listed = sweep.listed /\ sweep'.blocked = sweep.blocked \cup {t}
        /\ sweep'.missed = sweep.missed
    BY <1>1, <2>1 DEF Sweep
  <2>5. ListedAreSeen' /\ DoneIsDone'
    BY <1>1, <2>1, <2>3, <2>4 DEF ListedAreSeen, DoneIsDone, RowsOnlyGrow, IsBlocked
  <2>6. BlockedAreFlushed'
    BY <1>1, <2>1, <2>3, <2>4 DEF BlockedAreFlushed, Held, RowsOnlyGrow, IsBlocked
  <2>7. QED
    BY <1>3, <2>1, <2>3, <2>4, <2>5, <2>6
<1>7. CASE BlockListed /\ ~Active(rows, sweep.tag)
  <2> DEFINE t == sweep.tag
  <2>1. /\ sweep.pc = "block" /\ t \in Tags /\ UNCHANGED <<rows, cached, filling>>
        /\ sweep' = [sweep EXCEPT !.pc = "loop", !.tag = Null]
    BY <1>7 DEF BlockListed, TypeOK
  <2>2. /\ sweep' \in Sweep /\ sweep'.pc = "loop" /\ sweep'.todo = sweep.todo
        /\ sweep'.listed = sweep.listed /\ sweep'.blocked = sweep.blocked
        /\ sweep'.missed = sweep.missed
    BY <1>1, <2>1 DEF Sweep
  <2>3. rows[t] = Null \/ IsBlocked(t)
    BY <1>1, <1>7, <2>1 DEF Active, Row, IsBlocked
  <2>4. t \in sweep.listed => rows[t] # Null
    BY <2>1 DEF ListedAreSeen
  <2>5. ListedAreSeen'
    BY <1>1, <2>1, <2>2, <2>3, <2>4 DEF ListedAreSeen, IsBlocked
  <2>6. BlockedAreFlushed' /\ DoneIsDone'
    BY <2>1, <2>2 DEF BlockedAreFlushed, Held, DoneIsDone, IsBlocked
  <2>7. QED
    BY <1>2, <1>3, <2>1, <2>2, <2>5, <2>6
<1>8. CASE FlushListed
  <2> DEFINE t == sweep.tag
  <2>1. sweep.pc = "flush" /\ UNCHANGED rows /\ t \in Tags
    BY <1>8 DEF FlushListed, TypeOK
  <2>2. CASE /\ cached' = cached \ {t} /\ filling' = filling
             /\ sweep' = [sweep EXCEPT !.pc = "loop", !.tag = Null,
                                       !.missed = @ \cup ({t} \cap filling)]
    <3>1. /\ sweep' \in Sweep /\ sweep'.pc = "loop" /\ sweep'.todo = sweep.todo
          /\ sweep'.listed = sweep.listed /\ sweep'.blocked = sweep.blocked
          /\ sweep'.missed = sweep.missed \cup ({t} \cap filling)
      BY <1>1, <2>1, <2>2 DEF Sweep
    <3>2. ListedAreSeen' /\ DoneIsDone'
      BY <2>1, <3>1 DEF ListedAreSeen, DoneIsDone, IsBlocked
    <3>3. BlockedAreFlushed'
      BY <2>1, <2>2, <3>1 DEF BlockedAreFlushed, Held, IsBlocked
    <3>4. QED
      BY <1>2, <1>3, <2>1, <3>1, <3>2, <3>3
  <2>3. CASE /\ cached' = cached /\ filling' = filling
             /\ sweep' = [sweep EXCEPT !.pc = "loop", !.tag = Null, !.missed = @ \cup {t}]
    <3>1. /\ sweep' \in Sweep /\ sweep'.pc = "loop" /\ sweep'.todo = sweep.todo
          /\ sweep'.listed = sweep.listed /\ sweep'.blocked = sweep.blocked
          /\ sweep'.missed = sweep.missed \cup {t}
      BY <1>1, <2>1, <2>3 DEF Sweep
    <3>2. ListedAreSeen' /\ DoneIsDone'
      BY <2>1, <3>1 DEF ListedAreSeen, DoneIsDone, IsBlocked
    <3>3. BlockedAreFlushed'
      BY <2>1, <2>3, <3>1 DEF BlockedAreFlushed, Held, IsBlocked
    <3>4. QED
      BY <1>2, <1>3, <2>1, <3>1, <3>2, <3>3
  <2>4. QED
    BY <1>8, <2>2, <2>3 DEF FlushListed, Invalidate, InvalidateFails
<1>9. CASE SweepComplete
  <2>1. /\ sweep.pc = "loop" /\ sweep.todo = {} /\ UNCHANGED <<rows, cached, filling>>
        /\ sweep' \in Sweep /\ sweep'.pc = "done" /\ sweep'.todo = sweep.todo
        /\ sweep'.listed = sweep.listed /\ sweep'.blocked = sweep.blocked
        /\ sweep'.missed = sweep.missed
    BY <1>1, <1>9 DEF SweepComplete, Sweep
  <2>2. ListedAreSeen' /\ DoneIsDone' /\ BlockedAreFlushed'
    BY <2>1 DEF ListedAreSeen, DoneIsDone, BlockedAreFlushed, Held, IsBlocked
  <2>3. QED
    BY <1>2, <1>3, <2>1, <2>2
<1>10. CASE SweepCrash
  <2>1. UNCHANGED <<rows, cached, filling>> /\ sweep' = IdleSweep
    BY <1>10 DEF SweepCrash
  <2>2. sweep' \in Sweep /\ sweep'.pc = "idle" /\ sweep'.blocked = {}
    BY <1>1, <2>1 DEF IdleSweep, Sweep
  <2>3. ListedAreSeen' /\ DoneIsDone' /\ BlockedAreFlushed'
    BY <2>2 DEF ListedAreSeen, DoneIsDone, BlockedAreFlushed, Held
  <2>4. QED
    BY <1>2, <1>3, <2>1, <2>2, <2>3
<1>11. QED
  BY <1>4, <1>5, <1>6, <1>7, <1>8, <1>9, <1>10 DEF Backfill

-----------------------------------------------------------------------------
(* The theorems.                                                           *)

LEMMA InitImpliesIInv == Init => IInv
<1> SUFFICES ASSUME Init PROVE IInv
  OBVIOUS
<1>1. NoProfile \in [Fields -> FieldValue]
  BY DEF NoProfile, FieldValue
<1>2. rows \in [Tags -> Row \cup {Null}]
  BY <1>1 DEF Init, Fresh, Row
<1>3. sweep \in Sweep /\ sweep.pc = "idle" /\ sweep.blocked = {}
  BY DEF Init, IdleSweep, Sweep
<1>4. patches \in [Patches -> Handling] /\ \A p \in Patches : patches[p].pc = "idle"
  BY DEF Init, Handling
<1>5. QED
  BY <1>2, <1>3, <1>4 DEF IInv, TypeOK, ListedAreSeen, BlockedAreFlushed, DoneIsDone, CheckedIsClean

LEMMA IInvIsInductive == IInv /\ [Next]_vars => IInv'
<1> SUFFICES ASSUME IInv, [Next]_vars PROVE IInv'
  OBVIOUS
<1>1. CASE UNCHANGED vars
  BY <1>1 DEF vars, IInv, TypeOK, ListedAreSeen, BlockedAreFlushed, DoneIsDone, CheckedIsClean,
              IsBlocked, Blocked, Held
<1>2. QED
  BY <1>1, PatchKeepsIInv, WritersKeepIInv, BackfillKeepsIInv DEF Next

\* The inductive invariant holds in every reachable state.
THEOREM Invariance == Spec => []IInv
  BY InitImpliesIInv, IInvIsInductive, PTL DEF Spec

\* A backfill that reports completion has blocked what it listed and had to
\* block, and has deleted the keys it could delete
\* (backfill-moderation.ts), beside any writers and after any crashes.
THEOREM CompletionIsEarned == Spec => []BackfillComplete
<1>1. IInv => BackfillComplete
  <2>1. SUFFICES ASSUME IInv, sweep.pc = "done"
                 PROVE  /\ \A t \in sweep.listed \cap Profane : rows[t].status = "blocked"
                        /\ sweep.blocked \cap (cached \cup filling) \subseteq sweep.missed
    BY DEF BackfillComplete
  <2>2. ASSUME NEW t \in sweep.listed \cap Profane PROVE rows[t].status = "blocked"
    BY <2>1 DEF IInv, ListedAreSeen, DoneIsDone, IsBlocked
  <2>3. QED
    BY <2>1, <2>2 DEF IInv, BlockedAreFlushed, Held
<1>2. QED
  BY <1>1, Invariance, PTL

\* A profile changes only by a checked PATCH, and only in the fields it names
\* (tags.service.ts updateIdentity), whatever else is written meanwhile.
THEOREM ProfilesArePatched == Spec => ProfileIsPatched
<1>1. ASSUME IInv, [Next]_vars, NEW t \in Tags, NEW f \in Fields,
             rows[t] # Null, rows'[t].profile[f] # rows[t].profile[f]
      PROVE  \E p \in Patches :
               /\ patches[p].pc = "checked" /\ patches[p].ask.tag = t
               /\ f \in DOMAIN patches[p].ask.body
               /\ rows'[t].profile[f] = Value(patches[p].ask.body, f)
               /\ f \in Gated /\ rows'[t].profile[f] # Null => ~IsBlockedName(rows'[t].profile[f])
  <2>1. rows \in [Tags -> Row \cup {Null}] /\ rows' # rows
    BY <1>1 DEF IInv, TypeOK
  <2>2. PICK p \in Patches : Write(p)
    <3>1. ASSUME NEW u \in Tags, NEW r \in Row, rows' = [rows EXCEPT ![u] = r],
                 rows[u] # Null => r.profile = rows[u].profile
          PROVE  FALSE
      BY <1>1, <2>1, <3>1
    <3>2. ASSUME NEW u \in Tags, ModeratorBlocks(u) PROVE FALSE
      <4>1. rows[u] # Null /\ rows' = [rows EXCEPT ![u].status = "blocked"]
        BY <3>2 DEF ModeratorBlocks, Active
      <4>2. QED
        BY <1>1, <3>1, <4>1, BlockIsRow DEF IInv
    <3>3. ASSUME NEW u \in Tags, NEW owner \in Keys, IndexerWrites(u, owner) PROVE FALSE
      BY <1>1, <3>1, <3>3, IndexerWriteIsRow DEF IInv
    <3>4. ASSUME BlockListed PROVE FALSE
      <4>1. /\ sweep.tag \in Tags /\ rows[sweep.tag] # Null
            /\ rows' = [rows EXCEPT ![sweep.tag].status = "blocked"]
        BY <2>1, <3>4 DEF BlockListed, Active
      <4>2. QED
        BY <1>1, <3>1, <4>1, BlockIsRow DEF IInv
    <3>5. ASSUME NEW u \in Tags, FillRead(u) \/ FillStore(u) PROVE FALSE
      BY <2>1, <3>5 DEF FillRead, FillStore
    <3>6. ASSUME \/ ListActive \/ FlushListed \/ SweepComplete \/ SweepCrash
                 \/ \E u \in Tags : Inspect(u)
          PROVE  FALSE
      BY <2>1, <3>6 DEF ListActive, FlushListed, SweepComplete, SweepCrash, Inspect
    <3>7. ASSUME NEW q \in Patches, Patch(q) PROVE Write(q)
      BY <2>1, <3>7 DEF Patch, Guard, Check, DeleteKey, PatchFails
    <3>8. CASE UNCHANGED vars
      BY <2>1, <3>8 DEF vars
    <3>9. QED
      BY <1>1, <3>2, <3>3, <3>4, <3>5, <3>6, <3>7, <3>8 DEF Next, Backfill
  <2> DEFINE ask == patches[p].ask
             old == rows[ask.tag]
             r == [old EXCEPT !.profile = Data(ask.body, old.profile)]
  <2>3. /\ ask \in Asks /\ ask.tag \in Tags /\ old \in Row /\ r \in Row
        /\ rows' = [rows EXCEPT ![ask.tag] = r]
    BY <1>1, <2>2, WriteIsRow
  <2>4. ask.tag = t /\ rows'[t] = r
    BY <1>1, <2>1, <2>3
  <2>5. r.profile = Data(ask.body, old.profile)
    BY <2>3 DEF Row
  <2>6. rows'[t].profile[f] = IF f \in DOMAIN ask.body THEN Value(ask.body, f) ELSE rows[t].profile[f]
    BY <1>1, <2>4, <2>5 DEF Data
  <2>7. f \in DOMAIN ask.body /\ rows'[t].profile[f] = Value(ask.body, f)
    BY <1>1, <2>6
  <2>8. patches[p].pc = "checked" /\ ~Blocked(ask.body)
    BY <1>1, <2>2 DEF Write, IInv, CheckedIsClean
  <2>9. ASSUME f \in Gated, rows'[t].profile[f] # Null
        PROVE  ~IsBlockedName(rows'[t].profile[f])
    <3>1. ask.body[f] # Null
      BY <2>7, <2>9 DEF Value
    <3>2. QED
      BY <2>7, <2>8, <2>9, <3>1 DEF Blocked
  <2>10. QED
    BY <2>4, <2>7, <2>8, <2>9
<1>2. IInv /\ [Next]_vars =>
        [\A t \in Tags, f \in Fields :
           rows[t] # Null /\ rows'[t].profile[f] # rows[t].profile[f] =>
             \E p \in Patches :
               /\ patches[p].pc = "checked" /\ patches[p].ask.tag = t
               /\ f \in DOMAIN patches[p].ask.body
               /\ rows'[t].profile[f] = Value(patches[p].ask.body, f)
               /\ f \in Gated /\ rows'[t].profile[f] # Null => ~IsBlockedName(rows'[t].profile[f])]_vars
  BY <1>1
<1>3. QED
  BY <1>2, Invariance, PTL DEF Spec, ProfileIsPatched

-----------------------------------------------------------------------------
(* What the reads can tell of a table.                                     *)

\* Two tables with the same active rows.
SameActive(table, other) ==
  \A t \in Tags : /\ Active(table, t) <=> Active(other, t)
                  /\ Active(table, t) => table[t] = other[t]

LEMMA SameRow ==
  ASSUME NEW table, NEW other, SameActive(table, other), NEW raw
  PROVE  /\ FromClient(table, raw) = FromClient(other, raw)
         /\ FromClient(table, raw).error = "none" =>
              table[FromClient(table, raw).value] = other[FromClient(table, raw).value]
<1>1. \A t : Active(table, t) <=> Active(other, t)
  BY DEF SameActive, Active
<1>2. ASSUME NEW param
      PROVE  /\ ReadActive(table, param) = ReadActive(other, param)
             /\ ReadActive(table, param).error = "none" =>
                  Active(table, ReadActive(table, param).value)
  BY <1>1 DEF ReadActive, Throws, MapError
<1>3. ASSUME NEW t, Active(table, t) PROVE table[t] = other[t]
  BY <1>3 DEF SameActive, Active
<1> DEFINE tag == TagOrThrow(raw, "TagInvalidError")
<1>4. CASE tag.error = "none"
  <2>1. /\ FromClient(table, raw) = ReadActive(table, tag.value)
        /\ FromClient(other, raw) = ReadActive(other, tag.value)
    BY <1>4 DEF FromClient
  <2>2. QED
    BY <1>2, <1>3, <2>1
<1>5. CASE tag.error # "none"
  BY <1>5 DEF FromClient
<1>6. QED
  BY <1>4, <1>5

LEMMA SameReads ==
  ASSUME NEW table, NEW other, SameActive(table, other), NEW raw
  PROVE  Identity(table, raw) = Identity(other, raw) /\ Qr(table, raw) = Qr(other, raw)
<1>1. CASE FromClient(table, raw).error = "none"
  BY <1>1, SameRow DEF Identity, Qr
<1>2. CASE FromClient(table, raw).error # "none"
  BY <1>2, SameRow DEF Identity, Qr
<1>3. QED
  BY <1>1, <1>2

LEMMA SameSearch ==
  ASSUME NEW table, NEW other, SameActive(table, other), NEW q
  PROVE  Search(table, q) = Search(other, q)
<1> DEFINE query == Lower(Trim(q))
           RankIn(tab) == [t \in Matches(table, query) |-> RankOf(t, tab[t], query)]
           Found(matches, rank) ==
             LET size == Min({Cardinality(matches), FetchLimit})
             IN {SubSeq(found, 1, Min({Len(found), ResultLimit})) :
                   found \in {s \in UNION {SetToSeqs({t \in fetched : rank[t] < 4}) :
                                             fetched \in kSubset(size, matches)} :
                                Sorted(rank, s)}}
<1>1. Matches(table, query) = Matches(other, query)
  <2>1. ASSUME NEW t \in Tags
        PROVE  t \in Matches(table, query) <=> t \in Matches(other, query)
    BY DEF Matches, SameActive
  <2>2. Matches(table, query) \subseteq Tags /\ Matches(other, query) \subseteq Tags
    BY DEF Matches
  <2>3. QED
    BY <2>1, <2>2
<1>2. RankIn(table) = RankIn(other)
  <2>1. \A t \in Matches(table, query) : table[t] = other[t]
    BY DEF Matches, SameActive
  <2>2. QED
    BY <2>1
<1>3. /\ Answers(table, query) = Found(Matches(table, query), RankIn(table))
      /\ Answers(other, query) = Found(Matches(other, query), RankIn(other))
  BY <1>1 DEF Answers
<1> HIDE DEF Found, RankIn
<1>4. Answers(table, query) = Answers(other, query)
  BY <1>1, <1>2, <1>3
<1>5. QED
  BY <1>4 DEF Search

\* What resolve answers for a tag without an active row, typed or not.
LEMMA ResolveOfInactive ==
  ASSUME NEW table, NEW account, NEW t \in Tags, ~Active(table, t),
         table[t] # Null \/ ~ResolveOnChain(account).ok
  PROVE  Resolve(table, account, <<At>> \o t) = Throws(MapError(404))
<1>1. NormalizeTag(<<At>> \o t) = Accepted(t) /\ NormalizeTag(t) = Accepted(t)
  BY TagNormalizes, TagsAreCanonical
<1>2. \A error : TagOrThrow(<<At>> \o t, error) = Ok(t) /\ TagOrThrow(t, error) = Ok(t)
  BY <1>1 DEF TagOrThrow, Accepted
<1>3. Ok(t).error = "none" /\ Ok(t).value = t
  BY DEF Ok
<1>4. ResolveUncached(table, account, t) = Throws(MapError(404))
  BY DEF ResolveUncached
<1>5. QED
  BY <1>2, <1>3, <1>4 DEF Resolve

\* A blocked row is no row at all to search, identity and QR, one that is taken
\* to the naming gate, and to resolve a tag that is not found, though the chain
\* would give its wallet (tags.service.ts, naming-gate.ts): for any table and
\* query.
THEOREM BlockedIsInvisible == Spec => []BlockedLooksAbsent
<1>1. IInv => BlockedLooksAbsent
  <2> DEFINE blocked == {t \in Tags : rows[t] # Null /\ rows[t].status = "blocked"}
             without == [t \in Tags |-> IF t \in blocked THEN Null ELSE rows[t]]
  <2>1. SameActive(rows, without)
    BY DEF SameActive, Active
  <2>2. ASSUME NEW t \in blocked PROVE Availability(rows, <<At>> \o t) # "available"
    <3>1. NormalizeTag(<<At>> \o t) = Accepted(t) /\ NormalizeTag(t) = Accepted(t)
      BY TagNormalizes, TagsAreCanonical
    <3>2. Availability(rows, <<At>> \o t) = AvailabilityOf(rows, t)
      BY <3>1 DEF Availability, Accepted
    <3>3. NamingGate(rows, t) # "available"
      BY DEF NamingGate, ModerationGate
    <3>4. QED
      BY <3>1, <3>2, <3>3 DEF AvailabilityOf, Accepted
  <2>3. ASSUME NEW t \in blocked, NEW account
        PROVE  Resolve(rows, account, <<At>> \o t) = Resolve(without, <<>>, <<At>> \o t)
    <3>1. ~Active(rows, t) /\ rows[t] # Null /\ ~Active(without, t)
      BY DEF Active
    <3>2. ~ResolveOnChain(<<>>).ok
      BY DEF ResolveOnChain, Refused
    <3>3. QED
      BY <3>1, <3>2, ResolveOfInactive
  <2> HIDE DEF without
  <2>4. QED
    BY <2>1, <2>2, <2>3, SameReads, SameSearch DEF BlockedLooksAbsent, without
<1>2. QED
  BY <1>1, Invariance, PTL

-----------------------------------------------------------------------------
(* What search finds.                                                      *)

LEMMA MinOfTwo ==
  ASSUME NEW m \in Nat, NEW n \in Nat
  PROVE  /\ Min({m, n}) \in Nat /\ Min({m, n}) <= m /\ Min({m, n}) <= n
         /\ Min({m, n}) \in {m, n}
<1>1. \E x \in {m, n} : \A y \in {m, n} : x =< y
  <2>1. m =< n \/ n =< m
    OBVIOUS
  <2>2. QED
    BY <2>1
<1>2. Min({m, n}) \in {m, n} /\ \A y \in {m, n} : Min({m, n}) =< y
  BY <1>1 DEF Min
<1>3. QED
  BY <1>2

\* An order of a finite set names every member of it.
LEMMA OrderNamesAll ==
  ASSUME NEW S, IsFiniteSet(S), NEW s \in SetToSeqs(S)
  PROVE  /\ s \in Seq(S) /\ Len(s) = Cardinality(S) /\ Len(s) \in Nat
         /\ DOMAIN s = 1 .. Len(s)
         /\ \A x \in S : \E k \in 1 .. Len(s) : s[k] = x
<1> DEFINE n == Cardinality(S)
<1>1. n \in Nat
  BY FS_CardinalityType
<1>2. s \in [1 .. n -> S] /\ \A i, j \in 1 .. n : i # j => s[i] # s[j]
  BY DEF SetToSeqs
<1>3. s \in Seq(S) /\ Len(s) = n /\ DOMAIN s = 1 .. n
  BY <1>1, <1>2
<1>4. s \in Injection(1 .. n, S)
  BY <1>2 DEF Injection, IsInjective
<1>5. Cardinality(1 .. n) = n
  BY <1>1, FS_Interval
<1>6. s \in Surjection(1 .. n, S)
  BY <1>4, <1>5, FS_Injection
<1>7. \A x \in S : \E k \in 1 .. n : s[k] = x
  BY <1>6 DEF Surjection
<1>8. QED
  BY <1>1, <1>3, <1>7

\* What search answers is the beginning of an order, by rank and length, of
\* the ranked members of the rows the query has fetched.
LEMMA AnswerIsOrder ==
  ASSUME NEW query, NEW found \in Answers(rows, query)
  PROVE  \E fetched \in SUBSET Matches(rows, query) : \E s :
           LET rank == [t \in Matches(rows, query) |-> RankOf(t, rows[t], query)] IN
             /\ Cardinality(fetched) = Min({Cardinality(Matches(rows, query)), FetchLimit})
             /\ s \in SetToSeqs({t \in fetched : rank[t] < 4}) /\ Sorted(rank, s)
             /\ found = SubSeq(s, 1, Min({Len(s), ResultLimit}))
  BY DEF Answers, kSubset

LEMMA FrontIsFront ==
  ASSUME NEW S, NEW s \in Seq(S), NEW n \in Nat, n <= Len(s)
  PROVE  LET front == SubSeq(s, 1, n) IN
           /\ Len(front) = n /\ DOMAIN front = 1 .. n
           /\ \A i \in 1 .. n : front[i] = s[i] /\ s[i] \in S
  OBVIOUS

LEMMA CanBeRead ==
  ASSUME NEW t \in Tags, Active(rows, t)
  PROVE  Identity(rows, t).error = "none"
<1>1. NormalizeTag(t) = Accepted(t)
  BY TagNormalizes, TagsAreCanonical
<1>2. \A error : TagOrThrow(t, error) = Ok(t)
  BY <1>1 DEF TagOrThrow, Accepted
<1>3. ReadActive(rows, t) = Ok(t)
  BY <1>2 DEF ReadActive, Ok
<1>4. FromClient(rows, t) = Ok(t)
  BY <1>2, <1>3 DEF FromClient, Ok
<1>5. QED
  BY <1>4 DEF Identity, Ok

\* All that search finds can be read, and the tag typed exactly comes first
\* if the query has fetched all that match (tags.service.ts search), for
\* tables of any size.
THEOREM ExactIsFirst == Spec => []SearchFindsExact
<1>1. SearchFindsExact
  <2> SUFFICES ASSUME NEW q \in Queries, NEW found \in Search(rows, q)
               PROVE  /\ Len(found) <= ResultLimit
                      /\ \A i \in DOMAIN found : Identity(rows, found[i]).error = "none"
                      /\ /\ Active(rows, Lower(Trim(q)))
                         /\ Cardinality(Matches(rows, Lower(Trim(q)))) <= FetchLimit
                         => found # <<>> /\ found[1] = Lower(Trim(q))
    BY DEF SearchFindsExact
  <2> DEFINE query == Lower(Trim(q))
             matches == Matches(rows, query)
             rank == [t \in matches |-> RankOf(t, rows[t], query)]
  <2> HIDE DEF query
  <2>1. CASE query = <<>>
    <3>1. found = <<>>
      BY <2>1 DEF Search, query
    <3>2. ~Active(rows, query)
      BY <2>1, TagsAreCanonical, LengthsAreOrdered DEF Active, ValidOnChain
    <3>3. QED
      BY <3>1, <3>2, SearchLimits DEF query
  <2>2. CASE query # <<>>
    <3>1. found \in Answers(rows, query)
      BY <2>2 DEF Search, query
    <3>2. PICK fetched \in SUBSET matches : \E s :
            /\ Cardinality(fetched) = Min({Cardinality(matches), FetchLimit})
            /\ s \in SetToSeqs({t \in fetched : rank[t] < 4}) /\ Sorted(rank, s)
            /\ found = SubSeq(s, 1, Min({Len(s), ResultLimit}))
      BY <3>1, AnswerIsOrder
    <3>3. PICK s :
            /\ Cardinality(fetched) = Min({Cardinality(matches), FetchLimit})
            /\ s \in SetToSeqs({t \in fetched : rank[t] < 4}) /\ Sorted(rank, s)
            /\ found = SubSeq(s, 1, Min({Len(s), ResultLimit}))
      BY <3>2
    <3> DEFINE ranked == {t \in fetched : rank[t] < 4}
               size == Min({Len(s), ResultLimit})
    <3>4. IsFiniteSet(matches) /\ IsFiniteSet(ranked) /\ Cardinality(matches) \in Nat
      <4>1. matches \subseteq Tags /\ ranked \subseteq Tags
        BY DEF Matches
      <4>2. QED
        BY <4>1, TablesAreFinite, FS_Subset, FS_CardinalityType
    <3>5. /\ s \in Seq(ranked) /\ Len(s) \in Nat /\ DOMAIN s = 1 .. Len(s)
          /\ \A t \in ranked : \E k \in 1 .. Len(s) : s[k] = t
          /\ \A k \in 1 .. Len(s) : s[k] \in ranked
      BY <3>3, <3>4, OrderNamesAll
    <3>6. /\ size \in Nat /\ size <= Len(s) /\ size <= ResultLimit
          /\ Len(s) # 0 => size # 0
      BY <3>5, MinOfTwo, SearchLimits
    <3> HIDE DEF size
    <3>7. /\ Len(found) = size /\ DOMAIN found = 1 .. size
          /\ \A i \in 1 .. size : found[i] = s[i] /\ s[i] \in ranked
      <4>1. found = SubSeq(s, 1, size)
        BY <3>3 DEF size
      <4>2. QED
        BY <3>5, <3>6, <4>1, FrontIsFront
    <3>8. \A i \in DOMAIN found : Identity(rows, found[i]).error = "none"
      <4>1. \A t \in ranked : t \in Tags /\ Active(rows, t)
        BY DEF Matches
      <4>2. QED
        BY <3>7, <4>1, CanBeRead
    <3>9. ASSUME Active(rows, query), Cardinality(matches) <= FetchLimit
          PROVE  found # <<>> /\ found[1] = query
      <4>1. fetched = matches
        <5>1. Cardinality(fetched) = Cardinality(matches)
          BY <3>3, <3>4, <3>9, SearchLimits, MinOfTwo
        <5>2. QED
          BY <3>4, <5>1, FS_Subset
      <4>2. query \in ranked
        <5>1. query \in matches
          BY <3>9 DEF Matches, Active, IsPrefix
        <5>2. rank[query] = 0
          BY <5>1 DEF RankOf
        <5>3. QED
          BY <4>1, <5>1, <5>2
      <4>3. PICK k \in 1 .. Len(s) : s[k] = query
        BY <3>5, <4>2
      <4>4. s[1] \in matches /\ rank[s[1]] \in 0 .. 4 /\ (rank[s[1]] = 0 => s[1] = query)
        <5>1. 1 \in 1 .. Len(s)
          BY <3>5, <4>3
        <5>2. s[1] \in matches
          BY <3>5, <5>1
        <5>3. QED
          BY <5>2 DEF RankOf
      <4>5. s[1] = query
        <5>1. CASE k = 1
          BY <5>1, <4>3
        <5>2. CASE k # 1
          <6>1. rank[s[1]] < rank[s[k]] \/ rank[s[1]] = rank[s[k]]
            <7>1. 1 \in DOMAIN s /\ k \in DOMAIN s /\ 1 < k
              BY <3>5, <4>3, <5>2
            <7> HIDE DEF rank
            <7>2. QED
              BY <3>3, <7>1 DEF Sorted
          <6>2. rank[s[k]] = 0
            BY <4>2, <4>3 DEF RankOf
          <6>3. QED
            BY <4>4, <6>1, <6>2
        <5>3. QED
          BY <5>1, <5>2
      <4>6. 1 \in 1 .. size
        BY <3>5, <3>6, <4>3
      <4>7. QED
        <5>1. found[1] = s[1]
          BY <3>7, <4>6
        <5>2. Len(found) # 0
          BY <3>6, <3>7, <4>6
        <5>3. found # <<>>
          BY <5>2
        <5>4. QED
          BY <4>5, <5>1, <5>3
    <3>10. QED
      BY <3>6, <3>7, <3>8, <3>9 DEF query
  <2>3. QED
    BY <2>1, <2>2
<1>2. QED
  BY <1>1, PTL

-----------------------------------------------------------------------------
(* What a tag is.                                                          *)

\* The client's normalization and the program's validation agree, for every
\* alphabet with its lower case and for all lengths (normalize.ts,
\* validation.rs); and every row is named by a tag of both.
THEOREM TagRulesAlwaysAgree == Spec => []TagRulesAgree
<1>1. ClientAndChainAgree
  <2>1. SUFFICES ASSUME NEW raw \in Texts(MaxTag + 1)
                 PROVE  LET n == NormalizeTag(raw) IN
                          /\ n.ok => /\ ValidOnChain(n.tag)
                                     /\ NormalizeTag(n.tag) = n
                                     /\ SeedsOf(n.tag) # <<>>
                                     /\ Lower(raw) \in {n.tag, <<At>> \o n.tag}
                          /\ ValidOnChain(raw) =>
                               n = Accepted(raw) /\ NormalizeTag(<<At>> \o raw) = n
                          /\ ~n.ok => ~ValidOnChain(Lower(raw))
    BY DEF ClientAndChainAgree
  <2>2. raw \in Seq(Char)
    BY TextIsSequence, LengthsAreOrdered
  <2> DEFINE n == NormalizeTag(raw)
  <2>3. ASSUME n.ok
        PROVE  /\ ValidOnChain(n.tag) /\ NormalizeTag(n.tag) = n /\ SeedsOf(n.tag) # <<>>
               /\ Lower(raw) \in {n.tag, <<At>> \o n.tag}
    <3>1. /\ n.tag \in Seq(Canonical) /\ ValidOnChain(n.tag) /\ n = Accepted(n.tag)
          /\ Lower(raw) \in {n.tag, <<At>> \o n.tag}
      BY <2>2, <2>3, AcceptedIsTag
    <3>2. NormalizeTag(n.tag) = n
      BY <3>1, TagNormalizes
    <3>3. SeedsOf(n.tag) # <<>>
      BY <3>1, LengthsAreOrdered DEF SeedsOf, ValidOnChain
    <3>4. QED
      BY <3>1, <3>2, <3>3
  <2>4. ASSUME ValidOnChain(raw) PROVE n = Accepted(raw) /\ NormalizeTag(<<At>> \o raw) = n
    <3>1. raw \in Seq(Canonical)
      BY <2>2, <2>4, ValidIsSequence DEF ValidOnChain
    <3>2. QED
      BY <2>4, <3>1, TagNormalizes
  <2>5. ASSUME ~n.ok PROVE ~ValidOnChain(Lower(raw))
    BY <2>2, <2>5, RefusedIsInvalid DEF Accepted
  <2>6. QED
    BY <2>3, <2>4, <2>5
<1>2. IInv => \A t \in DOMAIN rows : NormalizeTag(t) = Accepted(t)
  BY TagNormalizes, TagsAreCanonical DEF IInv, TypeOK
<1>3. QED
  BY <1>1, <1>2, Invariance, PTL DEF TagRulesAgree

\* An account is read back as it was written, and no buffer that may be seen
\* stands for an account but the one the program writes for it (account.ts
\* decodeTagAccount, register_tag.rs); the tags the backfill blocks included.
THEOREM CodecIsAlwaysExact == Spec => []CodecIsExact
<1>1. \A t \in CanonicalTags : t \in Seq(Canonical) /\ ValidOnChain(t)
  BY LengthsAreOrdered DEF CanonicalTags, BoundedSeq, SeqOf
<1>2. ASSUME NEW o \in KeyBytes, NEW w \in KeyBytes, NEW p \in Bumps, NEW t \in CanonicalTags
      PROVE  ResolveOnChain(Encode(o, w, t, p)) = Decoded(o, w, t, p)
  BY <1>1, EncodedIsRead
<1>3. ASSUME NEW o \in KeyBytes, NEW w \in KeyBytes, NEW p \in Bumps,
             NEW data \in Damaged(o, w, p), ResolveOnChain(data).ok
      PROVE  LET d == ResolveOnChain(data) IN
               data = Encode(d.owner, d.wallet, d.tag, d.bump) /\ ValidOnChain(d.tag)
  <2>1. CASE \E d \in {Discriminator, 0}, tag \in [1 .. MaxTag -> Bytes], n \in 0 .. MaxTag + 1 :
               data = Buffer(d, o, w, tag, n, p)
    <3>1. PICK d \in {Discriminator, 0}, tag \in [1 .. MaxTag -> Bytes], n \in 0 .. MaxTag + 1 :
            data = Buffer(d, o, w, tag, n, p)
      BY <2>1
    <3>2. tag \in [1 .. MaxTag -> Nat]
      <4>1. Bytes \subseteq Nat
        BY BytesAreNatural DEF Bytes
      <4>2. QED
        BY <4>1
    <3>3. PICK t \in Seq(Canonical) : /\ ValidOnChain(t) /\ data = Encode(o, w, t, p)
                                      /\ ResolveOnChain(data) = Decoded(o, w, t, p)
      BY <1>3, <3>1, <3>2, ReadIsEncoded
    <3>4. QED
      BY <3>3 DEF Decoded
  <2>2. CASE \E t \in CanonicalTags, n \in 0 .. Size : data = SubSeq(Encode(o, w, t, p), 1, n)
    <3>1. PICK t \in CanonicalTags, n \in 0 .. Size : data = SubSeq(Encode(o, w, t, p), 1, n)
      BY <2>2
    <3>2. PICK S : Encode(o, w, t, p) \in Seq(S) /\ Len(Encode(o, w, t, p)) = Size
      BY <1>1, EncodedIsSequence
    <3>3. Size \in Nat
      BY LengthsAreOrdered DEF Size, BumpAt, TagLenAt, TagAt
    <3>4. Len(data) = n
      BY <3>1, <3>2, <3>3
    <3>5. Len(data) = Size
      BY <1>3 DEF ResolveOnChain, DecodeTagAccount, Undecodable, Refused
    <3>6. data = Encode(o, w, t, p)
      BY <3>1, <3>2, <3>3, <3>4, <3>5
    <3>7. QED
      BY <1>1, <1>2, <3>6 DEF Decoded
  <2> DEFINE buffers == {Buffer(d, o, w, tag, n, p) :
                           d \in {Discriminator, 0}, tag \in [1 .. MaxTag -> Bytes],
                           n \in 0 .. MaxTag + 1}
             cuts == {SubSeq(Encode(o, w, t, p), 1, n) : t \in CanonicalTags, n \in 0 .. Size}
  <2>3. Damaged(o, w, p) = buffers \cup cuts
    BY DEF Damaged, Buffer
  <2>4. ASSUME data \in buffers PROVE LET d == ResolveOnChain(data) IN
          data = Encode(d.owner, d.wallet, d.tag, d.bump) /\ ValidOnChain(d.tag)
    BY <2>1, <2>4
  <2>5. ASSUME data \in cuts PROVE LET d == ResolveOnChain(data) IN
          data = Encode(d.owner, d.wallet, d.tag, d.bump) /\ ValidOnChain(d.tag)
    BY <2>2, <2>5
  <2>6. QED
    BY <1>3, <2>3, <2>4, <2>5
<1>4. DecodeInvertsEncode
  BY <1>2, <1>3 DEF DecodeInvertsEncode
<1>5. IInv => \A t \in sweep.blocked, key \in KeyBytes, bump \in Bumps :
        ResolveTyped([tag \in Tags |-> Encode(key, key, tag, bump)], <<At>> \o t).tag = t
  <2>1. SUFFICES ASSUME IInv, NEW t \in sweep.blocked, NEW key \in KeyBytes, NEW bump \in Bumps
                 PROVE  ResolveTyped([tag \in Tags |-> Encode(key, key, tag, bump)],
                                     <<At>> \o t).tag = t
    OBVIOUS
  <2>2. t \in Tags /\ t \in Seq(Canonical) /\ ValidOnChain(t)
    BY <2>1, TagsAreCanonical DEF IInv, TypeOK, Sweep
  <2>3. TagOrThrow(<<At>> \o t, "TagInvalidError") = Ok(t)
    <3>1. NormalizeTag(<<At>> \o t) = Accepted(t)
      BY <2>2, TagNormalizes
    <3>2. QED
      BY <3>1 DEF TagOrThrow, Accepted
  <2>4. ResolveTyped([tag \in Tags |-> Encode(key, key, tag, bump)], <<At>> \o t)
          = ResolveOnChain(Encode(key, key, t, bump))
    BY <2>2, <2>3 DEF ResolveTyped, Ok
  <2>5. ResolveOnChain(Encode(key, key, t, bump)) = Decoded(key, key, t, bump)
    BY <2>2, EncodedIsRead
  <2>6. QED
    BY <2>4, <2>5 DEF Decoded
<1>6. QED
  BY <1>4, <1>5, Invariance, PTL DEF CodecIsExact

-----------------------------------------------------------------------------
(* The moderation gate.                                                    *)

\* What a backfill has in hand to block, and has blocked, fails the gate.
BlocksTheProfane ==
  /\ sweep.blocked \subseteq Profane
  /\ sweep.pc \in {"block", "flush"} => sweep.tag \in Profane

LEMMA BackfillBlocksTheProfane ==
  ASSUME IInv, BlocksTheProfane, [Next]_vars
  PROVE  BlocksTheProfane'
<1>1. sweep \in Sweep
  BY DEF IInv, TypeOK
<1>2. CASE UNCHANGED sweep
  BY <1>2 DEF BlocksTheProfane
<1>3. CASE ListActive
  BY <1>1, <1>3 DEF ListActive, BlocksTheProfane, Sweep
<1>4. ASSUME NEW t \in Tags, Inspect(t) PROVE BlocksTheProfane'
  <2>1. CASE t \in Profane
    BY <1>1, <1>4, <2>1 DEF Inspect, BlocksTheProfane, Sweep
  <2>2. CASE t \notin Profane
    BY <1>1, <1>4, <2>2 DEF Inspect, BlocksTheProfane, Sweep
  <2>3. QED
    BY <2>1, <2>2
<1>5. CASE BlockListed
  <2>1. sweep.pc = "block" /\ sweep.tag \in Profane /\ sweep.blocked \subseteq Profane
    BY <1>5 DEF BlockListed, BlocksTheProfane
  <2>2. \/ sweep'.blocked = sweep.blocked \cup {sweep.tag} /\ sweep'.tag = sweep.tag
        \/ sweep'.blocked = sweep.blocked /\ sweep'.pc = "loop"
    BY <1>1, <1>5 DEF BlockListed, Sweep
  <2>3. QED
    BY <2>1, <2>2 DEF BlocksTheProfane
<1>6. CASE FlushListed
  BY <1>1, <1>6 DEF FlushListed, BlocksTheProfane, Sweep
<1>7. CASE SweepComplete
  BY <1>1, <1>7 DEF SweepComplete, BlocksTheProfane, Sweep
<1>8. CASE SweepCrash
  <2>1. sweep' = IdleSweep
    BY <1>8 DEF SweepCrash
  <2>2. sweep'.blocked = {} /\ sweep'.pc = "idle"
    BY <2>1 DEF IdleSweep
  <2>3. QED
    BY <2>2 DEF BlocksTheProfane
<1>9. ASSUME NEW p \in Patches, Patch(p) PROVE UNCHANGED sweep
  BY <1>9 DEF Patch, Guard, Check, Write, DeleteKey, PatchFails, Answer
<1>10. ASSUME NEW t \in Tags,
              \/ ModeratorBlocks(t) \/ FillRead(t) \/ FillStore(t)
              \/ \E owner \in Keys : IndexerWrites(t, owner)
       PROVE  UNCHANGED sweep
  BY <1>10 DEF ModeratorBlocks, FillRead, FillStore, IndexerWrites
<1>11. QED
  BY <1>2, <1>3, <1>4, <1>5, <1>6, <1>7, <1>8, <1>9, <1>10 DEF Next, Backfill, vars

\* The gate blocks a tag exactly if one of the readings of its digits and
\* underscores contains a blocked term and it is not allowed by name, as far
\* as MAX_VARIANTS lets it look, for any substitutions and any lists
\* (gate.ts, profanity.ts, leetspeak.ts); the backfill blocks nothing else.
THEOREM GateReadsEveryDisguise == Spec => []GateReadsDisguises
<1>1. Init => BlocksTheProfane
  BY DEF Init, IdleSweep, BlocksTheProfane
<1>2. Spec => []BlocksTheProfane
  BY <1>1, Invariance, BackfillBlocksTheProfane, PTL DEF Spec
<1>3. BlocksTheProfane => GateReadsDisguises
  BY GateAlwaysExact DEF BlocksTheProfane, GateReadsDisguises
<1>4. QED
  BY <1>2, <1>3, PTL
=============================================================================
