----------------------------- MODULE Directory -----------------------------
(***************************************************************************)
(* The identities table of apps/api as callers of the SDK see it: the      *)
(* reads that answer from it, the PATCH of the four profile fields, and    *)
(* the writers beside it - the indexer, a moderator and the one-shot       *)
(* moderation backfill of apps/indexer.                                    *)
(*                                                                         *)
(*   rows      identities: the owner and the status of a tag and its       *)
(*             profile fields                                              *)
(*   patches   PATCH /v1/identity/:tag, cut at its awaits                  *)
(*   cached    tags whose resolve key may hold an answer of an active row  *)
(*   filling   those of them whose fill has read the row and not stored yet  *)
(*   sweep     the backfill process                                        *)
(***************************************************************************)
EXTENDS AccountCodec, FiniteSetsExt

CONSTANTS
  Tags,        \* canonical tags that are registered or may be
  Keys,        \* public keys that own tags
  Null,        \* no row, or a field that is not set
  Gated,       \* the free-text fields: displayName and bio
  Ungated,     \* avatar and preferredToken
  Malformed,   \* a value the DTO refuses
  Asks,        \* the PATCH requests callers make: tag, caller, body
  Patches,     \* bound: PATCH requests handled
  Queries,     \* the search queries users type
  FetchLimit, ResultLimit   \* SEARCH_OVER_FETCH_LIMIT, SEARCH_RESULT_LIMIT

Fields == Gated \cup Ungated
Profane == {t \in Tags : IsBlockedName(t)}

ASSUME TablesAreFinite == IsFiniteSet(Tags)
ASSUME SearchLimits == FetchLimit \in Nat \ {0} /\ ResultLimit \in Nat \ {0}
ASSUME TagsAreCanonical == \A t \in Tags : t \in Seq(Canonical) /\ ValidOnChain(t)
ASSUME AsksAreAsks == \A ask \in Asks : ask.tag \in Tags /\ DOMAIN ask.body \subseteq Fields

VARIABLES rows, patches, cached, filling, sweep
vars == <<rows, patches, cached, filling, sweep>>

NoProfile == [f \in Fields |-> Null]
Fresh(owner, status) == [owner |-> owner, status |-> status, profile |-> NoProfile]

IdleSweep ==
  [pc |-> "idle", todo |-> {}, tag |-> Null, listed |-> {}, blocked |-> {},
   missed |-> {}]

\* The rows mirrored before there was a moderation gate are all active.
Init ==
  /\ \E owner \in Keys, mirrored \in SUBSET Tags :
       rows = [t \in Tags |-> IF t \in mirrored THEN Fresh(owner, "active") ELSE Null]
  /\ patches = [p \in Patches |-> [pc |-> "idle"]]
  /\ cached = {} /\ filling = {}
  /\ sweep = IdleSweep

-----------------------------------------------------------------------------
\* The reads, of any table: what a caller of the SDK gets for a raw tag.
Ok(value) == [error |-> "none", value |-> value]
Throws(error) == [error |-> error]

Active(table, t) == t \in Tags /\ table[t] # Null /\ table[t].status = "active"

\* http.ts mapErrorResponse: the class of error for a status.
MapError(status) ==
  CASE status = 404 -> "TagNotFoundError"
    [] status = 401 -> "UnauthorizedError"
    [] status = 403 -> "ForbiddenError"
    [] status = 429 -> "RateLimitedError"
    [] status = 402 -> "InsufficientBalanceError"
    [] status = 400 -> "ValidationError"
    [] OTHER -> "UnexpectedApiError"

\* normalizeTagOrThrow of the client, normalizeTagParamOrThrow of the API.
TagOrThrow(raw, error) ==
  LET n == NormalizeTag(raw) IN IF n.ok THEN Ok(n.tag) ELSE Throws(error)

\* TagsController and TagsService, for every read of one tag but resolve: the path
\* is normalized once more, and the answer is 404 unless there is an active row.
ReadActive(table, param) ==
  LET tag == TagOrThrow(param, MapError(400)) IN
    IF tag.error = "none" /\ ~Active(table, tag.value) THEN Throws(MapError(404)) ELSE tag

\* TipClient: a malformed tag throws before there is a request.
FromClient(table, raw) ==
  LET tag == TagOrThrow(raw, "TagInvalidError") IN
    IF tag.error = "none" THEN ReadActive(table, tag.value) ELSE tag

PresentTag(tag) == <<At>> \o tag
IdentityResponse(t, row) == <<PresentTag(t), row.owner, row.profile>>
PaymentLink(tag) == <<"baseUrl", PresentTag(tag)>>
QrResponse(t, row) == <<PresentTag(t), row.owner, PaymentLink(t)>>

Identity(table, raw) ==
  LET found == FromClient(table, raw) IN
    IF found.error = "none" THEN Ok(IdentityResponse(found.value, table[found.value]))
                            ELSE found
Qr(table, raw) ==
  LET found == FromClient(table, raw) IN
    IF found.error = "none" THEN Ok(QrResponse(found.value, table[found.value])) ELSE found

\* resolve with nothing in the cache: an active row answers, a row that is not
\* active is not found, and for a tag without a row the chain is asked, as long as
\* its account, if there is one, can be decoded.
ResolveResponse(t, wallet, profile) ==
  <<PresentTag(t), wallet, profile, PaymentLink(t)>>

ResolveUncached_NoActiveRow(table, account, t) ==
  LET found == ResolveOnChain(account) IN
    IF Active(table, t) THEN Ok(ResolveResponse(t, table[t].owner, table[t].profile))
    ELSE IF found.ok THEN Ok(ResolveResponse(t, found.wallet, NoProfile))
    ELSE Throws(MapError(404))
ResolveUncached(table, account, t) ==
  LET found == ResolveOnChain(account)
      mirrored == t \in Tags /\ table[t] # Null IN
    IF Active(table, t) THEN Ok(ResolveResponse(t, table[t].owner, table[t].profile))
    ELSE IF ~mirrored /\ found.ok THEN Ok(ResolveResponse(t, found.wallet, NoProfile))
    ELSE Throws(MapError(404))
Resolve(table, account, raw) ==
  LET tag == TagOrThrow(raw, "TagInvalidError")
      param == TagOrThrow(tag.value, MapError(400)) IN
    IF tag.error # "none" THEN tag
    ELSE IF param.error # "none" THEN param
    ELSE ResolveUncached(table, account, param.value)

\* resolveOnChain: the account of the tag the client normalized, with no API
\* between; accounts maps a tag to the account the RPC node returns.
ResolveTyped(accounts, raw) ==
  LET tag == TagOrThrow(raw, "TagInvalidError") IN
    IF tag.error = "none" THEN ResolveOnChain(accounts[tag.value]) ELSE tag

\* The naming gate: a row of any status counts.
NamingGate(table, t) ==
  LET gate == ModerationGate(t) IN
    IF gate # "allowed" THEN gate
    ELSE IF t \in Tags /\ table[t] # Null THEN "already_registered"
    ELSE "available"

\* availability: an invalid tag is an answer, not an error, of the API and,
\* without a request, of the client.
AvailabilityOf(table, param) ==
  LET n == NormalizeTag(param) IN IF n.ok THEN NamingGate(table, n.tag) ELSE "invalid"
Availability(table, raw) ==
  LET n == NormalizeTag(raw) IN IF n.ok THEN AvailabilityOf(table, n.tag) ELSE "invalid"

\* search: trimmed and lowered, but no "@" is stripped.
Blank == " "
Trim(text) ==
  LET marks == {i \in DOMAIN text : text[i] # Blank} IN
    IF marks = {} THEN <<>> ELSE SubSeq(text, Min(marks), Max(marks))

NameOf(row) == IF row.profile["displayName"] = Null THEN <<>> ELSE Lower(row.profile["displayName"])

RankOf(t, row, query) ==
  IF t = query THEN 0
  ELSE IF IsPrefix(query, t) THEN 1
  ELSE IF NameOf(row) = query THEN 2
  ELSE IF IsPrefix(query, NameOf(row)) THEN 3 ELSE 4

Matches(table, query) ==
  {t \in Tags : Active(table, t) /\ (IsPrefix(query, t) \/ Includes(NameOf(table[t]), query))}

\* By rank, then the shorter tag; what is left equal stays as it came.
Sorted_Unranked(rank, found) == TRUE
Sorted(rank, found) ==
  \A i, j \in DOMAIN found : i < j =>
    \/ rank[found[i]] < rank[found[j]]
    \/ rank[found[i]] = rank[found[j]] /\ Len(found[i]) <= Len(found[j])

\* Every answer search may give: the database returns any FetchLimit of the
\* matching rows, in any order.
Answers(table, query) ==
  LET matches == Matches(table, query)
      rank == [t \in matches |-> RankOf(t, table[t], query)]
      size == Min({Cardinality(matches), FetchLimit})
  IN {SubSeq(found, 1, Min({Len(found), ResultLimit})) :
        found \in {s \in UNION {SetToSeqs({t \in fetched : rank[t] < 4}) :
                                  fetched \in kSubset(size, matches)} : Sorted(rank, s)}}

Search(table, rawQuery) ==
  LET query == Lower(Trim(rawQuery)) IN
    IF query = <<>> THEN {<<>>} ELSE Answers(table, query)

-----------------------------------------------------------------------------
\* PATCH identity.  TagOwnershipGuard and, with a row of its own, the service.
RowRefusal(ask) ==
  IF ~Active(rows, ask.tag) THEN 404
  ELSE IF rows[ask.tag].owner # ask.caller THEN 403 ELSE 200

To(p, patch) == patches' = [patches EXCEPT ![p] = patch]
\* Nothing that follows depends on the status answered.
Answer(p, code) == To(p, [pc |-> "done"])

Guard(p, ask) ==
  /\ patches[p].pc = "idle"
  /\ IF RowRefusal(ask) = 200 THEN To(p, [pc |-> "guarded", ask |-> ask])
                              ELSE Answer(p, RowRefusal(ask))
  /\ UNCHANGED <<rows, cached, filling, sweep>>

\* The DTO: null clears a field and is not validated; free text is trimmed.
Valid(body) ==
  \A f \in DOMAIN body : body[f] = Null \/
    (body[f] # Malformed /\ (f \in Gated => Trim(body[f]) # <<>>))
Value(body, f) == IF f \in Gated /\ body[f] # Null THEN Trim(body[f]) ELSE body[f]

\* The columns of a row that anybody but the chain writes, and its owner.
FieldValue == {Null} \cup UNION {{Value(ask.body, f) : f \in DOMAIN ask.body} : ask \in Asks}
Row == [owner : Keys, status : {"active", "blocked"}, profile : [Fields -> FieldValue]]

ASSUME NullIsNoRow == Null \notin Row

Blocked(body) ==
  \E f \in DOMAIN body \cap Gated : body[f] # Null /\ IsBlockedName(Value(body, f))

Check(p) ==
  /\ patches[p].pc = "guarded"
  /\ LET ask == patches[p].ask IN
       IF ~Valid(ask.body) THEN Answer(p, 400)
       ELSE IF RowRefusal(ask) # 200 THEN Answer(p, RowRefusal(ask))
       ELSE IF Blocked(ask.body) THEN Answer(p, 403)
       ELSE To(p, [pc |-> "checked", ask |-> ask])
  /\ UNCHANGED <<rows, cached, filling, sweep>>

\* Only the fields the request provides are in the UPDATE.
Data_AllFields(body, profile) ==
  [f \in Fields |-> IF f \in DOMAIN body THEN Value(body, f) ELSE Null]
Data(body, profile) ==
  [f \in Fields |-> IF f \in DOMAIN body THEN Value(body, f) ELSE profile[f]]

Write(p) ==
  /\ patches[p].pc = "checked"
  /\ LET ask == patches[p].ask IN
       /\ rows' = [rows EXCEPT ![ask.tag].profile = Data(ask.body, @)]
       /\ To(p, [pc |-> "written", ask |-> ask])
  /\ UNCHANGED <<cached, filling, sweep>>

\* DEL of the resolve key, which fails softly in apps/api and in the indexer.
Invalidate(t) == cached' = cached \ {t}
InvalidateFails == UNCHANGED cached

DeleteKey(p) ==
  /\ patches[p].pc = "written"
  /\ Invalidate(patches[p].ask.tag) \/ InvalidateFails
  /\ Answer(p, 200)
  /\ UNCHANGED <<rows, filling, sweep>>

\* A query rejects: GlobalExceptionFilter answers 500.
PatchFails(p) ==
  /\ patches[p].pc \in {"guarded", "checked"}
  /\ Answer(p, 500)
  /\ UNCHANGED <<rows, cached, filling, sweep>>

-----------------------------------------------------------------------------
\* The indexer creates a row or writes its chain columns; the profile is not
\* its own.  Its gate blocks, and never unblocks.
IndexerWrites(t, owner) ==
  /\ rows' = [rows EXCEPT ![t] =
       LET status == IF t \in Profane THEN "blocked" ELSE IF @ = Null THEN "active" ELSE @.status
       IN IF @ = Null THEN Fresh(owner, status)
          ELSE [@ EXCEPT !.owner = owner, !.status = status]]
  /\ Invalidate(t) \/ InvalidateFails
  /\ UNCHANGED <<patches, filling, sweep>>

\* External: a moderator sets the status by hand.
ModeratorBlocks(t) ==
  /\ Active(rows, t)
  /\ rows' = [rows EXCEPT ![t].status = "blocked"]
  /\ UNCHANGED <<patches, cached, filling, sweep>>

\* A resolve reads an active row and stores the answer, or fails to, some time
\* later; several API processes may do so at once.  Only the tags that the
\* backfill may block are of interest here.
FillRead(t) ==
  /\ Active(rows, t) /\ t \in Profane
  /\ filling' = filling \cup {t}
  /\ UNCHANGED <<rows, patches, cached, sweep>>

FillStore(t) ==
  /\ t \in filling
  /\ filling' = filling \ {t} \/ UNCHANGED filling
  /\ cached' = cached \cup {t} \/ UNCHANGED cached
  /\ UNCHANGED <<rows, patches, sweep>>

-----------------------------------------------------------------------------
\* backfillModerationGate: list the active rows once ...
ListActive ==
  /\ sweep.pc = "idle"
  /\ LET active == {t \in Tags : Active(rows, t)} IN
       sweep' = [sweep EXCEPT !.pc = "loop", !.todo = active, !.listed = active]
  /\ UNCHANGED <<rows, patches, cached, filling>>

\* ... look at each of them in the order of the query ...
Inspect(t) ==
  /\ sweep.pc = "loop" /\ t \in sweep.todo
  /\ sweep' = IF t \in Profane
              THEN [sweep EXCEPT !.todo = @ \ {t}, !.pc = "block", !.tag = t]
              ELSE [sweep EXCEPT !.todo = @ \ {t}]
  /\ UNCHANGED <<rows, patches, cached, filling>>

\* ... block it if it is still active, and go on without a DEL if not ...
BlockListed_SkipsDel ==
  /\ sweep.pc = "block"
  /\ rows' = [rows EXCEPT ![sweep.tag].status = "blocked"]
  /\ sweep' = [sweep EXCEPT !.pc = "loop", !.blocked = @ \cup {sweep.tag}, !.tag = Null]
  /\ UNCHANGED <<patches, cached, filling>>
BlockListed ==
  /\ sweep.pc = "block"
  /\ \/ /\ Active(rows, sweep.tag)
        /\ rows' = [rows EXCEPT ![sweep.tag].status = "blocked"]
        /\ sweep' = [sweep EXCEPT !.pc = "flush", !.blocked = @ \cup {sweep.tag}]
     \/ /\ ~Active(rows, sweep.tag)
        /\ sweep' = [sweep EXCEPT !.pc = "loop", !.tag = Null]
        /\ UNCHANGED rows
  /\ UNCHANGED <<patches, cached, filling>>

\* ... and delete its key.  missed is history: no variable of the code holds
\* the tags whose DEL failed, or came while a fill held the old answer.
FlushListed ==
  /\ sweep.pc = "flush"
  /\ \/ /\ Invalidate(sweep.tag)
        /\ sweep' = [sweep EXCEPT !.pc = "loop", !.tag = Null,
                                   !.missed = @ \cup ({sweep.tag} \cap filling)]
     \/ /\ InvalidateFails
        /\ sweep' = [sweep EXCEPT !.pc = "loop", !.tag = Null, !.missed = @ \cup {sweep.tag}]
  /\ UNCHANGED <<rows, patches, filling>>

SweepComplete ==
  /\ sweep.pc = "loop" /\ sweep.todo = {}
  /\ sweep' = [sweep EXCEPT !.pc = "done"]
  /\ UNCHANGED <<rows, patches, cached, filling>>

\* A query rejects or the process dies; it is run again by hand.
SweepCrash ==
  /\ sweep.pc \in {"loop", "block", "flush"}
  /\ sweep' = IdleSweep
  /\ UNCHANGED <<rows, patches, cached, filling>>

-----------------------------------------------------------------------------
Patch(p) == (\E ask \in Asks : Guard(p, ask)) \/ Check(p) \/ Write(p) \/ DeleteKey(p) \/ PatchFails(p)

Backfill == ListActive \/ (\E t \in Tags : Inspect(t)) \/ BlockListed \/ FlushListed
            \/ SweepComplete \/ SweepCrash

Next ==
  \/ \E p \in Patches : Patch(p)
  \/ \E t \in Tags : ModeratorBlocks(t) \/ FillRead(t) \/ FillStore(t)
                  \/ \E owner \in Keys : IndexerWrites(t, owner)
  \/ Backfill

Spec == Init /\ [][Next]_vars

-----------------------------------------------------------------------------
\* The client, the chain and the table agree on what a tag is: what
\* normalizeTag returns is a fixed point of it that the program accepts, what
\* the program accepts can be typed, in one way but for case and the "@", and
\* every tag of the table is one of them.
TagRulesAgree ==
  /\ ClientAndChainAgree
  /\ \A t \in DOMAIN rows : NormalizeTag(t) = Accepted(t)

\* The moderation gate blocks a tag exactly if it, or something its digits and
\* underscores may be read as, contains a blocked term and it is not allowed
\* by name, as long as it has no more readings than MAX_VARIANTS; so does the
\* backfill.
GateReadsDisguises ==
  /\ GateIsExact
  /\ sweep.blocked \subseteq Profane

\* An account is read back as the program wrote it, a buffer the program does
\* not write is refused, and a blocked tag can still be read from the chain.
CodecIsExact ==
  /\ DecodeInvertsEncode
  /\ \A t \in sweep.blocked, key \in KeyBytes, bump \in Bumps :
       ResolveTyped([tag \in Tags |-> Encode(key, key, tag, bump)], <<At>> \o t).tag = t

\* A blocked tag looks to search, identity and QR like one that has no row, to
\* resolve like one that is not on chain either, whatever the chain says, and to
\* availability like one that is taken, or that could never be had.
BlockedLooksAbsent ==
  LET blocked == {t \in Tags : rows[t] # Null /\ rows[t].status = "blocked"}
      without == [t \in Tags |-> IF t \in blocked THEN Null ELSE rows[t]]
  IN blocked # {} =>
       /\ \A q \in Queries : Search(rows, q) = Search(without, q)
       /\ \A t \in blocked : LET typed == <<At>> \o t IN
            /\ Identity(rows, typed) = Identity(without, typed)
            /\ Qr(rows, typed) = Qr(without, typed)
            /\ Availability(rows, typed) # "available"
            /\ LET absent == Resolve(without, <<>>, typed) IN
                 \A key \in KeyBytes, bump \in Bumps :
                   Resolve(rows, Encode(key, key, t, bump), typed) = absent

\* Search and identity agree: what search finds can be read and is what was
\* asked for; and the tag typed exactly is found first, unless more rows match
\* than the query fetches, in which case nothing promises it.
SearchFindsExact ==
  \A q \in Queries :
    LET query == Lower(Trim(q)) IN
      \A found \in Search(rows, q) :
        /\ Len(found) <= ResultLimit
        /\ \A i \in DOMAIN found : Identity(rows, found[i]).error = "none"
        /\ (Active(rows, query) /\ Cardinality(Matches(rows, query)) <= FetchLimit) =>
             found # <<>> /\ found[1] = query

\* A profile field changes only to what a PATCH of an owner provided for that
\* field, and free text that the profanity check refuses never gets in; no
\* other writer, and no other PATCH of the same row, undoes one.
ProfileIsPatched ==
  [][\A t \in Tags, f \in Fields :
       rows[t] # Null /\ rows'[t].profile[f] # rows[t].profile[f] =>
         \E p \in Patches :
           /\ patches[p].pc = "checked" /\ patches[p].ask.tag = t
           /\ f \in DOMAIN patches[p].ask.body
           /\ rows'[t].profile[f] = Value(patches[p].ask.body, f)
           /\ f \in Gated /\ rows'[t].profile[f] # Null => ~IsBlockedName(rows'[t].profile[f])
    ]_vars

\* A backfill that reports completion has left no tag active that it listed
\* and that fails the gate, and no answer of the time before in the cache, or
\* on its way there, for one that it blocked, unless the DEL failed or a fill
\* had read the row before; whatever the indexer, a moderator, a PATCH and an
\* earlier run that died did meanwhile.
BackfillComplete ==
  sweep.pc = "done" =>
    /\ \A t \in sweep.listed \cap Profane : rows[t].status = "blocked"
    /\ sweep.blocked \cap (cached \cup filling) \subseteq sweep.missed
=============================================================================
