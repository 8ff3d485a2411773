------------------------- MODULE ResolveCacheProofs -------------------------
(***************************************************************************)
(* The safety of the resolve cache, proved for every number of API         *)
(* processes, requests, indexer flows and PATCH requests.                  *)
(***************************************************************************)
EXTENDS ResolveCache, SequenceTheorems, TLAPS

\* The finalized account has its type.
LEMMA AccountIsTyped ==
  ASSUME TypeOK
  PROVE  /\ Len(history) \in Nat \ {0}
         /\ \A s \in 1 .. Len(history) : history[s] \in Account \cup {Missing}
         /\ account \in Account \cup {Missing}
<1>1. history \in Seq(Account \cup {Missing}) /\ history # <<>>
  BY DEF TypeOK
<1>2. Len(history) \in Nat \ {0}
  BY <1>1
<1>3. QED
  BY <1>1, <1>2 DEF account

\* The chain grows by one slot and keeps the earlier ones.
LEMMA HistoryGrows ==
  ASSUME TypeOK, NEW a \in Account, history' = Append(history, a)
  PROVE  /\ history' \in Seq(Account \cup {Missing}) /\ history' # <<>>
         /\ Len(history') = Len(history) + 1 /\ account' = a
         /\ \A s \in 1 .. Len(history) : history'[s] = history[s]
<1>1. history \in Seq(Account \cup {Missing})
  BY DEF TypeOK
<1>2. QED
  BY <1>1 DEF account

\* What the indexer writes of a slot is a row.
LEMMA IndexerWritesRow ==
  ASSUME TypeOK, NEW f \in Flows, IndexerWrites(f)
  PROVE  \E s \in 1 .. Len(history), r \in Row :
           /\ WriteRow(r)
           /\ history[s] = [owner |-> r.owner, wallet |-> r.wallet]
           /\ r.slot = s
           /\ row # Missing => row.slot <= s
           /\ row # Missing /\ row.status = "blocked" => r.status = "blocked"
<1>1. PICK s \in 1 .. Len(history), status \in M!Status :
        /\ history[s] # Missing
        /\ row # Missing => row.slot <= s
        /\ M!MayBecome(Tag, status)
        /\ WriteRow([owner |-> history[s].owner, wallet |-> history[s].wallet, slot |-> s,
                     name |-> IF row = Missing THEN NoName ELSE row.name,
                     status |-> status])
  BY DEF IndexerWrites
<1> DEFINE r == [owner |-> history[s].owner, wallet |-> history[s].wallet, slot |-> s,
                 name |-> IF row = Missing THEN NoName ELSE row.name,
                 status |-> status]
<1>2. history[s] \in Account /\ s \in Nat
  BY <1>1, AccountIsTyped
<1>3. r \in Row
  <2>1. (IF row = Missing THEN NoName ELSE row.name) \in Names \cup {NoName}
    BY DEF TypeOK, Row
  <2>2. QED
    BY <1>1, <1>2, <2>1 DEF Row, Account, M!Status
<1>4. history[s] = [owner |-> r.owner, wallet |-> r.wallet]
  BY <1>2 DEF Account
<1>5. ASSUME row # Missing, row.status = "blocked" PROVE status = "blocked"
  <2>1. [owner |-> row.owner, wallet |-> row.wallet,
         slot |-> row.slot, status |-> row.status] # Missing
    BY <1>5, Sentinels DEF TypeOK, Row
  <2>2. QED
    BY <1>1, <1>5, <2>1 DEF M!MayBecome
<1>6. QED
  BY <1>1, <1>3, <1>4, <1>5

\* The answer a row gives is an answer.
LEMMA AnswersAreTyped ==
  /\ \A r \in Row : AnswerFor(r) \in Answer
  /\ \A a \in Account : FallbackResponse(a) \in Answer
  /\ Negative \in Answer
BY DEF AnswerFor, ResponseOf, FallbackResponse, Answer, Response, Row, Account

\* A write of the row: flights keep their type and their values, and those
\* past the read are overtaken.
LEMMA OvertakeFlights ==
  ASSUME TypeOK, Overtake
  PROVE  /\ flight' \in [Instances -> Flight \cup {None}]
         /\ \A i \in Instances : (flight'[i] # None /\ ~flight'[i].overtaken)
              => flight'[i].at = "read"
<1>1. \A i \in Instances : flight[i] # None =>
        /\ flight[i] \in Flight
        /\ flight[i].at \in {"read", "lookup", "set"}
        /\ [flight[i] EXCEPT !.overtaken = TRUE] \in Flight
        /\ [flight[i] EXCEPT !.overtaken = TRUE].overtaken = TRUE
  BY DEF TypeOK, Flight
<1>2. flight' \in [Instances -> Flight \cup {None}]
  BY <1>1 DEF Overtake, TypeOK
<1>3. QED
  BY <1>1, <1>2, Sentinels DEF Overtake, Flight

\* A write of the row leaves what WriteRow touches well typed.
LEMMA WriteRowIsTyped ==
  ASSUME TypeOK, NEW r \in Row, WriteRow(r)
  PROVE  /\ row' \in Row
         /\ visible' \subseteq Answer
         /\ flight' \in [Instances -> Flight \cup {None}]
         /\ UNCHANGED <<req, ans, raced>>
         /\ FlightsAgree'
<1>1. RightAnswers(r, account) \subseteq Answer
  BY AnswersAreTyped, AccountIsTyped DEF RightAnswers
<1>2. QED
  BY <1>1, OvertakeFlights DEF WriteRow, TypeOK, FlightsAgree

\* The end of a flight leaves the requests and the other flights as they are.
LEMMA SettleIsTyped ==
  ASSUME TypeOK, NEW i \in Instances, NEW a \in Answer \cup {Error}, Settle(i, a)
  PROVE  /\ flight' \in [Instances -> Flight \cup {None}]
         /\ req' \in [Requests -> {"idle", "missed"} \cup Instances]
         /\ ans' \in [Requests -> Answer \cup {Error, None}]
         /\ \A j \in Instances : flight'[j] \in {flight[j], None}
  BY DEF Settle, TypeOK

\* DEL empties the entry or leaves it to the TTL.
LEMMA DeleteKeyIsSafe ==
  ASSUME TypeOK, DeleteKey
  PROVE  /\ cache' \in Answer \cup {Empty}
         /\ tainted' \in BOOLEAN
         /\ faults' \in 0 .. MaxFaults
         /\ cache' # Empty => tainted'
<1>1. CASE cache' = Empty /\ tainted' = FALSE /\ UNCHANGED faults
  BY <1>1 DEF TypeOK
<1>2. CASE Fault /\ tainted' = (cache # Empty) /\ UNCHANGED cache
  <2>1. faults' \in 0 .. MaxFaults /\ cache' \in Answer \cup {Empty}
    BY <1>2, CacheConstants DEF Fault, TypeOK
  <2>2. tainted' \in BOOLEAN /\ (cache' # Empty => tainted')
    BY <1>2, Zenon
  <2>3. QED
    BY <2>1, <2>2
<1>3. QED
  BY <1>1, <1>2 DEF DeleteKey

LEMMA TypeStep ==
  ASSUME TypeOK, [Next]_vars
  PROVE  TypeOK'
<1> USE DEF apiVars, ghostVars
<1>1. ASSUME Fault PROVE faults' \in 0 .. MaxFaults
  BY <1>1, CacheConstants DEF Fault, TypeOK
<1>2. ASSUME Change PROVE changes' \in 0 .. MaxChanges
  BY <1>2, CacheConstants DEF Change, TypeOK
<1>3. ASSUME NEW r \in Requests, GetCache(r)
      PROVE  TypeOK'
  BY <1>1, <1>3 DEF GetCache, TypeOK
<1>4. ASSUME NEW r \in Requests, NEW i \in Instances, JoinOrStart(r, i)
      PROVE  TypeOK'
  <2>1. [at |-> "read", val |-> Negative, overtaken |-> FALSE] \in Flight
    BY AnswersAreTyped DEF Flight
  <2>2. QED
    BY <1>4, <2>1 DEF JoinOrStart, TypeOK
<1>5. ASSUME NEW i \in Instances, flight[i] # None
      PROVE  /\ flight[i] \in Flight
             /\ flight[i].val \in Answer
             /\ flight[i].overtaken \in BOOLEAN
             /\ \A v \in Answer : [flight[i] EXCEPT !.at = "set", !.val = v] \in Flight
             /\ [flight[i] EXCEPT !.at = "lookup"] \in Flight
  BY <1>5 DEF TypeOK, Flight
<1>6. ASSUME NEW i \in Instances, ReadMirror(i)
      PROVE  TypeOK'
  <2>1. flight' \in [Instances -> Flight \cup {None}]
    BY <1>5, <1>6, AnswersAreTyped DEF ReadMirror, TypeOK
  <2>2. QED
    BY <1>6, <2>1 DEF ReadMirror, TypeOK
<1>7. ASSUME NEW i \in Instances, LookupChain(i)
      PROVE  TypeOK'
  <2>1. PICK v \in Answer : flight' = [flight EXCEPT ![i] = [@ EXCEPT !.at = "set", !.val = v]]
    <3>1. account # Missing => FallbackResponse(account) \in Answer
      BY AnswersAreTyped, AccountIsTyped
    <3>2. QED
      BY <1>7, <3>1, AnswersAreTyped DEF LookupChain
  <2>2. flight' \in [Instances -> Flight \cup {None}]
    <3>1. flight[i] # None
      BY <1>7 DEF LookupChain
    <3>2. [flight[i] EXCEPT !.at = "set", !.val = v] \in Flight
      BY <1>5, <3>1
    <3>3. QED
      BY <2>1, <3>2 DEF TypeOK
  <2>3. raced' \subseteq Answer
    <3>1. account # Missing => FallbackResponse(account) \in Answer
      BY AnswersAreTyped, AccountIsTyped
    <3>2. QED
      BY <1>7, <3>1 DEF LookupChain, TypeOK
  <2>4. QED
    BY <1>1, <1>7, <2>2, <2>3 DEF LookupChain, TypeOK
<1>8. ASSUME NEW i \in Instances, SetCache(i)
      PROVE  TypeOK'
  <2>1. flight[i].val \in Answer /\ flight[i].overtaken \in BOOLEAN
    BY <1>5, <1>8 DEF SetCache
  <2>2. QED
    BY <1>1, <1>8, <2>1, SettleIsTyped DEF SetCache, TypeOK
<1>9. ASSUME NEW i \in Instances, QueryFails(i) \/ ProcessDies(i)
      PROVE  TypeOK'
  BY <1>1, <1>9, SettleIsTyped DEF QueryFails, ProcessDies, TypeOK
<1>10. CASE Expire
  BY <1>10 DEF Expire, TypeOK
<1>11. CASE ChainMoves
  <2>1. PICK a \in Account : /\ history' = Append(history, a)
                             /\ visible' = visible \cup RightAnswers(row, a)
    BY <1>11 DEF ChainMoves
  <2>2. RightAnswers(row, a) \subseteq Answer
    BY AnswersAreTyped DEF RightAnswers, TypeOK
  <2>3. history' \in Seq(Account \cup {Missing}) /\ history' # <<>>
    BY <2>1, HistoryGrows
  <2>4. QED
    BY <1>2, <1>11, <2>1, <2>2, <2>3 DEF ChainMoves, TypeOK
<1>12. ASSUME NEW f \in Flows, IndexerWrites(f)
       PROVE  TypeOK'
  <2>1. PICK r \in Row : WriteRow(r)
    BY <1>12, IndexerWritesRow
  <2>2. /\ row' \in Row
        /\ visible' \subseteq Answer
        /\ flight' \in [Instances -> Flight \cup {None}]
        /\ UNCHANGED <<req, ans, raced>>
    BY <2>1, WriteRowIsTyped
  <2>3. QED
    BY <1>12, <2>2 DEF IndexerWrites, TypeOK
<1>13. ASSUME NEW f \in Flows, IndexerDeletes(f)
       PROVE  TypeOK'
  BY <1>13, DeleteKeyIsSafe DEF IndexerDeletes, TypeOK
<1>14. ASSUME NEW p \in Patches, PatchChecks(p)
       PROVE  TypeOK'
  BY <1>14 DEF PatchChecks, TypeOK, Row
<1>15. ASSUME NEW p \in Patches, PatchWrites(p)
       PROVE  TypeOK'
  <2>1. PICK n \in Names : WriteRow([row EXCEPT !.name = n])
    BY <1>15 DEF PatchWrites
  <2>2. [row EXCEPT !.name = n] \in Row
    BY <1>15 DEF PatchWrites, TypeOK, Row
  <2>3. /\ row' \in Row
        /\ visible' \subseteq Answer
        /\ flight' \in [Instances -> Flight \cup {None}]
        /\ UNCHANGED <<req, ans, raced>>
    BY <2>1, <2>2, WriteRowIsTyped
  <2>4. QED
    BY <1>2, <1>15, <2>3 DEF PatchWrites, TypeOK
<1>16. ASSUME NEW p \in Patches, PatchDeletes(p)
       PROVE  TypeOK'
  BY <1>16, DeleteKeyIsSafe DEF PatchDeletes, TypeOK
<1>17. CASE ModeratorBlocks
  <2>1. [row EXCEPT !.status = "blocked"] \in Row
    BY <1>17 DEF ModeratorBlocks, TypeOK, Row
  <2>2. /\ row' \in Row
        /\ visible' \subseteq Answer
        /\ flight' \in [Instances -> Flight \cup {None}]
        /\ UNCHANGED <<req, ans, raced>>
    BY <1>17, <2>1, WriteRowIsTyped DEF ModeratorBlocks
  <2>3. QED
    BY <1>2, <1>17, <2>2 DEF ModeratorBlocks, TypeOK
<1>18. CASE UNCHANGED vars
  BY <1>18 DEF vars, TypeOK
<1>19. QED
  BY <1>3, <1>4, <1>6, <1>7, <1>8, <1>9, <1>10, <1>11, <1>12, <1>13, <1>14, <1>15,
     <1>16, <1>17, <1>18 DEF Next

\* A fill that no write overtook still holds what the mirror says.
LEMMA FlightsStep ==
  ASSUME TypeOK, FlightsAgree, [Next]_vars
  PROVE  FlightsAgree'
<1> USE DEF apiVars, ghostVars
<1>1. ASSUME UNCHANGED row, \A i \in Instances : flight'[i] \in {flight[i], None}
      PROVE  FlightsAgree'
  BY <1>1 DEF FlightsAgree
<1>2. ASSUME NEW r \in Requests, NEW i \in Instances, JoinOrStart(r, i)
      PROVE  FlightsAgree'
  BY <1>2 DEF JoinOrStart, FlightsAgree, TypeOK
<1>3. ASSUME NEW i \in Instances, ReadMirror(i)
      PROVE  FlightsAgree'
  <2>1. /\ flight[i] \in Flight
        /\ \A j \in Instances : j # i => flight'[j] = flight[j]
        /\ UNCHANGED row
    BY <1>3 DEF ReadMirror, TypeOK
  <2>2. CASE row = Missing
    <3>1. flight'[i] = [flight[i] EXCEPT !.at = "lookup"]
      BY <1>3, <2>2 DEF ReadMirror, TypeOK
    <3>2. flight'[i].at = "lookup"
      BY <2>1, <3>1 DEF Flight
    <3>3. QED
      BY <2>1, <2>2, <3>2 DEF FlightsAgree
  <2>3. CASE row # Missing
    <3>1. flight'[i] = [flight[i] EXCEPT !.at = "set", !.val = AnswerFor(row)]
      BY <1>3, <2>3 DEF ReadMirror, TypeOK
    <3>2. flight'[i].at = "set" /\ flight'[i].val = AnswerFor(row)
      BY <2>1, <3>1 DEF Flight
    <3>3. AnswerFor(row)' = AnswerFor(row)
      BY <2>1 DEF AnswerFor, ResponseOf
    <3>4. QED
      BY <2>1, <3>2, <3>3 DEF FlightsAgree
  <2>4. QED
    BY <2>2, <2>3
<1>4. ASSUME NEW i \in Instances, LookupChain(i)
      PROVE  FlightsAgree'
  <2>1. /\ flight[i] \in Flight /\ flight[i] # None /\ flight[i].at = "lookup"
        /\ \A j \in Instances : j # i => flight'[j] = flight[j]
        /\ UNCHANGED row
    BY <1>4 DEF LookupChain, TypeOK
  <2>2. PICK v : flight'[i] = [flight[i] EXCEPT !.at = "set", !.val = v]
    BY <1>4 DEF LookupChain, TypeOK
  <2>3. flight'[i].at = "set" /\ flight'[i].overtaken = flight[i].overtaken
    BY <2>1, <2>2 DEF Flight
  <2>4. ~flight[i].overtaken => row = Missing
    BY <2>1 DEF FlightsAgree
  <2>5. QED
    BY <2>1, <2>3, <2>4 DEF FlightsAgree
<1>5. ASSUME NEW i \in Instances, SetCache(i) \/ QueryFails(i) \/ ProcessDies(i)
      PROVE  FlightsAgree'
  BY <1>1, <1>5 DEF SetCache, QueryFails, ProcessDies, Settle, TypeOK
<1>6. ASSUME NEW f \in Flows, IndexerWrites(f)
      PROVE  FlightsAgree'
  <2>1. Overtake
    BY <1>6 DEF IndexerWrites, WriteRow
  <2>2. QED
    BY <2>1, OvertakeFlights DEF FlightsAgree
<1>7. ASSUME NEW p \in Patches, PatchWrites(p)
      PROVE  FlightsAgree'
  <2>1. Overtake
    BY <1>7 DEF PatchWrites, WriteRow
  <2>2. QED
    BY <2>1, OvertakeFlights DEF FlightsAgree
<1>8. CASE ModeratorBlocks
  <2>1. Overtake
    BY <1>8 DEF ModeratorBlocks, WriteRow
  <2>2. QED
    BY <2>1, OvertakeFlights DEF FlightsAgree
<1>9. ASSUME \/ UNCHANGED vars \/ Expire \/ ChainMoves
             \/ \E r \in Requests : GetCache(r)
             \/ \E f \in Flows : IndexerDeletes(f)
             \/ \E p \in Patches : PatchChecks(p) \/ PatchDeletes(p)
      PROVE  FlightsAgree'
  <2>1. UNCHANGED <<row, flight>>
    BY <1>9 DEF vars, Expire, ChainMoves, GetCache, IndexerDeletes, PatchChecks,
                PatchDeletes
  <2>2. QED
    BY <1>1, <2>1
<1>10. QED
  BY <1>2, <1>3, <1>4, <1>5, <1>6, <1>7, <1>8, <1>9 DEF Next

\* The entry agrees with the row but for the named excuses.
LEMMA CacheStep ==
  ASSUME TypeOK, CacheAgrees, FlightsAgree, [Next]_vars
  PROVE  CacheAgrees'
<1> USE DEF apiVars, ghostVars
<1>1. ASSUME cache' = Empty \/ tainted' \/ DeletePending'
      PROVE  CacheAgrees'
  BY <1>1 DEF CacheAgrees
<1>2. ASSUME UNCHANGED <<cache, row, tainted>>, DeletePending => DeletePending'
      PROVE  CacheAgrees'
  <2>1. AnswerFor(row)' = AnswerFor(row)
    BY <1>2 DEF AnswerFor, ResponseOf
  <2>2. QED
    BY <1>2, <2>1 DEF CacheAgrees
<1>3. ASSUME NEW i \in Instances, SetCache(i)
      PROVE  CacheAgrees'
  <2>1. DeletePending' = DeletePending /\ UNCHANGED row
    BY <1>3 DEF SetCache, DeletePending
  <2>2. CASE cache' = flight[i].val /\ tainted' = flight[i].overtaken
    <3>1. flight[i] # None /\ flight[i].at = "set"
      BY <1>3 DEF SetCache
    <3>2. (row # Missing /\ ~flight[i].overtaken) => cache' = AnswerFor(row)
      BY <2>2, <3>1 DEF FlightsAgree
    <3>3. AnswerFor(row)' = AnswerFor(row)
      BY <2>1 DEF AnswerFor, ResponseOf
    <3>4. (row' # Missing /\ ~tainted') => cache' = AnswerFor(row)'
      BY <2>1, <2>2, <3>2, <3>3
    <3>5. QED
      BY <3>4 DEF CacheAgrees
  <2>3. CASE UNCHANGED <<cache, tainted>>
    BY <1>2, <2>1, <2>3
  <2>4. QED
    BY <1>3, <2>2, <2>3 DEF SetCache
<1>4. ASSUME NEW f \in Flows, IndexerWrites(f)
      PROVE  CacheAgrees'
  <2>1. flow'[f] = "del"
    BY <1>4 DEF IndexerWrites, TypeOK
  <2>2. QED
    BY <1>1, <2>1 DEF DeletePending
<1>5. ASSUME NEW p \in Patches, PatchWrites(p)
      PROVE  CacheAgrees'
  <2>1. patch'[p] = "del"
    BY <1>5 DEF PatchWrites, TypeOK
  <2>2. QED
    BY <1>1, <2>1 DEF DeletePending
<1>6. CASE ModeratorBlocks
  <2>1. tainted' = (cache # Empty) /\ UNCHANGED cache
    BY <1>6 DEF ModeratorBlocks
  <2>2. cache' = Empty \/ tainted'
    BY <2>1, Zenon
  <2>3. QED
    BY <1>1, <2>2
<1>7. CASE DeleteKey
  BY <1>1, <1>7, DeleteKeyIsSafe
<1>8. CASE Expire
  BY <1>1, <1>8 DEF Expire
<1>9. ASSUME NEW p \in Patches, PatchChecks(p)
      PROVE  CacheAgrees'
  <2>1. patch[p] = "idle" /\ patch' = [patch EXCEPT ![p] = row.owner]
    BY <1>9 DEF PatchChecks
  <2>2. \A q \in Patches : patch[q] = "del" => patch'[q] = "del"
    BY <2>1 DEF TypeOK
  <2>3. UNCHANGED <<cache, row, tainted, flow>>
    BY <1>9 DEF PatchChecks
  <2>4. QED
    BY <1>2, <2>2, <2>3 DEF DeletePending
<1>10. ASSUME \/ UNCHANGED vars \/ ChainMoves
              \/ \E r \in Requests : GetCache(r) \/ \E i \in Instances : JoinOrStart(r, i)
              \/ \E i \in Instances : ReadMirror(i) \/ LookupChain(i) \/ QueryFails(i)
                                      \/ ProcessDies(i)
       PROVE  CacheAgrees'
  <2>1. UNCHANGED <<cache, row, tainted, flow, patch>>
    BY <1>10 DEF vars, ChainMoves, GetCache, JoinOrStart, ReadMirror, LookupChain,
                 QueryFails, ProcessDies
  <2>2. QED
    BY <1>2, <2>1 DEF DeletePending
<1>11. QED
  BY <1>3, <1>4, <1>5, <1>6, <1>7, <1>8, <1>9, <1>10
  DEF Next, IndexerDeletes, PatchDeletes

\* Whoever writes the row leaves it the account of its slot.
LEMMA SnapshotStep ==
  ASSUME TypeOK, RowIsSnapshot, [Next]_vars
  PROVE  RowIsSnapshot'
<1> USE DEF apiVars, ghostVars
<1>1. ASSUME UNCHANGED <<row, history>> PROVE RowIsSnapshot'
  BY <1>1 DEF RowIsSnapshot
<1>2. CASE ChainMoves
  <2>1. PICK a \in Account : history' = Append(history, a)
    BY <1>2 DEF ChainMoves
  <2>2. UNCHANGED row
    BY <1>2 DEF ChainMoves
  <2>3. QED
    BY <2>1, <2>2, HistoryGrows, AccountIsTyped DEF RowIsSnapshot
<1>3. ASSUME NEW f \in Flows, IndexerWrites(f) PROVE RowIsSnapshot'
  <2>1. PICK s \in 1 .. Len(history), r \in Row :
          WriteRow(r) /\ history[s] = [owner |-> r.owner, wallet |-> r.wallet] /\ r.slot = s
    BY <1>3, IndexerWritesRow
  <2>2. row' = r /\ UNCHANGED history
    BY <1>3, <2>1 DEF IndexerWrites, WriteRow
  <2>3. QED
    BY <2>1, <2>2 DEF RowIsSnapshot
<1>4. ASSUME NEW p \in Patches, PatchWrites(p) PROVE RowIsSnapshot'
  <2>1. PICK n \in Names : row' = [row EXCEPT !.name = n]
    BY <1>4 DEF PatchWrites, WriteRow
  <2>2. row # Missing /\ row \in Row /\ UNCHANGED history
    BY <1>4 DEF PatchWrites, TypeOK
  <2>3. row'.owner = row.owner /\ row'.wallet = row.wallet /\ row'.slot = row.slot
    BY <2>1, <2>2 DEF Row
  <2>4. QED
    BY <2>2, <2>3 DEF RowIsSnapshot
<1>5. CASE ModeratorBlocks
  <2>1. row' = [row EXCEPT !.status = "blocked"]
    BY <1>5 DEF ModeratorBlocks, WriteRow
  <2>2. row # Missing /\ row \in Row /\ UNCHANGED history
    BY <1>5 DEF ModeratorBlocks, TypeOK
  <2>3. row'.owner = row.owner /\ row'.wallet = row.wallet /\ row'.slot = row.slot
    BY <2>1, <2>2 DEF Row
  <2>4. QED
    BY <2>2, <2>3 DEF RowIsSnapshot
<1>6. ASSUME \/ UNCHANGED vars \/ Expire
             \/ \E r \in Requests : GetCache(r) \/ \E i \in Instances : JoinOrStart(r, i)
             \/ \E i \in Instances : \/ ReadMirror(i) \/ LookupChain(i) \/ SetCache(i)
                                     \/ QueryFails(i) \/ ProcessDies(i)
             \/ \E f \in Flows : IndexerDeletes(f)
             \/ \E p \in Patches : PatchChecks(p) \/ PatchDeletes(p)
      PROVE  RowIsSnapshot'
  <2>1. UNCHANGED <<row, history>>
    BY <1>6 DEF vars, Expire, GetCache, JoinOrStart, ReadMirror, LookupChain, SetCache,
                QueryFails, ProcessDies, IndexerDeletes, PatchChecks, PatchDeletes
  <2>2. QED
    BY <1>1, <2>1
<1>7. QED
  BY <1>2, <1>3, <1>4, <1>5, <1>6 DEF Next

-----------------------------------------------------------------------------
(* Waiting.                                                                *)

\* A flight ends only by settling, and who joins one finds it under way.
LEMMA WaitersStep ==
  ASSUME TypeOK, WaitersHaveFlights, [Next]_vars
  PROVE  WaitersHaveFlights'
<1> USE DEF apiVars
<1>0. None \notin Flight
  BY Sentinels DEF Flight
<1>1. ASSUME \A r \in Requests : req'[r] \in Instances => req[r] = req'[r],
             \A i \in Instances : flight[i] # None => flight'[i] # None
      PROVE  WaitersHaveFlights'
  BY <1>1 DEF WaitersHaveFlights
<1>2. ASSUME NEW i \in Instances, NEW answer, Settle(i, answer)
      PROVE  WaitersHaveFlights'
  <2>1. ASSUME NEW r \in Requests, req'[r] \in Instances
        PROVE  req'[r] = req[r] /\ req[r] # i
    BY <1>2, <2>1, Sentinels DEF Settle
  <2>2. \A j \in Instances : j # i => flight'[j] = flight[j]
    BY <1>2 DEF Settle, TypeOK
  <2>3. QED
    BY <2>1, <2>2 DEF WaitersHaveFlights
<1>3. ASSUME NEW r \in Requests, GetCache(r) PROVE WaitersHaveFlights'
  <2>1. UNCHANGED flight /\ \A q \in Requests : req'[q] \in Instances => req'[q] = req[q]
    BY <1>3, Sentinels DEF GetCache, TypeOK
  <2>2. QED
    BY <1>1, <2>1
<1>4. ASSUME NEW r \in Requests, NEW i \in Instances, JoinOrStart(r, i)
      PROVE  WaitersHaveFlights'
  <2>1. /\ flight'[i] # None
        /\ \A j \in Instances : flight[j] # None => flight'[j] # None
    <3>1. [at |-> "read", val |-> Negative, overtaken |-> FALSE] \in Flight
      BY AnswersAreTyped DEF Flight
    <3>2. QED
      BY <1>0, <1>4, <3>1 DEF JoinOrStart, TypeOK
  <2>2. req'[r] = i /\ \A q \in Requests : q # r => req'[q] = req[q]
    BY <1>4 DEF JoinOrStart, TypeOK
  <2>3. QED
    BY <2>1, <2>2 DEF WaitersHaveFlights
<1>5. ASSUME NEW i \in Instances, ReadMirror(i) \/ LookupChain(i)
      PROVE  WaitersHaveFlights'
  <2>1. UNCHANGED req
    BY <1>5 DEF ReadMirror, LookupChain
  <2>2. flight'[i] # None
    <3>0. flight[i] # None
      BY <1>5 DEF ReadMirror, LookupChain
    <3>1. /\ flight[i] \in Flight
          /\ \A v \in Answer : [flight[i] EXCEPT !.at = "set", !.val = v] \in Flight
          /\ [flight[i] EXCEPT !.at = "lookup"] \in Flight
      BY <3>0 DEF TypeOK, Flight
    <3>2. CASE ReadMirror(i)
      <4>1. row # Missing => AnswerFor(row) \in Answer
        BY AnswersAreTyped DEF TypeOK
      <4>2. flight'[i] = IF row = Missing THEN [flight[i] EXCEPT !.at = "lookup"]
                         ELSE [flight[i] EXCEPT !.at = "set", !.val = AnswerFor(row)]
        BY <3>2 DEF ReadMirror, TypeOK
      <4>3. flight'[i] \in Flight
        BY <3>1, <4>1, <4>2
      <4>4. QED
        BY <1>0, <4>3
    <3>3. CASE LookupChain(i)
      <4>1. account # Missing => FallbackResponse(account) \in Answer
        BY AnswersAreTyped, AccountIsTyped
      <4>2. PICK v \in Answer :
              flight' = [flight EXCEPT ![i] = [@ EXCEPT !.at = "set", !.val = v]]
        BY <3>3, <4>1, AnswersAreTyped DEF LookupChain
      <4>3. flight'[i] \in Flight
        BY <3>1, <4>2 DEF TypeOK
      <4>4. QED
        BY <1>0, <4>3
    <3>4. QED
      BY <1>5, <3>2, <3>3
  <2>3. \A j \in Instances : j # i => flight'[j] = flight[j]
    BY <1>5 DEF ReadMirror, LookupChain, TypeOK
  <2>4. QED
    BY <1>1, <2>1, <2>2, <2>3
<1>6. ASSUME NEW i \in Instances, SetCache(i) \/ QueryFails(i) \/ ProcessDies(i)
      PROVE  WaitersHaveFlights'
  BY <1>2, <1>6 DEF SetCache, QueryFails, ProcessDies
<1>7. ASSUME Overtake, UNCHANGED req
      PROVE  WaitersHaveFlights'
  <2>1. \A i \in Instances : flight[i] # None =>
          [flight[i] EXCEPT !.overtaken = TRUE] \in Flight
    BY DEF TypeOK, Flight
  <2>2. QED
    BY <1>0, <1>1, <1>7, <2>1 DEF Overtake
<1>8. CASE \/ \E f \in Flows : IndexerWrites(f)
           \/ \E p \in Patches : PatchWrites(p)
           \/ ModeratorBlocks
  BY <1>7, <1>8 DEF IndexerWrites, PatchWrites, ModeratorBlocks, WriteRow
<1>9. CASE \/ \E f \in Flows : IndexerDeletes(f)
           \/ \E p \in Patches : PatchChecks(p) \/ PatchDeletes(p)
           \/ Expire \/ ChainMoves \/ UNCHANGED vars
  <2>1. UNCHANGED <<flight, req>>
    BY <1>9 DEF IndexerDeletes, PatchChecks, PatchDeletes, Expire, ChainMoves, vars
  <2>2. QED
    BY <1>1, <2>1
<1>10. QED
  BY <1>3, <1>4, <1>5, <1>6, <1>8, <1>9 DEF Next

-----------------------------------------------------------------------------
(* The theorems.                                                           *)

LEMMA InitImpliesIInv == Init => IInv
<1> SUFFICES ASSUME Init PROVE IInv
  OBVIOUS
<1>1. /\ req \in [Requests -> {"idle", "missed"} \cup Instances]
      /\ flow \in [Flows -> {"idle", "del"}]
      /\ patch \in [Patches -> {"idle", "del", "done"} \cup Keys]
  BY DEF Init
<1>2. /\ flight \in [Instances -> Flight \cup {None}]
      /\ ans \in [Requests -> Answer \cup {Error, None}]
  BY DEF Init
<1>3. faults \in 0 .. MaxFaults /\ changes \in 0 .. MaxChanges
  BY CacheConstants DEF Init
<1>4. visible \subseteq Answer /\ cache \in Answer \cup {Empty} /\ tainted \in BOOLEAN
  BY AnswersAreTyped DEF Init
<1>5. TypeOK
  <2>1. history \in Seq(Account \cup {Missing}) /\ history # <<>>
    BY DEF Init
  <2>2. QED
    BY <1>1, <1>2, <1>3, <1>4, <2>1 DEF Init, TypeOK
<1>6. RowIsSnapshot /\ CacheAgrees /\ FlightsAgree /\ WaitersHaveFlights
  BY Sentinels DEF Init, RowIsSnapshot, CacheAgrees, FlightsAgree, WaitersHaveFlights
<1>7. QED
  BY <1>5, <1>6 DEF IInv

LEMMA IInvIsInductive == IInv /\ [Next]_vars => IInv'
  BY TypeStep, SnapshotStep, FlightsStep, CacheStep, WaitersStep DEF IInv

\* The inductive invariant of the cache holds in every reachable state.
THEOREM Invariance == Spec => []IInv
  BY InitImpliesIInv, IInvIsInductive, PTL DEF Spec

\* Every variable keeps its type.
THEOREM TypeCorrect == Spec => []TypeOK
<1>1. IInv => TypeOK
  BY DEF IInv
<1>2. QED
  BY <1>1, Invariance, PTL

\* The entry of a mirrored tag is the answer its row gives, but for a DEL on
\* its way, a DEL that failed or was not due, and a fill a write overtook.
THEOREM CacheIsCoherent == Spec => []CacheAgrees
<1>1. IInv => CacheAgrees
  BY DEF IInv
<1>2. QED
  BY <1>1, Invariance, PTL

\* Nobody is left waiting for a flight that is gone: whoever joined it gets
\* its answer or its error (tags.service.ts resolve).
THEOREM NobodyWaitsInVain == Spec => []WaitersHaveFlights
<1>1. IInv => WaitersHaveFlights
  BY DEF IInv
<1>2. QED
  BY <1>1, Invariance, PTL

-----------------------------------------------------------------------------
(* Answers.  What anybody can be told next was right at some moment, or is  *)
(* the wallet a lookup found that a row has overtaken: this goes for every   *)
(* fill that is about to store its answer, and for the entry.  A wallet that *)
(* anybody is told is a finalized one.                                       *)

told == visible \cup raced

SourcesVisible ==
  /\ Negative \in visible
  /\ row # Missing => AnswerFor(row) \in visible
  /\ account # Missing /\ row = Missing => FallbackResponse(account) \in visible

HoldersVisible ==
  /\ \A i \in Instances : flight[i] # None /\ flight[i].at = "set" => flight[i].val \in told
  /\ cache \in told \cup {Empty}
  /\ \A r \in Requests : ans[r] \in told \cup {None, Error}

VisibleIsFinal == \A v \in told : v \in Response => WasFinalized(v.wallet)

VInv == SourcesVisible /\ HoldersVisible /\ VisibleIsFinal

\* The right answers for a row that is a snapshot, and for the account, are
\* finalized.
LEMMA RightIsFinal ==
  ASSUME NEW r \in Row \cup {Missing}, NEW a \in Account \cup {Missing},
         r # Missing => WasFinalized(r.wallet), a # Missing => WasFinalized(a.wallet)
  PROVE  \A v \in RightAnswers(r, a) : v \in Response => WasFinalized(v.wallet)
<1>1. \A v \in RightAnswers(r, a) : v \in Response =>
        \/ r # Missing /\ v.wallet = r.wallet
        \/ a # Missing /\ v.wallet = a.wallet
  BY Sentinels DEF RightAnswers, AnswerFor, ResponseOf, FallbackResponse
<1>2. QED
  BY <1>1

\* The finalized account, and the row, give finalized wallets.
LEMMA SourcesAreFinal ==
  ASSUME IInv
  PROVE  /\ row # Missing => WasFinalized(row.wallet)
         /\ account # Missing => WasFinalized(account.wallet)
<1>1. row # Missing => WasFinalized(row.wallet)
  <2>1. SUFFICES ASSUME row # Missing PROVE WasFinalized(row.wallet)
    OBVIOUS
  <2>2. /\ row.slot \in 1 .. Len(history)
        /\ history[row.slot] = [owner |-> row.owner, wallet |-> row.wallet]
    BY <2>1 DEF IInv, RowIsSnapshot
  <2>3. [owner |-> row.owner, wallet |-> row.wallet] \in Account
    BY <2>1 DEF IInv, TypeOK, Row, Account
  <2>4. QED
    BY <2>2, <2>3, Sentinels DEF WasFinalized
<1>2. QED
  BY <1>1, AccountIsTyped DEF IInv, WasFinalized, account

\* A fill that looks at the chain finds what is visible, or has been overtaken.
LEMMA LookupIsVisible ==
  ASSUME IInv, VInv, NEW i \in Instances, LookupChain(i)
  PROVE  \E v \in told' : flight' = [flight EXCEPT ![i] = [@ EXCEPT !.at = "set", !.val = v]]
<1>1. /\ flight[i] # None /\ flight[i].at = "lookup" /\ flight[i] \in Flight
      /\ UNCHANGED visible
  BY DEF LookupChain, IInv, TypeOK
<1>2. Negative \in told'
  BY <1>1 DEF VInv, SourcesVisible, told
<1>3. ASSUME account # Missing, flight[i].overtaken,
             raced' = raced \cup ({FallbackResponse(account)} \ visible)
      PROVE  FallbackResponse(account) \in told'
  BY <1>1, <1>3 DEF told
<1>4. ASSUME account # Missing, ~flight[i].overtaken
      PROVE  FallbackResponse(account) \in told'
  <2>1. row = Missing
    BY <1>1, <1>4 DEF IInv, FlightsAgree
  <2>2. QED
    BY <1>1, <1>4, <2>1 DEF VInv, SourcesVisible, told
<1>5. QED
  BY <1>1, <1>2, <1>3, <1>4 DEF LookupChain, Flight

\* A write of the row makes its answer visible, and takes nothing away.
LEMMA WriteKeepsVisible ==
  ASSUME IInv, VInv, NEW r \in Row, WriteRow(r), UNCHANGED <<history, cache>>, IInv'
  PROVE  VInv'
<1> USE DEF VInv
<1>1. /\ row' = r /\ row' # Missing /\ visible \subseteq visible'
      /\ AnswerFor(r) \in visible' /\ UNCHANGED ans
  BY Sentinels DEF WriteRow, RightAnswers
<1>2. AnswerFor(row)' = AnswerFor(row')
  BY DEF AnswerFor, ResponseOf
<1>3. \A i \in Instances : flight'[i] # None =>
        flight[i] # None /\ flight'[i].at = flight[i].at /\ flight'[i].val = flight[i].val
  BY DEF WriteRow, Overtake, IInv, TypeOK, Flight
<1>4. told \subseteq told' /\ told' = told \cup RightAnswers(r, account)
  BY DEF WriteRow, told
<1>5. SourcesVisible'
  BY <1>1, <1>2 DEF SourcesVisible, VInv
<1>6. HoldersVisible'
  BY <1>1, <1>3, <1>4 DEF HoldersVisible
<1>7. VisibleIsFinal'
  <2>1. WasFinalized(r.wallet) /\ (account # Missing => WasFinalized(account.wallet))
    <3>1. r.slot \in 1 .. Len(history) /\ history[r.slot] = [owner |-> r.owner, wallet |-> r.wallet]
      BY <1>1 DEF IInv, RowIsSnapshot
    <3>2. [owner |-> r.owner, wallet |-> r.wallet] \in Account
      BY DEF Row, Account
    <3>3. QED
      BY <3>1, <3>2, SourcesAreFinal, Sentinels DEF WasFinalized
  <2>2. \A v \in told' : v \in Response => WasFinalized(v.wallet)
    BY <1>4, <2>1, RightIsFinal, AccountIsTyped DEF VisibleIsFinal, IInv
  <2>3. QED
    BY <2>2 DEF VisibleIsFinal, WasFinalized
<1>8. QED
  BY <1>5, <1>6, <1>7

\* What can be told grows only by what a lookup that was overtaken has found:
\* the case of every step that writes neither row nor account.
LEMMA ReadsKeepVisible ==
  ASSUME IInv, VInv, UNCHANGED <<history, row, visible>>,
         raced' \in {raced, raced \cup ({FallbackResponse(account)} \ visible)},
         account = Missing => UNCHANGED raced,
         cache' \in told' \cup {Empty},
         \A r \in Requests : ans'[r] \in told' \cup {None, Error},
         \A i \in Instances : flight'[i] # None /\ flight'[i].at = "set" => flight'[i].val \in told'
  PROVE  VInv'
<1> USE DEF VInv
<1>1. SourcesVisible'
  BY DEF SourcesVisible, AnswerFor, ResponseOf, FallbackResponse, account
<1>2. HoldersVisible'
  BY DEF HoldersVisible, told
<1>3. \A v \in told' : v \in Response => WasFinalized(v.wallet)
  <2>1. account # Missing => WasFinalized(account.wallet) /\ FallbackResponse(account).wallet = account.wallet
    BY SourcesAreFinal DEF FallbackResponse
  <2>2. QED
    BY <2>1 DEF VisibleIsFinal, told
<1>4. VisibleIsFinal'
  BY <1>3 DEF VisibleIsFinal, WasFinalized
<1>5. QED
  BY <1>1, <1>2, <1>4

LEMMA ChainKeepsVisible ==
  ASSUME IInv, VInv, ChainMoves
  PROVE  VInv'
<1> USE DEF VInv
<1>1. PICK a \in Account : /\ history' = Append(history, a) /\ account' = a
                           /\ visible' = visible \cup RightAnswers(row, a)
  BY HistoryGrows DEF ChainMoves, IInv
<1>2. /\ UNCHANGED <<row, cache, flight, ans, raced>> /\ visible \subseteq visible'
      /\ told \subseteq told' /\ told' = told \cup RightAnswers(row, a)
  BY <1>1 DEF ChainMoves, apiVars, told
<1>3. row = Missing => FallbackResponse(a) \in visible'
  BY <1>1, Sentinels DEF RightAnswers
<1>4. SourcesVisible'
  BY <1>1, <1>2, <1>3 DEF SourcesVisible, AnswerFor, ResponseOf, FallbackResponse
<1>5. HoldersVisible'
  BY <1>2 DEF HoldersVisible
<1>6. VisibleIsFinal'
  <2> DEFINE Later(w) == \E s \in 1 .. Len(history') : history'[s] # Missing /\ history'[s].wallet = w
  <2>1. \A w : WasFinalized(w) => Later(w)
    BY <1>1, HistoryGrows, AccountIsTyped DEF WasFinalized, IInv
  <2>2. Later(a.wallet)
    <3>1. Len(history') \in 1 .. Len(history') /\ history'[Len(history')] = a
      BY <1>1, HistoryGrows, AccountIsTyped DEF IInv, account
    <3>2. QED
      BY <3>1, Sentinels
  <2>3. row # Missing => Later(row.wallet)
    BY <2>1, SourcesAreFinal
  <2>4. \A v \in RightAnswers(row, a) : v \in Response =>
          \/ row # Missing /\ v.wallet = row.wallet
          \/ v.wallet = a.wallet
    BY Sentinels DEF RightAnswers, AnswerFor, ResponseOf, FallbackResponse
  <2>5. \A v \in told : v \in Response => Later(v.wallet)
    BY <2>1 DEF VisibleIsFinal
  <2> HIDE DEF Later
  <2>6. \A v \in told' : v \in Response => Later(v.wallet)
    BY <1>2, <2>2, <2>3, <2>4, <2>5
  <2>7. QED
    BY <2>6 DEF Later, VisibleIsFinal, WasFinalized
<1>7. QED
  BY <1>4, <1>5, <1>6

LEMMA VisibleStep ==
  ASSUME IInv, VInv, [Next]_vars
  PROVE  VInv'
<1> USE DEF apiVars, ghostVars
<1>0. IInv'
  BY IInvIsInductive
<1>1. /\ cache \in told \cup {Empty} /\ Negative \in told
      /\ \A r \in Requests : ans[r] \in told \cup {None, Error}
      /\ \A i \in Instances : flight[i] # None /\ flight[i].at = "set" => flight[i].val \in told
  BY DEF VInv, SourcesVisible, HoldersVisible, told
<1>2. ASSUME NEW r \in Requests, GetCache(r) PROVE VInv'
  <2>1. /\ UNCHANGED <<history, row, visible, raced, cache, flight>>
        /\ \A q \in Requests : ans'[q] \in told \cup {None, Error}
    BY <1>1, <1>2 DEF GetCache, IInv, TypeOK
  <2>2. QED
    BY <1>1, <2>1, ReadsKeepVisible DEF told
<1>3. ASSUME NEW r \in Requests, NEW i \in Instances, JoinOrStart(r, i) PROVE VInv'
  <2>1. /\ UNCHANGED <<history, row, visible, raced, cache, ans>>
        /\ \A j \in Instances : flight'[j] # None /\ flight'[j].at = "set" => flight'[j] = flight[j]
    BY <1>3 DEF JoinOrStart, IInv, TypeOK
  <2>2. QED
    BY <1>1, <2>1, ReadsKeepVisible DEF told
<1>4. ASSUME NEW i \in Instances, ReadMirror(i) PROVE VInv'
  <2>1. /\ flight[i] \in Flight /\ UNCHANGED <<history, row, visible, raced, cache, ans>>
        /\ \A j \in Instances : j # i => flight'[j] = flight[j]
    BY <1>4 DEF ReadMirror, IInv, TypeOK
  <2>2. CASE row = Missing
    <3>1. flight'[i] = [flight[i] EXCEPT !.at = "lookup"]
      BY <1>4, <2>2 DEF ReadMirror, IInv, TypeOK
    <3>2. flight'[i].at = "lookup"
      BY <2>1, <3>1 DEF Flight
    <3>3. QED
      BY <1>1, <2>1, <3>2, ReadsKeepVisible DEF told
  <2>3. CASE row # Missing
    <3>1. flight'[i] = [flight[i] EXCEPT !.at = "set", !.val = AnswerFor(row)]
      BY <1>4, <2>3 DEF ReadMirror, IInv, TypeOK
    <3>2. flight'[i].at = "set" /\ flight'[i].val \in visible
      BY <2>1, <2>3, <3>1 DEF Flight, VInv, SourcesVisible
    <3>3. QED
      BY <1>1, <2>1, <3>2, ReadsKeepVisible DEF told
  <2>4. QED
    BY <2>2, <2>3
<1>5. ASSUME NEW i \in Instances, LookupChain(i) PROVE VInv'
  <2>1. /\ flight[i] \in Flight
        /\ UNCHANGED <<history, row, visible, cache, ans>>
        /\ raced' \in {raced, raced \cup ({FallbackResponse(account)} \ visible)}
        /\ account = Missing => UNCHANGED raced
    BY <1>5 DEF LookupChain, IInv, TypeOK
  <2>2. PICK v \in told' : flight' = [flight EXCEPT ![i] = [@ EXCEPT !.at = "set", !.val = v]]
    BY <1>5, LookupIsVisible
  <2>3. /\ flight'[i].val \in told'
        /\ \A j \in Instances : j # i => flight'[j] = flight[j]
    BY <2>1, <2>2 DEF Flight, IInv, TypeOK
  <2>4. told \subseteq told'
    BY <2>1 DEF told
  <2>5. QED
    BY <1>1, <2>1, <2>3, <2>4, ReadsKeepVisible
<1>6. ASSUME NEW i \in Instances, SetCache(i) \/ QueryFails(i) \/ ProcessDies(i) PROVE VInv'
  <2>1. /\ \A j \in Instances : flight'[j] \in {flight[j], None}
        /\ UNCHANGED <<history, row, visible, raced>>
    BY <1>6 DEF SetCache, QueryFails, ProcessDies, Settle, IInv, TypeOK
  <2>2. /\ cache' \in told \cup {Empty}
        /\ \A r \in Requests : ans'[r] \in told \cup {None, Error}
    BY <1>1, <1>6 DEF SetCache, QueryFails, ProcessDies, Settle
  <2>3. QED
    BY <1>1, <2>1, <2>2, ReadsKeepVisible DEF told
<1>7. CASE ChainMoves
  BY <1>7, ChainKeepsVisible
<1>8. ASSUME NEW f \in Flows, IndexerWrites(f) PROVE VInv'
  <2>1. PICK r \in Row : WriteRow(r)
    BY <1>8, IndexerWritesRow DEF IInv
  <2>2. QED
    BY <1>8, <1>0, <2>1, WriteKeepsVisible DEF IndexerWrites
<1>9. ASSUME NEW p \in Patches, PatchWrites(p) PROVE VInv'
  <2>1. PICK n \in Names : WriteRow([row EXCEPT !.name = n])
    BY <1>9 DEF PatchWrites
  <2>2. [row EXCEPT !.name = n] \in Row
    BY <1>9 DEF PatchWrites, IInv, TypeOK, Row
  <2>3. QED
    BY <1>9, <1>0, <2>1, <2>2, WriteKeepsVisible DEF PatchWrites
<1>10. CASE ModeratorBlocks
  <2>1. [row EXCEPT !.status = "blocked"] \in Row
    BY <1>10 DEF ModeratorBlocks, IInv, TypeOK, Row
  <2>2. QED
    BY <1>10, <1>0, <2>1, WriteKeepsVisible DEF ModeratorBlocks
<1>11. ASSUME \/ UNCHANGED vars \/ Expire
              \/ \E f \in Flows : IndexerDeletes(f)
              \/ \E p \in Patches : PatchChecks(p) \/ PatchDeletes(p)
       PROVE  VInv'
  <2>1. UNCHANGED <<history, row, visible, raced, flight, ans>> /\ cache' \in {cache, Empty}
    BY <1>11 DEF vars, Expire, IndexerDeletes, PatchChecks, PatchDeletes, DeleteKey
  <2>2. QED
    BY <1>1, <2>1, ReadsKeepVisible DEF told
<1>12. QED
  BY <1>2, <1>3, <1>4, <1>5, <1>6, <1>7, <1>8, <1>9, <1>10, <1>11 DEF Next

\* No answer was wrong at every moment, but for the wallet that a lookup finds
\* when a row, blocked or not, has overtaken it: nobody gets a mixture of two rows,
\* and no wallet is one that the tag never had (tags.service.ts resolve,
\* resolveUncached), for any number of processes, requests and failures.
THEOREM AnswersAreHonest == Spec => []AnswersWereVisible
<1>1. Init => VInv
  BY Sentinels DEF Init, VInv, SourcesVisible, HoldersVisible, VisibleIsFinal, account, told
<1>2. IInv /\ VInv /\ [Next]_vars => VInv'
  BY VisibleStep
<1>3. VInv => AnswersWereVisible
  BY Sentinels DEF VInv, HoldersVisible, VisibleIsFinal, AnswersWereVisible, told
<1>4. QED
  BY <1>1, <1>2, <1>3, Invariance, PTL DEF Spec

-----------------------------------------------------------------------------
(* Both services keep the mirror.                                          *)

\* The mirror of one tag, as Mirror sees it.
LedgerOf(a) == [t \in {Tag} |-> a]
HistoryOf(h) == [s \in 1 .. Len(h) |-> LedgerOf(h[s])]
RowOf(r) == IF r = Missing THEN Missing
            ELSE [owner |-> r.owner, wallet |-> r.wallet, slot |-> r.slot, status |-> r.status]
RowsOf(r) == [t \in {Tag} |-> RowOf(r)]

\* A sequence is the function of its elements.
LEMMA SequenceIsFunction ==
  ASSUME NEW S, NEW q \in Seq(S)
  PROVE  q = [s \in 1 .. Len(q) |-> q[s]]
<1>1. q \in [1 .. Len(q) -> S]
  BY LenProperties
<1>2. QED
  BY <1>1

\* The history of one more account has one more ledger.
LEMMA AppendedHistory ==
  ASSUME NEW h \in Seq(Account \cup {Missing}), NEW a \in Account
  PROVE  HistoryOf(Append(h, a)) = Append(HistoryOf(h), LedgerOf(a))
<1>1. Len(h) \in Nat /\ Len(Append(h, a)) = Len(h) + 1
  BY DEF HistoryOf
<1>2. HistoryOf(h) \in Seq({LedgerOf(h[s]) : s \in 1 .. Len(h)}) /\ Len(HistoryOf(h)) = Len(h)
  BY <1>1 DEF HistoryOf
<1>3. \A s \in 1 .. Len(h) + 1 : Append(h, a)[s] = IF s = Len(h) + 1 THEN a ELSE h[s]
  BY <1>1
<1>4. \A s \in 1 .. Len(h) + 1 :
        Append(HistoryOf(h), LedgerOf(a))[s]
          = IF s = Len(h) + 1 THEN LedgerOf(a) ELSE HistoryOf(h)[s]
  BY <1>1, <1>2
<1>5. \A s \in 1 .. Len(h) : HistoryOf(h)[s] = LedgerOf(h[s])
  BY DEF HistoryOf
<1>6. HistoryOf(Append(h, a)) = [s \in 1 .. Len(h) + 1 |-> LedgerOf(Append(h, a)[s])]
  BY <1>1 DEF HistoryOf
<1>7. Append(HistoryOf(h), LedgerOf(a))
        = [s \in 1 .. Len(h) + 1 |-> Append(HistoryOf(h), LedgerOf(a))[s]]
  <2> DEFINE ledgers == {LedgerOf(h[s]) : s \in 1 .. Len(h)} \cup {LedgerOf(a)}
  <2> HIDE DEF ledgers
  <2>1. HistoryOf(h) \in Seq(ledgers) /\ LedgerOf(a) \in ledgers
    <3>1. \A s \in 1 .. Len(h) : LedgerOf(h[s]) \in ledgers
      BY DEF ledgers
    <3>2. QED
      BY <1>1, <3>1 DEF HistoryOf, ledgers
  <2>2. Append(HistoryOf(h), LedgerOf(a)) \in Seq(ledgers)
        /\ Len(Append(HistoryOf(h), LedgerOf(a))) = Len(h) + 1
    BY <1>2, <2>1
  <2>3. QED
    BY <2>2, SequenceIsFunction
<1>8. \A s \in 1 .. Len(h) + 1 : LedgerOf(Append(h, a)[s]) = Append(HistoryOf(h), LedgerOf(a))[s]
  <2>1. SUFFICES ASSUME NEW s \in 1 .. Len(h) + 1
                 PROVE  LedgerOf(Append(h, a)[s]) = Append(HistoryOf(h), LedgerOf(a))[s]
    OBVIOUS
  <2>2. CASE s = Len(h) + 1
    BY <1>3, <1>4, <2>2
  <2>3. CASE s # Len(h) + 1
    <3>1. s \in 1 .. Len(h)
      BY <1>1, <2>3
    <3>2. QED
      BY <1>3, <1>4, <1>5, <2>3, <3>1
  <2>4. QED
    BY <2>2, <2>3
<1>9. QED
  BY <1>6, <1>7, <1>8

\* A new account is one more ledger.
LEMMA ChainIsGrow ==
  ASSUME IInv, NEW a \in Account, history' = Append(history, a), UNCHANGED row
  PROVE  M!Grow
<1>1. history \in Seq(Account \cup {Missing})
  BY DEF IInv, TypeOK
<1>2. HistoryOf(history') = Append(HistoryOf(history), LedgerOf(a))
  BY <1>1, AppendedHistory
<1>3. LedgerOf(a) \in M!Ledger /\ LedgerOf(a)[Tag] # Missing
  BY Sentinels DEF LedgerOf, M!Ledger, M!Account, Account
<1>4. RowsOf(row)' = RowsOf(row)
  BY DEF RowsOf, RowOf
<1>5. QED
  BY <1>2, <1>3, <1>4 DEF M!Grow, HistoryOf, LedgerOf, RowsOf, RowOf

\* A row written from a slot that is not older is one step of its tag.
LEMMA WriteIsMoveForward ==
  ASSUME IInv, NEW s \in 1 .. Len(history), NEW r \in Row,
         row' = r, UNCHANGED history, r.slot = s,
         history[s] = [owner |-> r.owner, wallet |-> r.wallet],
         row # Missing => row.slot <= s,
         row # Missing /\ row.status = "blocked" => r.status = "blocked"
  PROVE  M!MoveForward(Tag)
<1>1. /\ r.status \in M!Status /\ r # Missing
      /\ history[s] # Missing
      /\ history[s].owner = r.owner /\ history[s].wallet = r.wallet
  BY Sentinels DEF Row, Account, M!Status
<1>2. row # Missing => row \in Row /\ RowOf(row) # Missing
        /\ RowOf(row).slot = row.slot /\ RowOf(row).status = row.status
  BY Sentinels DEF IInv, TypeOK, Row, RowOf
<1>3. HistoryOf(history)[s][Tag] = history[s] /\ s \in 1 .. Len(HistoryOf(history))
  <2>1. Len(history) \in Nat
    BY AccountIsTyped DEF IInv
  <2>2. QED
    BY <2>1 DEF HistoryOf, LedgerOf
<1>4. RowsOf(row') = [RowsOf(row) EXCEPT ![Tag] =
        [owner |-> history[s].owner, wallet |-> history[s].wallet,
         slot |-> s, status |-> r.status]]
  BY <1>1 DEF RowsOf, RowOf
<1>5. RowsOf(row)[Tag] = RowOf(row)
  BY DEF RowsOf
<1>6. RowOf(row) # Missing => row # Missing
  BY DEF RowOf
<1>7. M!MayBecome(Tag, r.status)
  BY <1>1, <1>2, <1>5, <1>6 DEF M!MayBecome, RowsOf, RowOf
<1>8. M!SnapshotRow(Tag, s, r.status) =
        [owner |-> history[s].owner, wallet |-> history[s].wallet,
         slot |-> s, status |-> r.status]
  BY <1>3 DEF M!SnapshotRow, HistoryOf, LedgerOf
<1>9. HistoryOf(history)' = HistoryOf(history)
  BY DEF HistoryOf, LedgerOf
<1> DEFINE H == HistoryOf(history)
           R == RowsOf(row)
<1>10. /\ H[s][Tag] # Missing
       /\ R[Tag] # Missing => R[Tag].slot <= s
  BY <1>1, <1>2, <1>3, <1>5, <1>6
<1>11. R' = [R EXCEPT ![Tag] = M!SnapshotRow(Tag, s, r.status)] /\ H' = H
  BY <1>4, <1>8, <1>9 DEF RowsOf, RowOf
<1>12. QED
  BY <1>1, <1>3, <1>7, <1>10, <1>11 DEF M!MoveForward, HistoryOf, LedgerOf, RowsOf, RowOf

\* Every step of both services is a step of the mirror, or none.
LEMMA StepKeepsMirror ==
  ASSUME IInv, [Next]_vars
  PROVE  [M!Next]_<<HistoryOf(history), RowsOf(row)>>
<1> USE DEF apiVars, ghostVars
<1>1. CASE UNCHANGED <<history, row>>
  BY <1>1 DEF HistoryOf, LedgerOf, RowsOf, RowOf
<1>2. CASE ChainMoves
  <2>1. PICK a \in Account : history' = Append(history, a) /\ UNCHANGED row
    BY <1>2 DEF ChainMoves
  <2>2. QED
    BY <2>1, ChainIsGrow DEF M!Next
<1>3. ASSUME NEW f \in Flows, IndexerWrites(f)
      PROVE  M!Next
  <2>1. PICK s \in 1 .. Len(history), r \in Row :
          /\ WriteRow(r)
          /\ history[s] = [owner |-> r.owner, wallet |-> r.wallet]
          /\ r.slot = s
          /\ row # Missing => row.slot <= s
          /\ row # Missing /\ row.status = "blocked" => r.status = "blocked"
    BY <1>3, IndexerWritesRow DEF IInv
  <2>2. row' = r /\ UNCHANGED history
    BY <1>3, <2>1 DEF IndexerWrites, WriteRow
  <2>3. M!MoveForward(Tag)
    BY <2>1, <2>2, WriteIsMoveForward
  <2>4. QED
    BY <2>3 DEF M!Next
<1>4. ASSUME NEW p \in Patches, PatchWrites(p)
      PROVE  UNCHANGED <<HistoryOf(history), RowsOf(row)>>
  <2>1. PICK n \in Names : row' = [row EXCEPT !.name = n]
    BY <1>4 DEF PatchWrites, WriteRow
  <2>2. row # Missing /\ row \in Row /\ UNCHANGED history
    BY <1>4 DEF PatchWrites, IInv, TypeOK
  <2>3. row' \in Row /\ row'.owner = row.owner /\ row'.wallet = row.wallet
        /\ row'.slot = row.slot /\ row'.status = row.status
    BY <2>1, <2>2 DEF Row
  <2>4. RowOf(row') = RowOf(row)
    BY <2>2, <2>3, Sentinels DEF RowOf
  <2>5. QED
    BY <2>2, <2>4 DEF HistoryOf, LedgerOf, RowsOf
<1>5. CASE ModeratorBlocks
  <2>1. row' = [row EXCEPT !.status = "blocked"]
    BY <1>5 DEF ModeratorBlocks, WriteRow
  <2>2. row # Missing /\ row \in Row /\ UNCHANGED history
    BY <1>5 DEF ModeratorBlocks, IInv, TypeOK
  <2>3. row' \in Row /\ row'.owner = row.owner /\ row'.wallet = row.wallet
        /\ row'.slot = row.slot /\ row'.status = "blocked"
    BY <2>1, <2>2 DEF Row
  <2>4. RowOf(row') = [RowOf(row) EXCEPT !.status = "blocked"] /\ RowOf(row) # Missing
    BY <2>2, <2>3, Sentinels DEF RowOf, Row
  <2>5. RowsOf(row') = [RowsOf(row) EXCEPT ![Tag].status = "blocked"]
    BY <2>4 DEF RowsOf
  <2>6. M!Block(Tag)
    BY <2>2, <2>4, <2>5 DEF M!Block, HistoryOf, LedgerOf, RowsOf, RowOf
  <2>7. QED
    BY <2>6 DEF M!Next
<1>6. ASSUME \/ UNCHANGED vars \/ Expire
             \/ \E r \in Requests : GetCache(r) \/ \E i \in Instances : JoinOrStart(r, i)
             \/ \E i \in Instances : \/ ReadMirror(i) \/ LookupChain(i) \/ SetCache(i)
                                     \/ QueryFails(i) \/ ProcessDies(i)
             \/ \E f \in Flows : IndexerDeletes(f)
             \/ \E p \in Patches : PatchChecks(p) \/ PatchDeletes(p)
      PROVE  UNCHANGED <<history, row>>
  BY <1>6 DEF vars, Expire, GetCache, JoinOrStart, ReadMirror, LookupChain, SetCache,
              QueryFails, ProcessDies, IndexerDeletes, PatchChecks, PatchDeletes
<1>7. QED
  BY <1>1, <1>2, <1>3, <1>4, <1>5, <1>6 DEF Next

\* The row is kept by two services and by hand: whatever they do, it is an
\* implementation of the mirror the indexer implements on its own, so neither
\* can break what the other relies on (apply-change.ts, updateIdentity).
THEOREM WritersKeepMirror == Spec => MirrorKept
<1>1. Init => M!Init
  <2>1. SUFFICES ASSUME Init PROVE M!Init
    OBVIOUS
  <2>2. HistoryOf(history) = <<LedgerOf(Missing)>>
    BY <2>1 DEF Init, HistoryOf
  <2>3. RowsOf(row) = LedgerOf(Missing)
    BY <2>1 DEF Init, RowsOf, RowOf, LedgerOf
  <2>4. QED
    BY <2>2, <2>3 DEF M!Init, M!NoAccounts, HistoryOf, LedgerOf, RowsOf, RowOf
<1>2. IInv /\ [Next]_vars => [M!Next]_<<HistoryOf(history), RowsOf(row)>>
  BY StepKeepsMirror
<1>3. QED
  BY <1>1, <1>2, Invariance, PTL DEF Spec, MirrorKept, M!Spec, HistoryOf, LedgerOf, RowsOf, RowOf
=============================================================================
