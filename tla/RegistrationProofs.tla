------------------------ MODULE RegistrationProofs ------------------------
(***************************************************************************)
(* The safety properties of Registration, proved for every set of tags,    *)
(* keys, wishes and requests, every rent, fee and balance, and every       *)
(* number of slots.                                                        *)
(***************************************************************************)
EXTENDS Registration, FiniteSetTheorems, TLAPS

-----------------------------------------------------------------------------
(* The inductive invariant.                                                *)

\* A row names the owner a finalized slot ended with.
RowsAreSnapshots ==
  \A t \in Tags : rows[t] # Missing =>
    /\ rows[t].slot \in 1 .. FinalSlot
    /\ history[rows[t].slot][t] # Missing
    /\ rows[t].owner = history[rows[t].slot][t].owner

\* The message is what the wish asks for.
Fulfils(tx, w) ==
  /\ tx.kind = w.kind /\ tx.tag = w.tag /\ tx.owner = w.owner
  /\ w.kind = "register" => tx.wallet = OrOwner(w.wallet, w) /\ tx.payer = OrOwner(w.payer, w)
  /\ w.kind = "wallet" => tx.wallet = w.wallet

\* What a call may rely on at each await.
Relies(call) ==
  /\ call.pc = "gated" => call.wish.kind = "register" /\ BadKey \notin {call.wish.wallet, call.wish.payer}
  /\ call.pc \in {"guarded", "reread"} => call.wish.kind = "wallet"
  /\ call.pc = "reread" => call.wish.wallet \in Keys
  /\ call.pc = "built" => call.wish.kind = "register" /\ Fulfils(call.tx, call.wish)

\* A message that can land was asked for and handed out.
AskedFor(tx) ==
  \E r \in Requests : /\ At(r, "done") /\ calls[r].code = 200
                      /\ Fulfils(tx, calls[r].wish)

\* The refusal a call has ended with was true.
RefusalTrue(call) ==
  call.pc = "done" =>
    /\ call.code = 409 => \E s \in 1 .. FinalSlot : history[s][call.wish.tag] # Missing
    /\ call.code = 403 /\ call.wish.kind = "wallet" =>
         \E s \in 1 .. FinalSlot : history[s][call.wish.tag] # Missing
                                   /\ history[s][call.wish.tag].owner # call.wish.owner

IInv ==
  /\ TypeOK
  /\ RowsAreSnapshots
  /\ \A r \in Requests : Relies(calls[r]) /\ RefusalTrue(calls[r])
  /\ \A tx \in txs : AskedFor(tx)

-----------------------------------------------------------------------------
(* Fees and wishes.                                                        *)

LEMMA FeesOfOneOrTwo ==
  ASSUME NEW tx \in Message
  PROVE  /\ Fees(tx) = IF tx.payer = tx.owner THEN Fee ELSE Fee + Fee
         /\ Fees(tx) \in Nat /\ Cost(tx) \in Nat /\ Fees(tx) <= Cost(tx)
<1>1. CASE tx.payer = tx.owner
  <2>1. Signers(tx) = {tx.owner}
    BY <1>1 DEF Signers
  <2>2. Cardinality(Signers(tx)) = 1
    BY <2>1, FS_Singleton
  <2>3. Fees(tx) = Fee
    BY <2>2, NumbersAreNatural DEF Fees
  <2>4. QED
    BY <1>1, <2>3, NumbersAreNatural DEF Cost
<1>2. CASE tx.payer # tx.owner
  <2>1. IsFiniteSet({tx.owner}) /\ Cardinality({tx.owner}) = 1
    BY FS_Singleton
  <2>2. Signers(tx) = {tx.owner} \cup {tx.payer} /\ tx.payer \notin {tx.owner}
    BY <1>2 DEF Signers
  <2>3. Cardinality(Signers(tx)) = 2
    BY <2>1, <2>2, FS_AddElement
  <2>4. Fees(tx) = Fee + Fee
    BY <2>3, NumbersAreNatural DEF Fees
  <2>5. QED
    BY <1>2, <2>4, NumbersAreNatural DEF Cost
<1>3. QED
  BY <1>1, <1>2

LEMMA WishIsTyped ==
  ASSUME NEW w \in Wishes
  PROVE  /\ w.kind \in {"register", "wallet"} /\ w.tag \in Tags /\ w.owner \in Keys
         /\ w.wallet \in Keys \cup {BadKey, Missing}
         /\ w.kind = "register" => w.payer \in Keys \cup {BadKey, Missing}
  BY WishesAreWishes DEF Wish, RegisterWish, WalletWish

\* What the type of a call says at each await.
LEMMA CallIsTyped ==
  ASSUME TypeOK, NEW r \in Requests
  PROVE  /\ calls[r].pc # "idle" => calls[r].wish \in Wishes
         /\ calls[r].pc = "built" => calls[r].tx \in Message
  BY DEF TypeOK, Call

\* Both builders make a message that fulfils the wish.
LEMMA RegisterIsBuilt ==
  ASSUME TypeOK, NEW w \in Wishes, w.kind = "register", BadKey \notin {w.wallet, w.payer}
  PROVE  BuildRegister(w) \in Message /\ Fulfils(BuildRegister(w), w)
<1>1. OrOwner(w.wallet, w) \in Keys /\ OrOwner(w.payer, w) \in Keys
  BY WishIsTyped DEF OrOwner
<1>2. FinalSlot + Validity \in Nat
  BY NumbersAreNatural DEF TypeOK, ChainTypeOK, FinalSlot
<1>3. QED
  BY <1>1, <1>2, WishIsTyped DEF BuildRegister, Message, Fulfils

LEMMA WalletIsBuilt ==
  ASSUME TypeOK, NEW w \in Wishes, w.kind = "wallet", w.wallet \in Keys
  PROVE  BuildUpdateWallet(w) \in Message /\ Fulfils(BuildUpdateWallet(w), w)
<1>1. FinalSlot + Validity \in Nat
  BY NumbersAreNatural DEF TypeOK, ChainTypeOK, FinalSlot
<1>2. QED
  BY <1>1, WishIsTyped DEF BuildUpdateWallet, Message, Fulfils

-----------------------------------------------------------------------------
(* Steps of a call.                                                        *)

\* A call that goes on, or ends, leaves a call, and every other one as it was.
LEMMA CallGoesTo ==
  ASSUME TypeOK, NEW r \in Requests, NEW call \in Call, To(r, call)
  PROVE  /\ calls' \in [Requests -> Call]
         /\ calls'[r] = call
         /\ \A q \in Requests : q # r => calls'[q] = calls[q]
  BY DEF TypeOK, To

\* The part of the invariant that speaks of calls and messages survives a step
\* of a call that was not done, if the new call may rely on what it does.
CallStep(r, call) ==
  /\ calls[r].pc # "done" /\ call \in Call /\ To(r, call)
  /\ Relies(call) /\ RefusalTrue(call)
  /\ covered' \subseteq txs'
  /\ UNCHANGED <<chainVars, rows, walletVars>>

LEMMA CallStepKeepsIInv ==
  ASSUME IInv, NEW r \in Requests, NEW call, CallStep(r, call),
         \/ txs' = txs
         \/ /\ call.pc = "done" /\ call.code = 200
            /\ \E tx \in Message : Fulfils(tx, call.wish) /\ txs' = txs \cup {tx}
  PROVE  IInv'
<1> USE DEF IInv, CallStep
<1>1. /\ calls' \in [Requests -> Call] /\ calls'[r] = call
      /\ \A q \in Requests : q # r => calls'[q] = calls[q]
  BY CallGoesTo
<1>2. txs \subseteq txs' /\ txs' \subseteq Message
  BY DEF TypeOK
<1>3. TypeOK'
  BY <1>1, <1>2 DEF TypeOK, ChainTypeOK, FinalSlot, chainVars, walletVars
<1>4. RowsAreSnapshots'
  BY DEF RowsAreSnapshots, FinalSlot, chainVars
<1>5. ASSUME NEW q \in Requests PROVE (Relies(calls[q]) /\ RefusalTrue(calls[q]))'
  BY <1>1, <1>5 DEF Relies, RefusalTrue, FinalSlot, chainVars, Fulfils, OrOwner
<1>6. ASSUME NEW tx \in txs PROVE AskedFor(tx)'
  <2>1. PICK q \in Requests : /\ At(q, "done") /\ calls[q].code = 200
                              /\ Fulfils(tx, calls[q].wish)
    BY DEF AskedFor
  <2>2. calls'[q] = calls[q]
    BY <1>1, <2>1 DEF At
  <2>3. QED
    BY <2>1, <2>2 DEF AskedFor, At
<1>7. ASSUME NEW tx \in txs', tx \notin txs PROVE AskedFor(tx)'
  BY <1>1, <1>7 DEF AskedFor, At
<1>8. QED
  BY <1>3, <1>4, <1>5, <1>6, <1>7

LEMMA ApiKeepsIInv ==
  ASSUME IInv, NEW r \in Requests, Api(r)
  PROVE  IInv'
<1> USE DEF IInv
<1>1. calls[r].pc # "idle" => calls[r].wish \in Wishes /\ calls[r] \in Call
  BY CallIsTyped DEF TypeOK
\* A call that ends without a message, with a refusal that was true.
<1>2. ASSUME NEW w \in Wishes, NEW code \in {400, 402, 403, 404, 409, 500},
             calls[r].pc # "done", Answer(r, w, code), UNCHANGED handedOut,
             UNCHANGED <<chainVars, rows, walletVars>>,
             code = 409 => rows[w.tag] # Missing,
             code = 403 /\ w.kind = "wallet" => rows[w.tag] # Missing /\ rows[w.tag].owner # w.owner
      PROVE  IInv'
  <2> DEFINE call == [pc |-> "done", wish |-> w, code |-> code]
  <2>1. call \in Call
    BY DEF Call
  <2>2. To(r, call)
    BY <1>2 DEF Answer
  <2>3. Relies(call)
    BY DEF Relies
  <2>4. RefusalTrue(call)
    BY <1>2, WishIsTyped DEF RefusalTrue, RowsAreSnapshots
  <2>5. CallStep(r, call)
    BY <1>2, <2>1, <2>2, <2>3, <2>4 DEF CallStep, handedOut, TypeOK
  <2>6. QED
    BY <1>2, <2>5, CallStepKeepsIInv DEF handedOut
\* A call that goes on.
<1>3. ASSUME NEW call \in Call, call.pc # "done", Relies(call), calls[r].pc # "done",
             To(r, call), UNCHANGED handedOut, UNCHANGED <<chainVars, rows, walletVars>>
      PROVE  IInv'
  <2>1. CallStep(r, call)
    BY <1>3 DEF CallStep, RefusalTrue, handedOut, TypeOK
  <2>2. QED
    BY <1>3, <2>1, CallStepKeepsIInv DEF handedOut
\* A call that ends with a message.
<1>4. ASSUME NEW w \in Wishes, NEW tx \in Message, Fulfils(tx, w), calls[r].pc # "done",
             calls[r].wish = w, HandOut(r, tx), covered' \subseteq covered \cup {tx},
             UNCHANGED <<chainVars, rows, walletVars>>
      PROVE  IInv'
  <2> DEFINE call == [pc |-> "done", wish |-> w, code |-> 200]
  <2>1. call \in Call
    BY DEF Call
  <2>2. To(r, call) /\ txs' = txs \cup {tx}
    BY <1>4 DEF HandOut, Answer
  <2>3. Relies(call) /\ RefusalTrue(call)
    BY DEF Relies, RefusalTrue
  <2>4. CallStep(r, call)
    BY <1>4, <2>1, <2>2, <2>3 DEF CallStep, TypeOK
  <2>5. QED
    BY <1>4, <2>2, <2>4, CallStepKeepsIInv
<1>5. ASSUME NEW w \in Wishes, Register(r, w) PROVE IInv'
  <2>1. /\ calls[r].pc # "done" /\ w.kind = "register" /\ UNCHANGED handedOut
        /\ UNCHANGED <<chainVars, rows, walletVars>>
    BY <1>5 DEF Register, At
  <2>2. CASE NamingGate(w.tag) = "already_registered"
    <3>1. Answer(r, w, 409) /\ rows[w.tag] # Missing
      BY <1>5, <2>2 DEF Register, NamingGate
    <3>2. QED
      BY <1>2, <2>1, <3>1
  <2>3. CASE NamingGate(w.tag) \in {"reserved", "inappropriate"}
    <3>1. Answer(r, w, 403)
      BY <1>5, <2>3 DEF Register
    <3>2. QED
      BY <1>2, <2>1, <3>1
  <2>4. CASE NamingGate(w.tag) = "available" /\ BadKey \in {w.wallet, w.payer}
    <3>1. Answer(r, w, 400)
      BY <1>5, <2>4 DEF Register
    <3>2. QED
      BY <1>2, <2>1, <3>1
  <2>5. CASE NamingGate(w.tag) = "available" /\ BadKey \notin {w.wallet, w.payer}
    <3> DEFINE call == [pc |-> "gated", wish |-> w]
    <3>1. To(r, call)
      BY <1>5, <2>5 DEF Register
    <3>2. call \in Call /\ call.pc # "done" /\ Relies(call)
      BY <2>1, <2>5 DEF Call, Relies
    <3>3. QED
      BY <1>3, <2>1, <3>1, <3>2
  <2>6. NamingGate(w.tag) \in {"reserved", "inappropriate", "already_registered", "available"}
    BY DEF NamingGate
  <2>7. QED
    BY <2>2, <2>3, <2>4, <2>5, <2>6
<1>6. CASE GetBlockhash(r)
  <2> DEFINE w == calls[r].wish
             call == [pc |-> "built", wish |-> w, tx |-> BuildRegister(w)]
  <2>1. /\ calls[r].pc # "done" /\ w \in Wishes /\ To(r, call) /\ UNCHANGED handedOut
        /\ UNCHANGED <<chainVars, rows, walletVars>>
    BY <1>1, <1>6 DEF GetBlockhash, At
  <2>2. w.kind = "register" /\ BadKey \notin {w.wallet, w.payer}
    BY <1>6 DEF GetBlockhash, At, Relies
  <2>3. call \in Call /\ call.pc # "done" /\ Relies(call)
    BY <2>1, <2>2, RegisterIsBuilt DEF Call, Relies
  <2>4. QED
    BY <1>3, <2>1, <2>3
<1>7. CASE CheckBalance(r)
  <2>1. /\ calls[r].pc = "built" /\ calls[r].wish \in Wishes /\ calls[r].tx \in Message
        /\ Fulfils(calls[r].tx, calls[r].wish) /\ UNCHANGED <<chainVars, rows, walletVars>>
    BY <1>1, <1>7, CallIsTyped DEF CheckBalance, At, Relies
  <2>2. ASSUME NEW named \in BOOLEAN, HandOutPaid(r, calls[r].tx, named) PROVE IInv'
    BY <1>4, <2>1, <2>2 DEF HandOutPaid
  <2>3. CASE InsufficientBalance(r)
    BY <1>2, <2>1, <2>3 DEF InsufficientBalance
  <2>4. QED
    BY <1>7, <2>2, <2>3 DEF CheckBalance
<1>8. ASSUME NEW w \in Wishes, Guard(r, w) PROVE IInv'
  <2>1. /\ calls[r].pc # "done" /\ w.kind = "wallet" /\ UNCHANGED handedOut
        /\ UNCHANGED <<chainVars, rows, walletVars>>
    BY <1>8 DEF Guard, At
  <2>2. CASE RowRefusal(w) = 200
    <3> DEFINE call == [pc |-> "guarded", wish |-> w]
    <3>1. To(r, call) /\ call \in Call /\ call.pc # "done" /\ Relies(call)
      BY <1>8, <2>1, <2>2 DEF Guard, Call, Relies
    <3>2. QED
      BY <1>3, <2>1, <3>1
  <2>3. CASE RowRefusal(w) # 200
    <3>1. /\ Answer(r, w, RowRefusal(w)) /\ RowRefusal(w) \in {403, 404}
          /\ RowRefusal(w) = 403 => rows[w.tag] # Missing /\ rows[w.tag].owner # w.owner
      BY <1>8, <2>3 DEF Guard, RowRefusal
    <3>2. QED
      BY <1>2, <2>1, <3>1
  <2>4. QED
    BY <2>2, <2>3
<1>9. CASE Reread(r)
  <2> DEFINE w == calls[r].wish
  <2>1. /\ calls[r].pc # "done" /\ w \in Wishes /\ w.kind = "wallet" /\ UNCHANGED handedOut
        /\ UNCHANGED <<chainVars, rows, walletVars>>
    BY <1>1, <1>9 DEF Reread, At, Relies
  <2>2. CASE RowRefusal(w) # 200
    <3>1. /\ Answer(r, w, RowRefusal(w)) /\ RowRefusal(w) \in {403, 404}
          /\ RowRefusal(w) = 403 => rows[w.tag] # Missing /\ rows[w.tag].owner # w.owner
      BY <1>9, <2>2 DEF Reread, RowRefusal
    <3>2. QED
      BY <1>2, <2>1, <3>1
  <2>3. CASE RowRefusal(w) = 200 /\ w.wallet \notin Keys
    <3>1. Answer(r, w, 400)
      BY <1>9, <2>3 DEF Reread
    <3>2. QED
      BY <1>2, <2>1, <3>1
  <2>4. CASE RowRefusal(w) = 200 /\ w.wallet \in Keys
    <3> DEFINE call == [pc |-> "reread", wish |-> w]
    <3>1. To(r, call) /\ call \in Call /\ call.pc # "done" /\ Relies(call)
      BY <1>9, <2>1, <2>4 DEF Reread, Call, Relies
    <3>2. QED
      BY <1>3, <2>1, <3>1
  <2>5. QED
    BY <2>2, <2>3, <2>4
<1>10. CASE BuildWallet(r)
  <2> DEFINE w == calls[r].wish
  <2>1. /\ calls[r].pc # "done" /\ w \in Wishes /\ w.kind = "wallet" /\ w.wallet \in Keys
        /\ HandOut(r, BuildUpdateWallet(w)) /\ UNCHANGED <<chainVars, rows, walletVars, covered>>
    BY <1>1, <1>10 DEF BuildWallet, At, Relies
  <2>2. QED
    BY <1>4, <2>1, WalletIsBuilt
<1>11. CASE CallFails(r)
  <2>1. /\ calls[r].pc # "done" /\ calls[r].wish \in Wishes /\ UNCHANGED handedOut
        /\ Answer(r, calls[r].wish, 500) /\ UNCHANGED <<chainVars, rows, walletVars>>
    BY <1>1, <1>11 DEF CallFails
  <2>2. QED
    BY <1>2, <2>1
<1>12. QED
  BY <1>5, <1>6, <1>7, <1>8, <1>9, <1>10, <1>11 DEF Api

-----------------------------------------------------------------------------
(* Steps of the chain, the wallets and the mirror.                         *)

\* Calls are as they were, messages only become fewer, and the slots that are
\* finalized stay: the parts of the invariant that speak of calls survive.
LEMMA OthersKeepCalls ==
  ASSUME IInv, calls' = calls, txs' \subseteq txs,
         FinalSlot <= FinalSlot', \A s \in 1 .. FinalSlot : history'[s] = history[s]
  PROVE  /\ \A r \in Requests : (Relies(calls[r]) /\ RefusalTrue(calls[r]))'
         /\ \A tx \in txs' : AskedFor(tx)'
<1> USE DEF IInv
<1>1. ASSUME NEW r \in Requests PROVE Relies(calls[r])'
  BY DEF Relies, Fulfils, OrOwner
<1>2. FinalSlot \in Nat /\ FinalSlot' \in Int
  BY DEF TypeOK, ChainTypeOK, FinalSlot
<1>3. ASSUME NEW r \in Requests PROVE RefusalTrue(calls[r])'
  BY <1>2 DEF RefusalTrue
<1>4. ASSUME NEW tx \in txs' PROVE AskedFor(tx)'
  BY DEF AskedFor, At, Fulfils, OrOwner
<1>5. QED
  BY <1>1, <1>3, <1>4

\* A transaction leaves a ledger in which the tag has an account.
LEMMA InstructionsAreTyped ==
  ASSUME TypeOK, NEW t \in Tags, NEW owner \in Keys, NEW key \in Keys,
         \/ RegisterTag(t, owner)
         \/ RegisterWithWallet(t, owner, key)
         \/ UpdateWallet(t, owner, key)
         \/ TransferOwnership(t, owner, key)
  PROVE  bank' \in Ledger /\ history' = history
<1>1. bank \in [Tags -> Account \cup {Missing}]
  BY DEF TypeOK, ChainTypeOK, Ledger
<1>2. ASSUME NEW acct \in Account, bank' = [bank EXCEPT ![t] = acct] PROVE bank' \in Ledger
  BY <1>1, <1>2 DEF Ledger
<1>3. CASE RegisterTag(t, owner)
  BY <1>2, <1>3 DEF RegisterTag, Account
<1>4. CASE RegisterWithWallet(t, owner, key)
  BY <1>2, <1>4 DEF RegisterWithWallet, Account
<1>5. CASE UpdateWallet(t, owner, key)
  <2>1. bank[t] \in Account /\ [bank[t] EXCEPT !.wallet = key] \in Account
    BY <1>1, <1>5 DEF UpdateWallet, HasOneOwner, Account
  <2>2. bank' = [bank EXCEPT ![t] = [bank[t] EXCEPT !.wallet = key]]
    BY <1>5 DEF UpdateWallet
  <2>3. QED
    BY <1>2, <1>5, <2>1, <2>2 DEF UpdateWallet
<1>6. CASE TransferOwnership(t, owner, key)
  <2>1. bank[t] \in Account /\ [bank[t] EXCEPT !.owner = key] \in Account
    BY <1>1, <1>6 DEF TransferOwnership, HasOneOwner, Account
  <2>2. bank' = [bank EXCEPT ![t] = [bank[t] EXCEPT !.owner = key]]
    BY <1>6 DEF TransferOwnership
  <2>3. QED
    BY <1>2, <1>6, <2>1, <2>2 DEF TransferOwnership
<1>7. QED
  BY <1>3, <1>4, <1>5, <1>6

\* What the chain does with a message pays no more than there is.
LEMMA LandIsTyped ==
  ASSUME TypeOK, NEW tx \in txs, Land(tx)
  PROVE  /\ bank' \in Ledger /\ history' = history
         /\ lamports' \in [Keys -> Nat] /\ lamports[tx.payer] >= Cost(tx)
<1>1. /\ tx \in Message /\ tx.tag \in Tags /\ tx.owner \in Keys /\ tx.wallet \in Keys
      /\ tx.payer \in Keys /\ tx.kind \in {"register", "wallet"}
  BY DEF TypeOK, Message
<1>2. \/ RegisterTag(tx.tag, tx.owner) \/ RegisterWithWallet(tx.tag, tx.owner, tx.wallet)
      \/ UpdateWallet(tx.tag, tx.owner, tx.wallet)
  BY DEF Land, Effect
<1>3. lamports[tx.payer] >= Cost(tx)
  <2>1. CASE tx.kind = "wallet"
    BY <1>1, <2>1, FeesOfOneOrTwo, NumbersAreNatural DEF Land, Processable, Cost
  <2>2. CASE tx.kind # "wallet"
    BY <2>2 DEF Land, Effect, Affordable
  <2>3. QED
    BY <2>1, <2>2
<1>4. Cost(tx) \in Nat
  BY <1>1, FeesOfOneOrTwo
<1>5. lamports[tx.payer] - Cost(tx) \in Nat
  BY <1>1, <1>3, <1>4 DEF TypeOK
<1>6. QED
  BY <1>1, <1>2, <1>3, <1>5, InstructionsAreTyped DEF Land, Charge, TypeOK

LEMMA LandInVainIsTyped ==
  ASSUME TypeOK, NEW tx \in txs, LandInVain(tx)
  PROVE  lamports' \in [Keys -> Nat]
<1>1. tx \in Message /\ tx.payer \in Keys
  BY DEF TypeOK, Message
<1>2. Fees(tx) \in Nat /\ lamports[tx.payer] >= Fees(tx)
  BY <1>1, FeesOfOneOrTwo DEF LandInVain, Processable
<1>3. lamports[tx.payer] - Fees(tx) \in Nat
  BY <1>1, <1>2 DEF TypeOK
<1>4. QED
  BY <1>3 DEF LandInVain, Charge, TypeOK

\* The chain moves on without a new slot: rows are still snapshots.
LEMMA ChainKeepsIInv ==
  ASSUME IInv, bank' \in Ledger, history' = history, rows' = rows, calls' = calls, txs' = txs,
         lamports' \in [Keys -> Nat], signed' \subseteq txs \X Keys, executed' \subseteq txs,
         transfer' \in [tag : Tags, signer : Keys, newOwner : Keys] \cup {Missing},
         covered' \subseteq txs
  PROVE  IInv'
<1> USE DEF IInv
<1>1. TypeOK'
  BY DEF TypeOK, ChainTypeOK, FinalSlot
<1>2. RowsAreSnapshots'
  BY DEF RowsAreSnapshots, FinalSlot
<1>3. FinalSlot' = FinalSlot /\ FinalSlot <= FinalSlot'
  BY DEF FinalSlot, TypeOK, ChainTypeOK
<1>4. QED
  BY <1>1, <1>2, <1>3, OthersKeepCalls

LEMMA FinalizeKeepsIInv ==
  ASSUME IInv, Finalize
  PROVE  IInv'
<1> USE DEF IInv
<1>1. /\ history' = Append(history, bank) /\ bank' = bank
      /\ UNCHANGED <<rows, lamports, calls>>
      /\ txs' \subseteq txs /\ signed' = {s \in signed : s[1] \in txs'}
      /\ executed' = executed \cap txs' /\ covered' = covered \cap txs' /\ transfer' = Missing
  BY DEF Finalize, FinalizeSlot
<1>2. /\ history \in Seq(Ledger) /\ bank \in Ledger /\ history' \in Seq(Ledger)
      /\ FinalSlot' = FinalSlot + 1 /\ FinalSlot \in Nat /\ FinalSlot >= 1
      /\ \A s \in 1 .. FinalSlot : history'[s] = history[s]
  BY <1>1 DEF TypeOK, ChainTypeOK, FinalSlot
<1>3. signed' \subseteq txs' \X Keys
  BY <1>1 DEF TypeOK
<1>4. TypeOK'
  BY <1>1, <1>2, <1>3 DEF TypeOK, ChainTypeOK
<1>5. ASSUME NEW t \in Tags, rows[t] # Missing
      PROVE  /\ rows[t].slot \in 1 .. FinalSlot'
             /\ history'[rows[t].slot][t] # Missing
             /\ rows[t].owner = history'[rows[t].slot][t].owner
  <2>1. rows[t].slot \in 1 .. FinalSlot
    BY <1>5 DEF RowsAreSnapshots
  <2>2. history'[rows[t].slot] = history[rows[t].slot]
    BY <1>2, <2>1
  <2>3. QED
    BY <1>2, <1>5, <2>1, <2>2 DEF RowsAreSnapshots
<1>6. RowsAreSnapshots'
  BY <1>1, <1>5 DEF RowsAreSnapshots
<1>7. FinalSlot <= FinalSlot'
  BY <1>2
<1>8. (\A r \in Requests : (Relies(calls[r]) /\ RefusalTrue(calls[r]))')
      /\ \A tx \in txs' : AskedFor(tx)'
  BY <1>1, <1>2, <1>7, OthersKeepCalls
<1>9. QED
  BY <1>4, <1>6, <1>8

LEMMA MirrorKeepsIInv ==
  ASSUME IInv, NEW t \in Tags, Mirrored(t) \/ ModeratorBlocks(t)
  PROVE  IInv'
<1> USE DEF IInv
<1>1. UNCHANGED <<bank, history, lamports, signed, executed, transfer, calls, txs, covered>>
  BY DEF Mirrored, ModeratorBlocks, Mir!MoveForward, Mir!Block, walletVars, apiVars, handedOut
<1>2. history \in Seq(Ledger) /\ FinalSlot \in Nat
  BY DEF TypeOK, ChainTypeOK, FinalSlot
<1>3. rows' \in [Tags -> Mir!Row \cup {Missing}] /\ RowsAreSnapshots'
  <2>1. CASE Mirrored(t)
    <3>1. PICK s \in 1 .. FinalSlot, status \in Mir!Status :
            /\ history[s][t] # Missing
            /\ rows' = [rows EXCEPT ![t] = Mir!SnapshotRow(t, s, status)]
      BY <2>1 DEF Mirrored, Mir!MoveForward, FinalSlot
    <3>2. history[s][t] \in Account
      BY <1>2, <3>1 DEF Ledger, FinalSlot
    <3>3. Mir!SnapshotRow(t, s, status) \in Mir!Row
      BY <1>2, <3>1, <3>2 DEF Mir!SnapshotRow, Mir!Row, Account
    <3>4. rows' \in [Tags -> Mir!Row \cup {Missing}]
      BY <3>1, <3>3 DEF TypeOK
    <3>5. ASSUME NEW u \in Tags, rows'[u] # Missing
          PROVE  /\ rows'[u].slot \in 1 .. FinalSlot'
                 /\ history'[rows'[u].slot][u] # Missing
                 /\ rows'[u].owner = history'[rows'[u].slot][u].owner
      <4>1. CASE u = t
        BY <1>1, <3>1, <4>1 DEF TypeOK, Mir!SnapshotRow, FinalSlot
      <4>2. CASE u # t
        <5>1. rows'[u] = rows[u]
          BY <3>1, <4>2 DEF TypeOK
        <5>2. QED
          BY <1>1, <3>5, <5>1 DEF RowsAreSnapshots, FinalSlot
      <4>3. QED
        BY <4>1, <4>2
    <3>6. QED
      BY <3>4, <3>5 DEF RowsAreSnapshots
  <2>2. CASE ModeratorBlocks(t)
    <3>1. rows[t] # Missing /\ rows' = [rows EXCEPT ![t].status = "blocked"]
      BY <2>2 DEF ModeratorBlocks, Mir!Block
    <3>2. rows[t] \in Mir!Row
      BY <3>1 DEF TypeOK
    <3>3. [rows[t] EXCEPT !.status = "blocked"] \in Mir!Row
      BY <3>2 DEF Mir!Row, Mir!Status
    <3>4. rows' = [rows EXCEPT ![t] = [rows[t] EXCEPT !.status = "blocked"]]
      BY <3>1
    <3>5. rows' \in [Tags -> Mir!Row \cup {Missing}]
      BY <3>3, <3>4 DEF TypeOK
    <3>6. /\ \A u \in Tags : u # t => rows'[u] = rows[u]
          /\ rows'[t].slot = rows[t].slot /\ rows'[t].owner = rows[t].owner
      BY <3>2, <3>4 DEF TypeOK, Mir!Row
    <3>7. RowsAreSnapshots'
      BY <1>1, <3>1, <3>6 DEF RowsAreSnapshots, FinalSlot
    <3>8. QED
      BY <3>5, <3>7
  <2>3. QED
    BY <2>1, <2>2
<1>4. TypeOK'
  BY <1>1, <1>3 DEF TypeOK, ChainTypeOK, FinalSlot
<1>5. FinalSlot' = FinalSlot
  BY <1>1 DEF FinalSlot
<1>6. QED
  BY <1>1, <1>2, <1>3, <1>4, <1>5, OthersKeepCalls

-----------------------------------------------------------------------------
(* The invariant.                                                          *)

LEMMA InitImpliesIInv == Init => IInv
<1> SUFFICES ASSUME Init PROVE IInv
  OBVIOUS
<1>1. NoAccounts \in Ledger
  BY DEF NoAccounts, Ledger
<1>2. bank \in Ledger /\ history \in Seq(Ledger) /\ FinalSlot = 1
  BY <1>1 DEF Init, ChainInit, FinalSlot
<1>3. rows \in [Tags -> Mir!Row \cup {Missing}] /\ RowsAreSnapshots
  BY DEF Init, NoAccounts, RowsAreSnapshots
<1>4. calls \in [Requests -> Call] /\ \A r \in Requests : calls[r].pc = "idle"
  BY DEF Init, Call
<1>5. TypeOK
  BY <1>2, <1>3, <1>4, NumbersAreNatural DEF Init, TypeOK, ChainTypeOK
<1>6. \A r \in Requests : Relies(calls[r]) /\ RefusalTrue(calls[r])
  BY <1>4 DEF Relies, RefusalTrue
<1>7. QED
  BY <1>3, <1>5, <1>6 DEF Init, IInv

LEMMA IInvIsInductive == IInv /\ [Next]_vars => IInv'
<1> SUFFICES ASSUME IInv, [Next]_vars PROVE IInv'
  OBVIOUS
<1>1. TypeOK
  BY DEF IInv
<1>2. ASSUME NEW r \in Requests, Api(r) PROVE IInv'
  BY <1>2, ApiKeepsIInv
<1>3. ASSUME NEW tx \in txs, Land(tx) PROVE IInv'
  <2>1. bank' \in Ledger /\ history' = history /\ lamports' \in [Keys -> Nat]
    BY <1>1, <1>3, LandIsTyped
  <2>2. rows' = rows /\ calls' = calls /\ txs' = txs /\ signed' = signed
        /\ executed' = executed \cup {tx} /\ transfer' = transfer /\ covered' \subseteq covered
    BY <1>3 DEF Land, Charge
  <2>3. QED
    BY <1>1, <1>3, <2>1, <2>2, ChainKeepsIInv DEF TypeOK
<1>4. ASSUME NEW tx \in txs, LandInVain(tx) PROVE IInv'
  <2>1. lamports' \in [Keys -> Nat]
    BY <1>1, <1>4, LandInVainIsTyped
  <2>2. /\ bank' = bank /\ history' = history /\ rows' = rows /\ calls' = calls /\ txs' = txs
        /\ signed' = signed /\ executed' = executed \cup {tx}
        /\ transfer' = transfer /\ covered' \subseteq covered
    BY <1>4 DEF LandInVain, Charge, chainVars
  <2>3. QED
    BY <1>1, <1>4, <2>1, <2>2, ChainKeepsIInv DEF TypeOK, ChainTypeOK
<1>5. ASSUME NEW tx \in txs, NEW key \in Keys, Sign(tx, key) PROVE IInv'
  <2>1. /\ bank' = bank /\ history' = history /\ rows' = rows /\ calls' = calls /\ txs' = txs
        /\ lamports' = lamports /\ executed' = executed /\ signed' = signed \cup {<<tx, key>>}
        /\ transfer' = transfer /\ covered' = covered
    BY <1>5 DEF Sign, apiVars, handedOut, chainVars
  <2>2. QED
    BY <1>1, <1>5, <2>1, ChainKeepsIInv DEF TypeOK, ChainTypeOK
<1>6. ASSUME NEW t \in Tags, NEW signer \in Keys, NEW newOwner \in Keys,
             Transfer(t, signer, newOwner)
      PROVE  IInv'
  <2>1. bank' \in Ledger /\ history' = history
    BY <1>1, <1>6, InstructionsAreTyped DEF Transfer
  <2>2. /\ rows' = rows /\ calls' = calls /\ txs' = txs /\ lamports' = lamports
        /\ signed' = signed /\ executed' = executed /\ covered' = covered
        /\ transfer' = [tag |-> t, signer |-> signer, newOwner |-> newOwner]
    BY <1>6 DEF Transfer, apiVars, handedOut
  <2>3. QED
    BY <1>1, <2>1, <2>2, ChainKeepsIInv DEF TypeOK
<1>7. CASE Finalize
  BY <1>7, FinalizeKeepsIInv
<1>8. ASSUME NEW t \in Tags, Mirrored(t) \/ ModeratorBlocks(t) PROVE IInv'
  BY <1>8, MirrorKeepsIInv
<1>9. CASE UNCHANGED vars
  BY <1>1, <1>9, ChainKeepsIInv DEF vars, chainVars, walletVars, apiVars, handedOut, TypeOK, ChainTypeOK
<1>10. QED
  BY <1>2, <1>3, <1>4, <1>5, <1>6, <1>7, <1>8, <1>9 DEF Next

\* The inductive invariant holds in every reachable state.
THEOREM Invariance == Spec => []IInv
  BY InitImpliesIInv, IInvIsInductive, PTL DEF Spec

\* Every variable keeps its type; in particular no key ever pays more than it
\* has (rent-check.ts, and the cluster).
THEOREM TypeCorrect == Spec => []TypeOK
<1>1. IInv => TypeOK
  BY DEF IInv
<1>2. QED
  BY <1>1, Invariance, PTL

\* A 409 or 403 was true of some finalized slot (naming-gate.ts,
\* wallet-update.service.ts), however far the mirror is behind.
THEOREM RefusalsAreTrue == Spec => []RefusalsTrue
<1>1. IInv => RefusalsTrue
  BY DEF IInv, RefusalsTrue, RefusalTrue, At
<1>2. QED
  BY <1>1, Invariance, PTL

-----------------------------------------------------------------------------
(* What a step may never do.                                               *)

\* Only a message that lands and a transfer change accounts.
LEMMA WhoChangesAccounts ==
  ASSUME [Next]_vars, bank' # bank
  PROVE  \/ \E tx \in txs : Land(tx)
         \/ \E t \in Tags, signer, newOwner \in Keys : Transfer(t, signer, newOwner)
<1>1. ASSUME NEW r \in Requests, Api(r) PROVE bank' = bank
  BY <1>1 DEF Api, Register, Guard, GetBlockhash, CheckBalance, Reread, BuildWallet, CallFails,
              chainVars
<1>2. ASSUME NEW tx \in txs, LandInVain(tx) \/ \E key \in Keys : Sign(tx, key)
      PROVE  bank' = bank
  BY <1>2 DEF LandInVain, Sign, chainVars
<1>3. ASSUME Finalize PROVE bank' = bank
  BY <1>3 DEF Finalize, FinalizeSlot
<1>4. ASSUME NEW t \in Tags, Mirrored(t) \/ ModeratorBlocks(t) PROVE bank' = bank
  BY <1>4 DEF Mirrored, ModeratorBlocks
<1>5. CASE UNCHANGED vars
  BY <1>5 DEF vars, chainVars
<1>6. QED
  BY <1>1, <1>2, <1>3, <1>4, <1>5 DEF Next

\* What a message that lands does, and to whom.
LEMMA WhatLandingDoes ==
  ASSUME IInv, NEW tx \in txs, Land(tx)
  PROVE  /\ \A t \in Tags : t # tx.tag => bank'[t] = bank[t]
         /\ tx.kind = "register" =>
              bank[tx.tag] = Missing /\ bank'[tx.tag] = [owner |-> tx.owner, wallet |-> tx.wallet]
         /\ tx.kind = "wallet" =>
              /\ bank[tx.tag] # Missing /\ bank[tx.tag].owner = tx.owner
              /\ bank'[tx.tag] = [bank[tx.tag] EXCEPT !.wallet = tx.wallet]
         /\ tx.kind \in {"register", "wallet"} /\ tx.tag \in Tags /\ tx \in Message
<1>1. tx \in Message /\ tx.tag \in Tags /\ tx.kind \in {"register", "wallet"}
  BY DEF IInv, TypeOK, Message
<1>2. bank \in [Tags -> Account \cup {Missing}]
  BY DEF IInv, TypeOK, ChainTypeOK, Ledger
<1>3. CASE tx.kind = "register"
  <2>1. /\ bank[tx.tag] = Missing
        /\ bank' = [bank EXCEPT ![tx.tag] = [owner |-> tx.owner, wallet |-> tx.wallet]]
    BY <1>3 DEF Land, Effect, RegisterTag, RegisterWithWallet
  <2>2. QED
    BY <1>1, <1>2, <1>3, <2>1
<1>4. CASE tx.kind = "wallet"
  <2>1. /\ bank[tx.tag] # Missing /\ bank[tx.tag].owner = tx.owner
        /\ bank' = [bank EXCEPT ![tx.tag] = [bank[tx.tag] EXCEPT !.wallet = tx.wallet]]
    BY <1>4 DEF Land, Effect, UpdateWallet, HasOneOwner
  <2>2. QED
    BY <1>1, <1>2, <1>4, <2>1
<1>5. QED
  BY <1>1, <1>3, <1>4

LEMMA OwnedStep ==
  ASSUME IInv, [Next]_vars, NEW t \in Tags, bank[t] # Missing, bank'[t] # bank[t]
  PROVE  OwnedChange(t)
<1>1. bank[t] \in Account
  BY DEF IInv, TypeOK, ChainTypeOK, Ledger
<1>2. ASSUME NEW tx \in txs, Land(tx) PROVE OwnedChange(t)
  <2>1. t = tx.tag /\ tx.kind = "wallet" /\ bank[t].owner = tx.owner
        /\ bank'[t] = [bank[t] EXCEPT !.wallet = tx.wallet]
    BY <1>2, WhatLandingDoes
  <2>2. bank'[t].wallet = tx.wallet /\ bank'[t] = [bank[t] EXCEPT !.wallet = bank'[t].wallet]
    BY <1>1, <2>1 DEF Account
  <2>3. tx \in executed' \ executed /\ <<tx, bank[t].owner>> \in signed
    BY <1>2, <2>1 DEF Land, Processable, Signers
  <2>4. PICK r \in Requests : At(r, "done") /\ calls[r].code = 200 /\ Fulfils(tx, calls[r].wish)
    BY DEF IInv, AskedFor
  <2>5. calls[r].wish = [kind |-> "wallet", tag |-> t,
                         owner |-> bank[t].owner, wallet |-> tx.wallet]
    <3>1. calls[r].wish \in WalletWish
      BY <2>1, <2>4, CallIsTyped, WishesAreWishes
         DEF Fulfils, At, IInv, Wish, RegisterWish
    <3>2. QED
      BY <2>1, <2>4, <3>1 DEF Fulfils, WalletWish
  <2>6. \E q \in Requests :
          /\ At(q, "done") /\ calls[q].code = 200
          /\ calls[q].wish = [kind |-> "wallet", tag |-> t,
                              owner |-> bank[t].owner, wallet |-> tx.wallet]
    BY <2>4, <2>5
  <2>7. tx.tag = t /\ tx.wallet = bank'[t].wallet
    BY <2>1, <2>2
  <2>8. QED
    BY <2>1, <2>2, <2>3, <2>6, <2>7, Zenon DEF OwnedChange
<1>3. ASSUME NEW u \in Tags, NEW signer \in Keys, NEW newOwner \in Keys,
             Transfer(u, signer, newOwner)
      PROVE  OwnedChange(t)
  <2>1. bank' = [bank EXCEPT ![u] = [bank[u] EXCEPT !.owner = newOwner]]
    BY <1>3 DEF Transfer, TransferOwnership
  <2>2. u = t /\ bank'[t] = [bank[t] EXCEPT !.owner = newOwner]
    BY <2>1 DEF IInv, TypeOK, ChainTypeOK, Ledger
  <2>3. bank'[t] = [bank[t] EXCEPT !.owner = bank'[t].owner] /\ bank'[t].owner = newOwner
    BY <1>1, <2>2 DEF Account
  <2>4. signer = bank[t].owner /\ transfer' = [tag |-> t, signer |-> signer, newOwner |-> newOwner]
    BY <1>3, <2>2 DEF Transfer, TransferOwnership, HasOneOwner
  <2>5. QED
    BY <2>3, <2>4 DEF OwnedChange
<1>4. QED
  BY <1>2, <1>3, WhoChangesAccounts

\* An account changes only as its owner of that moment has signed it: a transfer,
\* or a wallet update of this tag that apps/api handed out to this owner.  A late
\* registration or wallet update of somebody else changes nothing
\* (wallet-update.service.ts, update_wallet.rs, transfer_ownership.rs,
\* register_tag.rs).
THEOREM AccountsAreObedient == Spec => AccountsObeyOwners
<1>1. IInv /\ [Next]_vars =>
        [\A t \in Tags : bank[t] # Missing /\ bank'[t] # bank[t] => OwnedChange(t)]_vars
  BY OwnedStep
<1>2. QED
  BY <1>1, Invariance, PTL DEF Spec, AccountsObeyOwners

LEMMA GrantedStep ==
  ASSUME IInv, [Next]_vars, NEW t \in Tags, bank[t] = Missing, bank'[t] # Missing
  PROVE  \E r \in Requests : Granted(t, r)
<1>1. PICK tx \in txs : Land(tx)
  <2>1. ASSUME NEW u \in Tags, NEW signer \in Keys, NEW newOwner \in Keys,
               Transfer(u, signer, newOwner)
        PROVE  FALSE
    <3>1. bank[u] # Missing /\ bank' = [bank EXCEPT ![u] = [bank[u] EXCEPT !.owner = newOwner]]
      BY <2>1 DEF Transfer, TransferOwnership, HasOneOwner
    <3>2. QED
      BY <3>1 DEF IInv, TypeOK, ChainTypeOK, Ledger
  <2>2. QED
    BY <2>1, WhoChangesAccounts
<1>2. /\ tx \in Message /\ t = tx.tag /\ tx.kind = "register"
      /\ bank'[t] = [owner |-> tx.owner, wallet |-> tx.wallet]
  BY <1>1, WhatLandingDoes
<1>3. PICK r \in Requests : At(r, "done") /\ calls[r].code = 200 /\ Fulfils(tx, calls[r].wish)
  BY DEF IInv, AskedFor
<1> DEFINE w == calls[r].wish
<1>4. /\ w.kind = "register" /\ w.tag = t /\ tx.payer = OrOwner(w.payer, w)
      /\ bank'[t] = [owner |-> w.owner, wallet |-> OrOwner(w.wallet, w)]
  BY <1>2, <1>3 DEF Fulfils
<1>5. ASSUME NEW key \in Keys, lamports'[key] < lamports[key]
      PROVE  key = tx.payer /\ <<tx, key>> \in signed
  <2>1. lamports' = [lamports EXCEPT ![tx.payer] = @ - Cost(tx)]
    BY <1>1 DEF Land, Charge
  <2>2. key # tx.payer => lamports'[key] = lamports[key] /\ lamports[key] \in Nat
    BY <2>1 DEF IInv, TypeOK
  <2>3. key = tx.payer
    BY <1>5, <2>2
  <2>4. QED
    BY <1>1, <2>3 DEF Land, Processable, Signers
<1>6. ASSUME NEW key \in Keys, lamports'[key] < lamports[key]
      PROVE  key = OrOwner(w.payer, w) /\ \E m \in txs : <<m, key>> \in signed
  BY <1>4, <1>5, <1>6
<1>7. Granted(t, r)
  BY <1>3, <1>4, <1>6 DEF Granted
<1>8. QED
  BY <1>7

\* A tag appears on chain only as one caller wished it, and paid for by a key
\* that signed (transaction-builder.ts, register_tag.rs).
THEOREM RegistrationsLandAsAsked == Spec => LandsAsAsked
<1>1. IInv /\ [Next]_vars =>
        [\A t \in Tags : bank[t] = Missing /\ bank'[t] # Missing =>
           \E r \in Requests : Granted(t, r)]_vars
  BY GrantedStep
<1>2. QED
  BY <1>1, Invariance, PTL DEF Spec, LandsAsAsked

LEMMA RowsStay ==
  ASSUME IInv, [Next]_vars, NEW t \in Tags, rows[t] # Missing
  PROVE  rows'[t] # Missing
<1>1. rows \in [Tags -> Mir!Row \cup {Missing}]
  BY DEF IInv, TypeOK
<1>2. ASSUME NEW u \in Tags, Mirrored(u) PROVE rows'[t] # Missing
  <2>1. PICK s \in 1 .. FinalSlot, status \in Mir!Status :
          history[s][u] # Missing /\ rows' = [rows EXCEPT ![u] = Mir!SnapshotRow(u, s, status)]
    BY <1>2 DEF Mirrored, Mir!MoveForward, FinalSlot
  <2>2. history[s][u] \in Account /\ s \in Nat
    BY <2>1 DEF IInv, TypeOK, ChainTypeOK, Ledger, FinalSlot
  <2>3. Mir!SnapshotRow(u, s, status) \in Mir!Row
    BY <2>1, <2>2 DEF Mir!SnapshotRow, Mir!Row, Account
  <2>4. QED
    BY <1>1, <2>1, <2>3, MissingIsNoRow
<1>3. ASSUME NEW u \in Tags, ModeratorBlocks(u) PROVE rows'[t] # Missing
  <2>1. rows[u] \in Mir!Row /\ rows' = [rows EXCEPT ![u] = [rows[u] EXCEPT !.status = "blocked"]]
    BY <1>1, <1>3 DEF ModeratorBlocks, Mir!Block
  <2>2. [rows[u] EXCEPT !.status = "blocked"] \in Mir!Row
    BY <2>1 DEF Mir!Row, Mir!Status
  <2>3. QED
    BY <1>1, <2>1, <2>2, MissingIsNoRow
<1>4. ASSUME NEW r \in Requests, Api(r) PROVE rows' = rows
  BY <1>4 DEF Api, Register, Guard, GetBlockhash, CheckBalance, Reread, BuildWallet, CallFails
<1>5. ASSUME NEW tx \in txs, Land(tx) \/ LandInVain(tx) \/ \E key \in Keys : Sign(tx, key)
      PROVE  rows' = rows
  BY <1>5 DEF Land, LandInVain, Sign
<1>6. ASSUME Finalize \/ \E u \in Tags, signer, newOwner \in Keys : Transfer(u, signer, newOwner)
      PROVE  rows' = rows
  BY <1>6 DEF Finalize, Transfer
<1>7. CASE UNCHANGED vars
  BY <1>7 DEF vars
<1>8. QED
  BY <1>2, <1>3, <1>4, <1>5, <1>6, <1>7 DEF Next

\* A tag the naming gate refuses is refused for ever (naming-gate.ts).
THEOREM RefusedTagsStayRefused == Spec => NeverFreeAgain
<1>1. IInv /\ [Next]_vars =>
        [\A t \in Tags : NamingGate(t) # "available" => NamingGate(t)' # "available"]_vars
  <2>1. ASSUME IInv, [Next]_vars, NEW t \in Tags, NamingGate(t) # "available"
        PROVE  NamingGate(t)' # "available"
    <3>1. CASE t \in Reserved
      BY <3>1 DEF NamingGate
    <3>2. CASE t \in Profane \ Reserved
      BY <3>2 DEF NamingGate
    <3>3. CASE t \notin Reserved /\ t \notin Profane
      BY <2>1, <3>3, RowsStay DEF NamingGate
    <3>4. QED
      BY <3>1, <3>2, <3>3
  <2>2. QED
    BY <2>1
<1>2. QED
  BY <1>1, Invariance, PTL DEF Spec, NeverFreeAgain

-----------------------------------------------------------------------------
(* The 402 comes in time.                                                  *)

\* The payer of a covered registration still has what it takes.
CoveredCanPay == \A tx \in covered : tx.kind = "register" /\ Affordable(tx)

\* What a key has left to pay depends on its balance only.
LEMMA AffordableStays ==
  ASSUME NEW tx, Affordable(tx), lamports'[tx.payer] = lamports[tx.payer]
  PROVE  Affordable(tx)'
  BY DEF Affordable, LeavesNoDust, Cost, Fees, Signers

\* Only the balance check covers a message: one it has found its payer can pay.
LEMMA CoveredByCheck ==
  ASSUME IInv, CoveredCanPay, NEW r \in Requests, Api(r)
  PROVE  CoveredCanPay'
<1>1. lamports' = lamports
  BY DEF Api, Register, Guard, GetBlockhash, CheckBalance, Reread, BuildWallet, CallFails,
         walletVars
<1>2. CASE covered' = covered
  BY <1>1, <1>2, AffordableStays DEF CoveredCanPay
<1>3. ASSUME NEW named \in BOOLEAN, At(r, "built"), Sufficient(calls[r].tx, named),
             HandOutPaid(r, calls[r].tx, named), covered' # covered
      PROVE  CoveredCanPay'
  <2> DEFINE tx == calls[r].tx
  <2>1. /\ tx \in Message /\ tx.kind = "register" /\ tx.payer \in Keys
        /\ lamports[tx.payer] \in Nat
    <3>1. tx \in Message
      BY <1>3, CallIsTyped DEF IInv, At
    <3>2. tx.kind = calls[r].wish.kind
      BY <1>3 DEF IInv, Relies, At, Fulfils
    <3>3. calls[r].wish.kind = "register"
      BY <1>3 DEF IInv, Relies, At
    <3>4. QED
      BY <3>1, <3>2, <3>3 DEF IInv, TypeOK, Message
  <2>2. named /\ LeavesNoDust(tx, Cost(tx)) /\ covered' = covered \cup {tx}
    BY <1>3 DEF HandOutPaid
  <2>3. lamports[tx.payer] >= Cost(tx)
    <3>1. lamports[tx.payer] >= Rent + Fees(tx)
      BY <1>3, <2>2 DEF Sufficient, EstimatedFees
    <3>2. QED
      BY <2>1, <3>1, FeesOfOneOrTwo, NumbersAreNatural DEF Cost
  <2>4. Affordable(tx)
    BY <2>2, <2>3 DEF Affordable
  <2>5. QED
    BY <1>1, <2>1, <2>2, <2>4, AffordableStays DEF CoveredCanPay
<1>4. covered' # covered => CheckBalance(r)
  BY DEF Api, Register, Guard, GetBlockhash, Reread, BuildWallet, CallFails, handedOut
<1>5. QED
  BY <1>2, <1>3, <1>4 DEF CheckBalance, InsufficientBalance, handedOut

LEMMA CoveredStep ==
  ASSUME IInv, CoveredCanPay, [Next]_vars
  PROVE  CoveredCanPay'
<1>1. ASSUME NEW r \in Requests, Api(r) PROVE CoveredCanPay'
  BY <1>1, CoveredByCheck
<1>2. ASSUME NEW tx \in txs, Land(tx) \/ LandInVain(tx) PROVE CoveredCanPay'
  <2>1. \E amount : Charge(tx, amount)
    BY <1>2 DEF Land, LandInVain
  <2>2. ASSUME NEW c \in covered' PROVE c \in covered /\ lamports'[c.payer] = lamports[c.payer]
    <3>1. c \in covered /\ c.payer # tx.payer
      BY <2>1, <2>2 DEF Charge
    <3>2. c.payer \in Keys
      BY <3>1 DEF IInv, TypeOK, Message
    <3>3. QED
      BY <2>1, <3>1, <3>2 DEF Charge, IInv, TypeOK
  <2>3. QED
    BY <2>2, AffordableStays DEF CoveredCanPay
<1>3. ASSUME \/ UNCHANGED vars \/ Finalize
             \/ \E tx \in txs, key \in Keys : Sign(tx, key)
             \/ \E t \in Tags, signer, newOwner \in Keys : Transfer(t, signer, newOwner)
             \/ \E t \in Tags : Mirrored(t) \/ ModeratorBlocks(t)
      PROVE  CoveredCanPay'
  <2>1. lamports' = lamports /\ covered' \subseteq covered
    BY <1>3 DEF vars, Finalize, Sign, Transfer, Mirrored, ModeratorBlocks, walletVars, apiVars,
                handedOut
  <2>2. QED
    BY <2>1, AffordableStays DEF CoveredCanPay
<1>4. QED
  BY <1>1, <1>2, <1>3 DEF Next

\* Only the chain processes messages, one at a time.
LEMMA WhoExecutes ==
  ASSUME [Next]_vars, NEW tx \in executed' \ executed
  PROVE  tx \in txs /\ (Land(tx) \/ LandInVain(tx))
<1>1. ASSUME NEW r \in Requests, Api(r) PROVE executed' = executed
  BY <1>1 DEF Api, Register, Guard, GetBlockhash, CheckBalance, Reread, BuildWallet, CallFails,
              walletVars
<1>2. ASSUME NEW m \in txs, Land(m) \/ LandInVain(m) PROVE m = tx
  BY <1>2 DEF Land, LandInVain
<1>3. ASSUME \/ UNCHANGED vars \/ Finalize
             \/ \E m \in txs, key \in Keys : Sign(m, key)
             \/ \E t \in Tags, signer, newOwner \in Keys : Transfer(t, signer, newOwner)
             \/ \E t \in Tags : Mirrored(t) \/ ModeratorBlocks(t)
      PROVE  FALSE
  BY <1>3 DEF vars, Finalize, Sign, Transfer, Mirrored, ModeratorBlocks, walletVars
<1>4. QED
  BY <1>1, <1>2, <1>3 DEF Next

\* A registration handed out on a fee the node named never fails for want of
\* lamports, as long as its payer has paid for nothing else since and is not left
\* with dust (rent-check.ts, register.service.ts): for every rent, fee and balance.
THEOREM BalanceCheckHolds == Spec => CoveredRegistrationsLand
<1>1. Init => CoveredCanPay
  BY DEF Init, CoveredCanPay
<1>2. IInv /\ CoveredCanPay /\ [Next]_vars => CoveredCanPay'
  BY CoveredStep
<1>3. IInv /\ CoveredCanPay /\ [Next]_vars =>
        [\A tx \in covered \cap (executed' \ executed) :
           bank[tx.tag] = Missing => bank'[tx.tag] # Missing]_vars
  <2>1. SUFFICES ASSUME IInv, CoveredCanPay, [Next]_vars,
                        NEW tx \in covered \cap (executed' \ executed), bank[tx.tag] = Missing
                 PROVE  bank'[tx.tag] # Missing
    OBVIOUS
  <2>2. tx \in txs /\ (Land(tx) \/ LandInVain(tx)) /\ tx.kind = "register" /\ Affordable(tx)
    BY <2>1, WhoExecutes DEF CoveredCanPay
  <2>3. Land(tx)
    BY <2>1, <2>2 DEF LandInVain
  <2>4. tx \in Message /\ bank'[tx.tag] = [owner |-> tx.owner, wallet |-> tx.wallet]
    BY <2>1, <2>2, <2>3, WhatLandingDoes
  <2>5. bank'[tx.tag] \in Account
    BY <2>4 DEF Message, Account
  <2>6. QED
    BY <2>5, MissingIsNoAccount
<1>4. QED
  BY <1>1, <1>2, <1>3, Invariance, PTL DEF Spec, CoveredRegistrationsLand
=============================================================================
