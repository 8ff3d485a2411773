---------------------------- MODULE Registration ----------------------------
(***************************************************************************)
(* From the wish to own a tag to the row that serves it.  apps/api checks  *)
(* a wish against the mirror and hands out an unsigned transaction; the    *)
(* keys it names sign it, elsewhere and later; the chain executes it,      *)
(* refuses it or lets it expire; the indexer mirrors what was finalized,   *)
(* here by the promise of module Mirror.                                   *)
(*                                                                         *)
(*   rows       the identities table                                       *)
(*   lamports   the balance of every key                                   *)
(*   calls      POST /v1/register and POST /v1/identity/:tag/wallet, each  *)
(*              cut at its awaits                                          *)
(*   txs        the messages handed out whose blockhash is still valid     *)
(*   signed     <<message, key>> for every signature made                  *)
(*   executed   the messages the chain has processed                       *)
(*                                                                         *)
(* Two more say what nothing stores:                                       *)
(*   transfer   who signed the last transfer of the slot being built       *)
(*   covered    registrations handed out on a fee the node named, that      *)
(*              leave no dust, and whose payer has paid for nothing since  *)
(***************************************************************************)
EXTENDS TagRegistry, FiniteSets

CONSTANTS
  Profane,     \* the tags the moderation gate blocks
  Reserved,    \* the tags of RESERVED_TAGS
  BadKey,      \* a string of the request that is not a public key
  Wishes,      \* the requests callers may make
  Requests,    \* bound: calls handled
  Balances,    \* what the keys may hold at first
  Rent, Fee,   \* rent of a TagAccount, fee of one signature
  Exempt,      \* the least balance of a key that is not empty
  Validity     \* slots for which a blockhash is valid

\* The bodies of the two requests, with the owner the token names.
RegisterWish == [kind : {"register"}, tag : Tags, owner : Keys,
                 wallet : Keys \cup {BadKey, Missing}, payer : Keys \cup {BadKey, Missing}]
WalletWish == [kind : {"wallet"}, tag : Tags, owner : Keys, wallet : Keys \cup {BadKey}]
Wish == RegisterWish \cup WalletWish

ASSUME WishesAreWishes == Wishes \subseteq Wish
ASSUME NumbersAreNatural ==
  /\ Rent \in Nat /\ Fee \in Nat /\ Exempt \in Nat /\ Validity \in Nat
  /\ Balances \subseteq [Keys -> Nat]
ASSUME BadKeyIsNoKey == BadKey \notin Keys /\ Missing \notin Keys /\ BadKey # Missing

VARIABLES rows, lamports, calls, txs, signed, executed, transfer, covered

walletVars == <<lamports, signed, executed, transfer>>
handedOut == <<txs, covered>>
apiVars == <<calls, handedOut>>
vars == <<chainVars, rows, walletVars, apiVars>>

Mir == INSTANCE Mirror WITH history <- history, rows <- rows

ASSUME MissingIsNoRow == Missing \notin Mir!Row

Message == [kind : {"register", "wallet"}, tag : Tags, owner : Keys,
            wallet : Keys, payer : Keys, expiry : Nat]

Call ==
  [pc : {"idle"}]
    \cup [pc : {"gated", "guarded", "reread"}, wish : Wishes]
    \cup [pc : {"built"}, wish : Wishes, tx : Message]
    \cup [pc : {"done"}, wish : Wishes, code : {200, 400, 402, 403, 404, 409, 500}]

TypeOK ==
  /\ ChainTypeOK
  /\ rows \in [Tags -> Mir!Row \cup {Missing}]
  /\ lamports \in [Keys -> Nat]
  /\ calls \in [Requests -> Call]
  /\ txs \subseteq Message
  /\ signed \subseteq txs \X Keys
  /\ executed \subseteq txs
  /\ transfer \in [tag : Tags, signer : Keys, newOwner : Keys] \cup {Missing}
  /\ covered \subseteq txs

Init ==
  /\ ChainInit
  /\ rows = NoAccounts
  /\ lamports \in Balances
  /\ calls = [r \in Requests |-> [pc |-> "idle"]]
  /\ txs = {} /\ signed = {} /\ executed = {}
  /\ transfer = Missing /\ covered = {}

-----------------------------------------------------------------------------
\* A call waits for the database or the RPC node; nothing else of it changes.
To(r, call) == calls' = [calls EXCEPT ![r] = call]
Answer(r, w, code) == To(r, [pc |-> "done", wish |-> w, code |-> code])
At(r, pc) == calls[r].pc = pc

\* Why a tag cannot be claimed: the moderation gate, then any row at all.
NamingGate_ActiveOnly(t) ==
  CASE t \in Reserved -> "reserved"
    [] t \in Profane \ Reserved -> "inappropriate"
    [] OTHER -> IF rows[t] # Missing /\ rows[t].status = "active"
                THEN "already_registered" ELSE "available"
NamingGate(t) ==
  CASE t \in Reserved -> "reserved"
    [] t \in Profane \ Reserved -> "inappropriate"
    [] OTHER -> IF rows[t] # Missing THEN "already_registered" ELSE "available"

OrOwner(key, w) == IF key = Missing THEN w.owner ELSE key

\* register(): gate, then the addresses, then the request for a blockhash.
Register(r, w) ==
  /\ At(r, "idle") /\ w.kind = "register"
  /\ CASE NamingGate(w.tag) = "already_registered" -> Answer(r, w, 409)
       [] NamingGate(w.tag) \in {"reserved", "inappropriate"} -> Answer(r, w, 403)
       [] NamingGate(w.tag) = "available" /\ BadKey \in {w.wallet, w.payer} -> Answer(r, w, 400)
       [] OTHER -> To(r, [pc |-> "gated", wish |-> w])
  /\ UNCHANGED <<chainVars, rows, walletVars, handedOut>>

\* The blockhash is of a finalized slot.
BuildRegister_IgnoresWallet(w) ==
  [kind |-> "register", tag |-> w.tag, owner |-> w.owner, wallet |-> w.owner,
   payer |-> OrOwner(w.payer, w), expiry |-> FinalSlot + Validity]
BuildRegister(w) ==
  [kind |-> "register", tag |-> w.tag, owner |-> w.owner, wallet |-> OrOwner(w.wallet, w),
   payer |-> OrOwner(w.payer, w), expiry |-> FinalSlot + Validity]
BuildUpdateWallet(w) ==
  [kind |-> "wallet", tag |-> w.tag, owner |-> w.owner, wallet |-> w.wallet,
   payer |-> w.owner, expiry |-> FinalSlot + Validity]

\* owner and payer are signers; one signature serves both when they are one.
Signers(tx) == {tx.owner, tx.payer}

Fees(tx) == Fee * Cardinality(Signers(tx))
Cost(tx) == Fees(tx) + IF tx.kind = "register" THEN Rent ELSE 0

GetBlockhash(r) ==
  /\ At(r, "gated")
  /\ To(r, [pc |-> "built", wish |-> calls[r].wish, tx |-> BuildRegister(calls[r].wish)])
  /\ UNCHANGED <<chainVars, rows, walletVars, handedOut>>

HandOut(r, tx) ==
  /\ txs' = txs \cup {tx}
  /\ Answer(r, calls[r].wish, 200)

\* External: the chain leaves no key a balance between nothing and the exemption
\* from rent.
LeavesNoDust(tx, amount) == lamports[tx.payer] - amount \notin 1 .. Exempt - 1

\* checkSufficientBalance: the fee of the message, or one signature when the
\* node cannot tell, and the balance of whoever pays.
EstimatedFees(tx, named) == IF named THEN Fees(tx) ELSE Fee
Sufficient_OwnerPays(tx, named) == lamports[tx.owner] >= Rent + EstimatedFees(tx, named)
Sufficient(tx, named) == lamports[tx.payer] >= Rent + EstimatedFees(tx, named)

HandOutPaid(r, tx, named) ==
  /\ HandOut(r, tx)
  /\ covered' = IF named /\ LeavesNoDust(tx, Cost(tx)) THEN covered \cup {tx} ELSE covered

InsufficientBalance(r) == Answer(r, calls[r].wish, 402) /\ UNCHANGED handedOut

CheckBalance(r) ==
  /\ At(r, "built")
  /\ \E named \in BOOLEAN :
       IF Sufficient(calls[r].tx, named) THEN HandOutPaid(r, calls[r].tx, named)
                                         ELSE InsufficientBalance(r)
  /\ UNCHANGED <<chainVars, rows, walletVars>>

\* TagOwnershipGuard and, once more, WalletUpdateService: what the row says.
RowRefusal_ComparesWallet(w) ==
  CASE rows[w.tag] = Missing -> 404
    [] rows[w.tag] # Missing /\ rows[w.tag].status = "blocked" -> 404
    [] OTHER -> IF rows[w.tag].wallet # w.owner THEN 403 ELSE 200
RowRefusal(w) ==
  CASE rows[w.tag] = Missing -> 404
    [] rows[w.tag] # Missing /\ rows[w.tag].status = "blocked" -> 404
    [] OTHER -> IF rows[w.tag].owner # w.owner THEN 403 ELSE 200

Guard(r, w) ==
  /\ At(r, "idle") /\ w.kind = "wallet"
  /\ IF RowRefusal(w) = 200 THEN To(r, [pc |-> "guarded", wish |-> w])
                            ELSE Answer(r, w, RowRefusal(w))
  /\ UNCHANGED <<chainVars, rows, walletVars, handedOut>>

Reread_AnyWallet(r) ==
  /\ At(r, "guarded")
  /\ LET w == calls[r].wish IN
       IF RowRefusal(w) # 200 THEN Answer(r, w, RowRefusal(w))
                              ELSE To(r, [pc |-> "reread", wish |-> w])
  /\ UNCHANGED <<chainVars, rows, walletVars, handedOut>>
Reread(r) ==
  /\ At(r, "guarded")
  /\ LET w == calls[r].wish IN
       CASE RowRefusal(w) # 200 -> Answer(r, w, RowRefusal(w))
         [] RowRefusal(w) = 200 /\ w.wallet \notin Keys -> Answer(r, w, 400)
         [] OTHER -> To(r, [pc |-> "reread", wish |-> w])
  /\ UNCHANGED <<chainVars, rows, walletVars, handedOut>>

BuildWallet(r) ==
  /\ At(r, "reread")
  /\ HandOut(r, BuildUpdateWallet(calls[r].wish))
  /\ UNCHANGED <<chainVars, rows, walletVars, covered>>

\* A database or RPC call rejects: the exception filter answers 500.
CallFails(r) ==
  /\ calls[r].pc \notin {"idle", "done"}
  /\ Answer(r, calls[r].wish, 500)
  /\ UNCHANGED <<chainVars, rows, walletVars, handedOut>>

-----------------------------------------------------------------------------
\* The wallets.  signAndSendTransaction makes one signature and submits; the
\* second one of a sponsored registration is made elsewhere.
Sign(tx, key) ==
  /\ key \in Signers(tx)
  /\ signed' = signed \cup {<<tx, key>>}
  /\ UNCHANGED <<chainVars, rows, lamports, executed, transfer, apiVars>>

\* The cluster takes a message once, with all its signatures, while its
\* blockhash is valid and its payer can pay.
Processable(tx) ==
  /\ tx \notin executed
  /\ \A key \in Signers(tx) : <<tx, key>> \in signed
  /\ FinalSlot <= tx.expiry
  /\ lamports[tx.payer] >= Fees(tx) /\ LeavesNoDust(tx, Fees(tx))
Charge(tx, amount) ==
  /\ lamports' = [lamports EXCEPT ![tx.payer] = @ - amount]
  /\ covered' = {c \in covered : c.payer # tx.payer}

Affordable(tx) == lamports[tx.payer] >= Cost(tx) /\ LeavesNoDust(tx, Cost(tx))

\* Every instruction of the message succeeds.
Effect(tx) ==
  IF tx.kind = "wallet" THEN UpdateWallet(tx.tag, tx.owner, tx.wallet)
  ELSE /\ Affordable(tx)
       /\ \/ tx.wallet = tx.owner /\ RegisterTag(tx.tag, tx.owner)
          \/ RegisterWithWallet(tx.tag, tx.owner, tx.wallet)

Land(tx) ==
  /\ Processable(tx)
  /\ Effect(tx)
  /\ Charge(tx, Cost(tx))
  /\ executed' = executed \cup {tx}
  /\ UNCHANGED <<rows, signed, transfer, calls, txs>>

\* An instruction fails: the accounts stay, the fee is gone.
LandInVain(tx) ==
  /\ ChainRunning
  /\ Processable(tx)
  /\ IF tx.kind = "wallet" THEN ~HasOneOwner(tx.tag, tx.owner)
     ELSE bank[tx.tag] # Missing \/ ~Affordable(tx)
  /\ Charge(tx, Fees(tx))
  /\ executed' = executed \cup {tx}
  /\ UNCHANGED <<chainVars, rows, signed, transfer, calls, txs>>

\* transfer_ownership has no builder in apps/api: an owner sends it directly.
Transfer(t, signer, newOwner) ==
  /\ TransferOwnership(t, signer, newOwner)
  /\ bank' # bank
  /\ transfer' = [tag |-> t, signer |-> signer, newOwner |-> newOwner]
  /\ UNCHANGED <<rows, lamports, signed, executed, apiVars>>

\* A slot is finalized, and messages whose blockhash is too old are void.
Finalize ==
  /\ FinalizeSlot
  /\ LET valid == {tx \in txs : tx.expiry > FinalSlot} IN
       /\ txs' = valid
       /\ signed' = {s \in signed : s[1] \in valid}
       /\ executed' = executed \cap valid
       /\ covered' = covered \cap valid
  /\ transfer' = Missing
  /\ UNCHANGED <<rows, lamports, calls>>

-----------------------------------------------------------------------------
\* The indexer mirrors a finalized slot; a moderator blocks a row by hand.
Mirrored(t) ==
  /\ Mir!MoveForward(t)
  /\ rows' # rows
  /\ UNCHANGED <<bank, walletVars, apiVars>>

ModeratorBlocks(t) ==
  /\ Mir!Block(t)
  /\ rows' # rows
  /\ UNCHANGED <<bank, walletVars, apiVars>>

-----------------------------------------------------------------------------
Api(r) ==
  \/ \E w \in Wishes : Register(r, w) \/ Guard(r, w)
  \/ GetBlockhash(r) \/ CheckBalance(r) \/ Reread(r) \/ BuildWallet(r) \/ CallFails(r)

Next ==
  \/ \E r \in Requests : Api(r)
  \/ \E tx \in txs : Land(tx) \/ LandInVain(tx) \/ \E key \in Keys : Sign(tx, key)
  \/ \E t \in Tags, signer, newOwner \in Keys : Transfer(t, signer, newOwner)
  \/ Finalize
  \/ \E t \in Tags : Mirrored(t) \/ ModeratorBlocks(t)

Spec == Init /\ [][Next]_vars

-----------------------------------------------------------------------------
\* An account that exists changes in two ways only: its owner of this moment signs
\* it away, or its wallet becomes one that this owner has asked apps/api for, in
\* a wallet update of this tag that was answered, and has signed.  A registration
\* built before the tag was taken, or a wallet update built before it was handed
\* on, changes nothing.
OwnedChange(t) ==
  \/ /\ bank'[t] = [bank[t] EXCEPT !.owner = bank'[t].owner]
     /\ transfer' = [tag |-> t, signer |-> bank[t].owner, newOwner |-> bank'[t].owner]
  \/ /\ bank'[t] = [bank[t] EXCEPT !.wallet = bank'[t].wallet]
     /\ \E tx \in executed' \ executed :
          /\ tx.tag = t /\ tx.kind = "wallet" /\ tx.wallet = bank'[t].wallet
          /\ <<tx, bank[t].owner>> \in signed
          /\ \E r \in Requests :
               /\ At(r, "done") /\ calls[r].code = 200
               /\ calls[r].wish = [kind |-> "wallet", tag |-> t,
                                   owner |-> bank[t].owner, wallet |-> tx.wallet]
AccountsObeyOwners ==
  [][\A t \in Tags : bank[t] # Missing /\ bank'[t] # bank[t] => OwnedChange(t)]_vars

\* A tag appears on chain exactly as one caller wished it: its owner, and its
\* wallet from the first moment on, and the payer it names has signed.
Granted(t, r) ==
  /\ At(r, "done") /\ calls[r].code = 200
  /\ LET w == calls[r].wish IN
       /\ w.kind = "register" /\ w.tag = t
       /\ bank'[t] = [owner |-> w.owner, wallet |-> OrOwner(w.wallet, w)]
       /\ \A key \in Keys : lamports'[key] < lamports[key] =>
            key = OrOwner(w.payer, w) /\ \E tx \in txs : <<tx, key>> \in signed
LandsAsAsked ==
  [][\A t \in Tags : bank[t] = Missing /\ bank'[t] # Missing =>
       \E r \in Requests : Granted(t, r)]_vars

\* A refusal was true of some finalized slot, however late the mirror is: 409
\* of a tag that was registered, 403 of a caller who was not its owner.
RefusalsTrue ==
  \A r \in Requests : At(r, "done") =>
    LET w == calls[r].wish IN
      /\ calls[r].code = 409 => \E s \in 1 .. FinalSlot : history[s][w.tag] # Missing
      /\ calls[r].code = 403 /\ w.kind = "wallet" =>
           \E s \in 1 .. FinalSlot : history[s][w.tag] # Missing
                                     /\ history[s][w.tag].owner # w.owner

\* A tag the gate refuses is refused for ever: neither a transfer nor a block,
\* by hand or by the backfill, makes it available again.
NeverFreeAgain ==
  [][\A t \in Tags : NamingGate(t) # "available" => NamingGate(t)' # "available"]_vars

\* A registration handed out on a fee the node named does not fail for want of
\* lamports, unless its payer has paid for something since, or would be left with
\* dust: processed while the tag is free, it registers it, whoever of its signers
\* pays, and the 402 (rent-check.ts) has come in time.
CoveredRegistrationsLand ==
  [][\A tx \in covered \cap (executed' \ executed) :
       bank[tx.tag] = Missing => bank'[tx.tag] # Missing]_vars
=============================================================================
