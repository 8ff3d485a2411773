---------------------------- MODULE TagRegistry ----------------------------
(***************************************************************************)
(* The tip_registry program as its off-chain readers see it: instructions  *)
(* change the accounts of the slot being built, and a finalized slot is a  *)
(* snapshot of all accounts that never changes again.                      *)
(*                                                                         *)
(*   bank      the accounts in the slot being built                        *)
(*   history   history[s] is the accounts at the end of finalized slot s   *)
(*                                                                         *)
(* Several transactions may land in one slot, and only the last state of   *)
(* an account in a slot is ever observable from outside.                   *)
(***************************************************************************)
EXTENDS TagAccounts, Integers, Sequences

CONSTANT MaxSlot   \* bound: no transaction lands after this slot is finalized

ASSUME MaxSlotIsPositive == MaxSlot \in Nat \ {0}

VARIABLES bank, history

chainVars == <<bank, history>>

FinalSlot == Len(history)
Finalized == history[FinalSlot]

ChainInit ==
  /\ bank = NoAccounts
  /\ history = <<NoAccounts>>

ChainTypeOK ==
  /\ bank \in Ledger
  /\ history \in Seq(Ledger)
  /\ FinalSlot >= 1

ChainRunning == FinalSlot < MaxSlot

-----------------------------------------------------------------------------
\* register_tag: the account is created with `init`, which fails when it
\* already exists.  The owner signs and is the first wallet.
RegisterTag(t, owner) ==
  /\ ChainRunning
  /\ bank[t] = Missing
  /\ bank' = [bank EXCEPT ![t] = [owner |-> owner, wallet |-> owner]]
  /\ UNCHANGED history

\* has_one = owner: the account exists and its owner is the signer.
HasOneOwner(t, signer) == bank[t] # Missing /\ bank[t].owner = signer

UpdateWallet(t, signer, wallet) ==
  /\ ChainRunning
  /\ HasOneOwner(t, signer)
  /\ bank' = [bank EXCEPT ![t].wallet = wallet]
  /\ UNCHANGED history

TransferOwnership_AnySigner(t, signer, newOwner) ==
  /\ ChainRunning
  /\ bank[t] # Missing
  /\ bank' = [bank EXCEPT ![t].owner = newOwner]
  /\ UNCHANGED history
TransferOwnership(t, signer, newOwner) ==
  /\ ChainRunning
  /\ HasOneOwner(t, signer)
  /\ bank' = [bank EXCEPT ![t].owner = newOwner]
  /\ UNCHANGED history

\* The registration transaction apps/api builds when the wallet differs from
\* the owner: register_tag then update_wallet, both or neither.
RegisterWithWallet(t, owner, wallet) ==
  /\ ChainRunning
  /\ bank[t] = Missing
  /\ wallet # owner
  /\ bank' = [bank EXCEPT ![t] = [owner |-> owner, wallet |-> wallet]]
  /\ UNCHANGED history

Transaction ==
  \E t \in Tags, signer, key \in Keys :
    \/ RegisterTag(t, signer)
    \/ RegisterWithWallet(t, signer, key)
    \/ UpdateWallet(t, signer, key)
    \/ TransferOwnership(t, signer, key)

\* External: the cluster finalizes the slot being built.
FinalizeSlot ==
  /\ ChainRunning
  /\ history' = Append(history, bank)
  /\ UNCHANGED bank

\* The program has no close instruction: an account of the last finalized
\* slot is still there.
NoAccountLost == \A t \in Tags : Finalized[t] # Missing => bank[t] # Missing

\* The tags whose account the slot being built has changed.
Touched == {t \in Tags : bank[t] # Finalized[t]}
=============================================================================
