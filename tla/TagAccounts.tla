---------------------------- MODULE TagAccounts ----------------------------
(***************************************************************************)
(* The data every part of the protocol shares: the tag accounts that the   *)
(* tip_registry program keeps on chain.  A tag name is a model value: the  *)
(* elements of Tags are the names validate_tag accepts.  A public key is a *)
(* model value too, and Missing stands for "no account" or "no row".       *)
(***************************************************************************)
CONSTANTS
  Tags,     \* canonical tag names
  Keys,     \* public keys: owners and payment wallets
  Missing   \* no account at a tag's address, no row for a tag

\* The fields of TagAccount a reader can tell apart.  The tag itself is the
\* index, tag_len and bump are functions of it.
Account == [owner : Keys, wallet : Keys]

\* The state of every tag account at one moment.
Ledger == [Tags -> Account \cup {Missing}]

ASSUME MissingIsNoAccount == Missing \notin Account

NoAccounts == [t \in Tags |-> Missing]
=============================================================================
