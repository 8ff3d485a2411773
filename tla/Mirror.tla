------------------------------- MODULE Mirror -------------------------------
(***************************************************************************)
(* What the off-chain mirror promises, whatever the indexer does to keep   *)
(* it: the row of a tag only ever holds the account that some finalized    *)
(* slot held, together with that slot's number; it moves forward in slots  *)
(* and never backward, it is never deleted, and a blocked row is never     *)
(* made active again.                                                      *)
(***************************************************************************)
EXTENDS TagAccounts, Integers, Sequences

CONSTANT Profane   \* the tags the moderation gate blocks

VARIABLES history, rows

Status == {"active", "blocked"}

\* The columns of an identity row that come from the chain, and the
\* moderation status.  The profile columns belong to apps/api.
Row == [owner : Keys, wallet : Keys, slot : Nat, status : Status]

\* The row that mirrors tag t as finalized slot s left it.
SnapshotRow(t, s, status) ==
  [owner |-> history[s][t].owner, wallet |-> history[s][t].wallet,
   slot |-> s, status |-> status]

\* The status a write may leave: never from blocked back to active, and
\* always blocked for a tag the gate blocks.
MayBecome(t, status) ==
  /\ status \in Status
  /\ t \in Profane => status = "blocked"
  /\ (rows[t] # Missing /\ rows[t].status = "blocked") => status = "blocked"

Init ==
  /\ history = <<NoAccounts>>
  /\ rows = NoAccounts

\* A slot is finalized: accounts change or appear, none disappears.
Grow ==
  /\ \E ledger \in Ledger :
       /\ \A t \in Tags : history[Len(history)][t] # Missing => ledger[t] # Missing
       /\ history' = Append(history, ledger)
  /\ UNCHANGED rows

\* The row of t moves to a slot not older than the one it mirrors.
MoveForward(t) ==
  \E s \in 1 .. Len(history), status \in Status :
    /\ history[s][t] # Missing
    /\ rows[t] # Missing => rows[t].slot <= s
    /\ MayBecome(t, status)
    /\ rows' = [rows EXCEPT ![t] = SnapshotRow(t, s, status)]
    /\ UNCHANGED history

\* A moderator blocks an active row.
Block(t) ==
  /\ rows[t] # Missing
  /\ rows' = [rows EXCEPT ![t].status = "blocked"]
  /\ UNCHANGED history

Next == Grow \/ \E t \in Tags : MoveForward(t) \/ Block(t)

Spec == Init /\ [][Next]_<<history, rows>>
=============================================================================
