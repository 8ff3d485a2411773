----------------------------- MODULE MCIndexer -----------------------------
(* Instances of the indexer for TLC.                                       *)
EXTENDS Indexer, TLC

\* Public keys are only ever compared with one another.
KeySymmetry == Permutations(Keys)

\* TLC's symmetry reduction is unsound for liveness, but renaming the keys of
\* a whole behaviour is not: every behaviour is one of those below under other
\* names, as long as there is one tag, whose first finalized account has one owner.
FirstOwner == CHOOSE k \in Keys : TRUE

LiveNext ==
  /\ Next
  /\ \A t \in Tags :
       Finalized[t] = Missing /\ Finalized'[t] # Missing => Finalized'[t].owner = FirstOwner

LiveSpec == Init /\ [][LiveNext]_vars /\ Fairness
=============================================================================
