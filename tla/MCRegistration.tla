--------------------------- MODULE MCRegistration ---------------------------
\* Two keys, a tag anybody may have and one the gate refuses.
EXTENDS Registration, TLC

CONSTANTS a, b, fresh, rude

Symmetry == Permutations(Requests)

Reg(owner, wallet, payer) ==
  [kind |-> "register", tag |-> fresh, owner |-> owner, wallet |-> wallet, payer |-> payer]
Upd(tag, owner, wallet) ==
  [kind |-> "wallet", tag |-> tag, owner |-> owner, wallet |-> wallet]

MCWishes == {Reg(a, b, Missing), Reg(b, Missing, a), Reg(a, Missing, b), Reg(a, BadKey, Missing),
             [Reg(a, b, Missing) EXCEPT !.tag = rude],
             Upd(fresh, a, a), Upd(fresh, a, BadKey), Upd(fresh, b, b)}

\* Alone, either key can pay for itself.  a can sponsor b, and b can sponsor a
\* only if the fee of the second signature is not known.  Or b holds one lamport
\* more, and paying for itself would leave it with dust.
MCBalances == {(a :> 7) @@ (b :> 5), (a :> 7) @@ (b :> 6)}
=============================================================================
