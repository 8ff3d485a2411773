---------------------------- MODULE MCDirectory ----------------------------
\* Texts over five letters, one blocked term and one allowed name; three tags,
\* one of which is the term in disguise; PATCHes of one of them.
EXTENDS Directory, TLC

CONSTANTS a, b

Symmetry == Permutations(Patches)

lil == <<"l", "i", "l">>
lili == <<"l", "i", "l", "i">>
l1b == <<"l", "1", "b">>

MCLowerOf == ("L" :> "l") @@ ("K" :> "i")
MCStandsFor == "1" :> <<"i", "l">>
MCTerms == {<<"l", "i", "b">>}
MCAllowlist == {<<"l", "i", "b", "i">>}
MCReserved == {<<"b", "i">>}
MCCodeOf == ("l" :> 3) @@ ("i" :> 4) @@ ("b" :> 5) @@ ("1" :> 6) @@ ("_" :> 7) @@ ("L" :> 8)

MCTags == {lil, lili, l1b}

Ask(caller, body) == [tag |-> lili, caller |-> caller, body |-> body]
MCAsks ==
  {Ask(a, "displayName" :> <<" ", "L", "i", "l">>),
   Ask(a, ("displayName" :> Null) @@ ("avatar" :> <<"b">>)),
   Ask(a, "bio" :> <<"L", "1", "b">>),
   Ask(a, "displayName" :> <<" ">>),
   Ask(b, "bio" :> <<"b">>)}

MCQueries == {<<"l">>, <<" ", "L", "i", "l">>, <<"@", "l">>}
=============================================================================
