------------------------------ MODULE TagText ------------------------------
(***************************************************************************)
(* The rules about the text of a tag: packages/core normalizes what a user *)
(* types, the program on chain validates what a transaction carries, and   *)
(* packages/moderation looks for blocked terms behind their disguises.     *)
(* A text is a sequence of characters; the alphabet and the lists are      *)
(* constants, so that small ones can be checked exhaustively.              *)
(***************************************************************************)
EXTENDS Integers, SequencesExt

CONSTANTS
  Canonical,      \* the characters of ALLOWED_TAG_CHARACTERS_PATTERN
  Other,          \* further characters a user may type
  LowerOf,        \* toLowerCase on those that have another lower case
  MinTag, MaxTag, \* MIN_TAG_LENGTH, MAX_TAG_LENGTH
  StandsFor,      \* LEETSPEAK_SUBSTITUTIONS: digit -> sequence of letters
  MaxVariants,    \* MAX_VARIANTS
  Terms,          \* what the profanity engine and EXTRA_BLOCKED_TERMS hold
  Allowlist,      \* ALLOWLIST
  Reserved        \* RESERVED_TAGS

At == "@"
Char == Canonical \cup Other \cup {At}

ASSUME LengthsAreOrdered == MaxTag \in Nat /\ MinTag \in 1 .. MaxTag
ASSUME SubstitutesAreLetters ==
  \A char \in DOMAIN StandsFor : StandsFor[char] \in Seq(Canonical) \ {<<>>}
ASSUME CapIsPositive == MaxVariants \in Nat \ {0}
ASSUME CanonicalIsLower ==
  At \notin Canonical /\ (Canonical \cup {At}) \cap DOMAIN LowerOf = {}

Lower(text) == [i \in DOMAIN text |->
                  IF text[i] \in DOMAIN LowerOf THEN LowerOf[text[i]] ELSE text[i]]

-----------------------------------------------------------------------------
\* packages/core normalizeTag: the first rule that refuses decides.
Refused(reason) == [ok |-> FALSE, reason |-> reason]
Accepted(tag) == [ok |-> TRUE, tag |-> tag]

Strip(raw) == IF raw[1] = At THEN Tail(raw) ELSE raw

\* The rules on the stripped, lowered text.
Judge_NoMinimum(text) ==
  IF text = <<>> THEN Refused("EMPTY")
  ELSE IF Len(text) > MaxTag THEN Refused("TOO_LONG")
  ELSE IF ~(ToSet(text) \subseteq Canonical) THEN Refused("INVALID_CHAR")
  ELSE Accepted(text)
Judge(text) ==
  IF text = <<>> THEN Refused("EMPTY")
  ELSE IF Len(text) < MinTag THEN Refused("TOO_SHORT")
  ELSE IF Len(text) > MaxTag THEN Refused("TOO_LONG")
  ELSE IF ~(ToSet(text) \subseteq Canonical) THEN Refused("INVALID_CHAR")
  ELSE Accepted(text)

NormalizeTag(raw) ==
  IF raw = <<>> THEN Refused("EMPTY")
  ELSE IF \E i \in 2 .. Len(raw) : raw[i] = At THEN Refused("BAD_AT")
  ELSE Judge(Lower(Strip(raw)))

\* programs/tip-registry validate_canonical_tag: accepts or rejects, never
\* transforms.  A canonical character is one byte.
ValidOnChain(tag) == Len(tag) \in MinTag .. MaxTag /\ ToSet(tag) \subseteq Canonical

\* packages/core buildTagSeeds: its guard, which a normalized tag passes.
SeedsOf(tag) == IF Len(tag) <= MaxTag THEN <<"tag", tag>> ELSE <<>>

-----------------------------------------------------------------------------
\* packages/moderation leetspeak.ts
Options(char) == IF char \in DOMAIN StandsFor THEN StandsFor[char] ELSE <<char>>

\* Every variant with every option of the next character, in this order, as
\* far as the cap lets the two loops run.
Extend_FirstOption(variants, char) ==
  [k \in 1 .. Len(variants) |-> Append(variants[k], Options(char)[1])]
Extend(variants, char) ==
  LET n == Len(Options(char))
      all == Len(variants) * n
  IN [k \in 1 .. (IF all < MaxVariants THEN all ELSE MaxVariants) |->
        Append(variants[((k - 1) \div n) + 1], Options(char)[((k - 1) % n) + 1])]

\* A run of one character becomes one character.
Collapse(text) ==
  FoldLeft(LAMBDA short, char :
             IF short # <<>> /\ Last(short) = char THEN short ELSE Append(short, char),
           <<>>, text)

\* What is left of every prefix of a text when its underscores are stripped.
Kept(text) ==
  LET kept[n \in 0 .. Len(text)] ==
        IF n = 0 THEN <<>>
        ELSE IF text[n] = "_" THEN kept[n - 1] ELSE Append(kept[n - 1], text[n])
  IN kept
Prepared(tag) == LET text == Lower(tag) IN Kept(text)[Len(text)]

\* The variants of every prefix of a prepared text, in the order of the loops.
Expanded(text) ==
  LET variants[n \in 0 .. Len(text)] ==
        IF n = 0 THEN << <<>> >> ELSE Extend(variants[n - 1], text[n])
  IN variants

Variants(tag) == LET p == Prepared(tag) IN {Collapse(v) : v \in ToSet(Expanded(p)[Len(p)])}

\* External: the @2toad/profanity engine without whole-word matching.
Includes(text, term) ==
  \E i \in 0 .. Len(text) - Len(term) : SubSeq(text, i + 1, i + Len(term)) = term
ContainsBlockedContent(text) == \E term \in Terms : Includes(text, term)

IsBlockedName(text) ==
  /\ Lower(text) \notin Allowlist
  /\ \/ ContainsBlockedContent(Lower(text))
     \/ \E v \in Variants(Lower(text)) : ContainsBlockedContent(v)

IsReserved(tag) == tag \in Reserved

\* packages/moderation gate.ts: reserved names first.
ModerationGate(tag) ==
  IF IsReserved(tag) THEN "reserved"
  ELSE IF IsBlockedName(tag) THEN "inappropriate" ELSE "allowed"

-----------------------------------------------------------------------------
Texts(n) == BoundedSeq(Char, n)

\* The client and the chain agree on what a tag is: what normalizeTag returns
\* is a fixed point of it that the program accepts and that gives seeds, and
\* whatever the program accepts can be typed, with or without "@".  A second
\* spelling of a tag can only differ in the "@" and in case.
ClientAndChainAgree ==
  \A raw \in Texts(MaxTag + 1) :
    LET n == NormalizeTag(raw) IN
      /\ n.ok => /\ ValidOnChain(n.tag)
                 /\ NormalizeTag(n.tag) = n
                 /\ SeedsOf(n.tag) # <<>>
                 /\ Lower(raw) \in {n.tag, <<At>> \o n.tag}
      /\ ValidOnChain(raw) => n = Accepted(raw) /\ NormalizeTag(<<At>> \o raw) = n
      /\ ~n.ok => ~ValidOnChain(Lower(raw))

\* What a tag may be read as: some letter for every digit, no underscores, no
\* runs.
Readings(tag) ==
  LET p == Prepared(tag) IN
    {Collapse(r) : r \in {f \in BoundedSeq(Canonical, Len(p)) :
       Len(f) = Len(p) /\ \A i \in DOMAIN p : f[i] \in ToSet(Options(p[i]))}}

\* The number of readings every prefix of a prepared text has before runs are
\* collapsed.
Ambiguities(text) ==
  LET ambiguity[n \in 0 .. Len(text)] ==
        IF n = 0 THEN 1 ELSE ambiguity[n - 1] * Len(Options(text[n]))
  IN ambiguity
Ambiguity(tag) == LET p == Prepared(tag) IN Ambiguities(p)[Len(p)]

\* A tag is blocked exactly if it, or something it may be read as, contains a
\* blocked term and it is not allowed by name; if it has more readings than
\* MAX_VARIANTS, it may pass, but is still never blocked without a reason.
GateIsExact ==
  \A tag \in BoundedSeq(Canonical, MaxTag) :
    LET disguised == \E r \in Readings(tag) \cup {tag} : ContainsBlockedContent(r)
    IN /\ IsBlockedName(tag) => disguised /\ tag \notin Allowlist
       /\ (disguised /\ tag \notin Allowlist /\ Ambiguity(tag) <= MaxVariants) =>
            ModerationGate(tag) # "allowed"
=============================================================================
