---------------------------- MODULE AccountCodec ----------------------------
(***************************************************************************)
(* The bytes of a TagAccount: what register_tag writes and what            *)
(* decodeTagAccount of packages/core reads, in the indexer, in the chain   *)
(* fallback of the API and in the SDK.  A byte is a natural number; the    *)
(* characters of a tag are the bytes in CodeOf.  Discriminator, owner and  *)
(* wallet are one byte each here, where the code has 8, 32 and 32.         *)
(***************************************************************************)
EXTENDS TagText

CONSTANTS
  CodeOf,          \* character -> byte, never 0
  Discriminator,   \* TAG_ACCOUNT_DISCRIMINATOR
  KeyBytes, Bumps, \* the bytes of public keys and of bumps
  MoreBytes        \* the bytes but 0 a damaged buffer may hold in its tag

\* Bytes tell the characters apart, and none of them is the padding.
ASSUME CodesAreDistinct ==
  /\ Canonical \subseteq DOMAIN CodeOf /\ DOMAIN CodeOf \subseteq Char
  /\ \A c \in DOMAIN CodeOf : CodeOf[c] \in Nat \ {0}
  /\ \A c, e \in DOMAIN CodeOf : CodeOf[c] = CodeOf[e] => c = e
ASSUME BytesAreNatural == MoreBytes \subseteq Nat

OwnerAt == 2
WalletAt == 3
TagAt == 4
TagLenAt == TagAt + MaxTag
BumpAt == TagLenAt + 1
Size == BumpAt

Decoded(owner, wallet, tag, bump) ==
  [ok |-> TRUE, owner |-> owner, wallet |-> wallet, tag |-> tag, bump |-> bump]

\* TagAccountDecodeError: every refusal has its reason.
Undecodable(reason) == Refused(reason)

CharOf(byte) == CHOOSE char \in DOMAIN CodeOf : CodeOf[char] = byte
IsText(bytes) == \A i \in DOMAIN bytes : \E char \in DOMAIN CodeOf : CodeOf[char] = bytes[i]

\* register_tag: the tag is copied into a zeroed buffer.
Encode(owner, wallet, tag, bump) ==
  <<Discriminator, owner, wallet>>
    \o [i \in 1 .. MaxTag |-> IF i <= Len(tag) THEN CodeOf[tag[i]] ELSE 0]
    \o <<Len(tag), bump>>

HasDiscriminator(data) == data[1] = Discriminator

PaddingIsZero_NotChecked(data, tagLen) == tagLen <= MaxTag
PaddingIsZero(data, tagLen) == \A i \in tagLen + 1 .. MaxTag : data[TagAt + i - 1] = 0

\* The stored text, which has to be canonical as it is; a byte that is no
\* character normalizeTag knows is refused with it.
StoredTag(data, tagLen) ==
  LET bytes == SubSeq(data, TagAt, TagAt + tagLen - 1)
      raw == [i \in DOMAIN bytes |-> CharOf(bytes[i])]
  IN IF ~IsText(bytes) THEN Undecodable("NON_CANONICAL_TAG")
     ELSE IF NormalizeTag(raw) = Accepted(raw) THEN Accepted(raw)
     ELSE Undecodable("NON_CANONICAL_TAG")

DecodeTagAccount(data) ==
  IF Len(data) # Size THEN Undecodable("INVALID_LENGTH")
  ELSE IF ~HasDiscriminator(data) THEN Undecodable("DISCRIMINATOR_MISMATCH")
  ELSE LET tagLen == data[TagLenAt] IN
    IF tagLen > MaxTag THEN Undecodable("INVALID_LENGTH")
    ELSE IF ~PaddingIsZero(data, tagLen) THEN Undecodable("INVALID_PADDING")
    ELSE LET stored == StoredTag(data, tagLen) IN
      IF stored.ok THEN Decoded(data[OwnerAt], data[WalletAt], stored.tag, data[BumpAt])
                   ELSE stored

\* packages/sdk resolveOnChainAccount: no account, or one that cannot be
\* decoded, is null.
ResolveOnChain(data) ==
  IF data = <<>> \/ ~DecodeTagAccount(data).ok THEN Refused("null") ELSE DecodeTagAccount(data)

-----------------------------------------------------------------------------
Bytes == {0} \cup MoreBytes
CanonicalTags == {s \in BoundedSeq(Canonical, MaxTag) : ValidOnChain(s)}

\* Buffers that differ from an account in any byte of the tag, its length or
\* the discriminator, or that are too short.
Damaged(o, w, p) ==
  {<<d, o, w>> \o tag \o <<n, p>> :
     d \in {Discriminator, 0}, tag \in [1 .. MaxTag -> Bytes], n \in 0 .. MaxTag + 1}
  \cup {SubSeq(Encode(o, w, tag, p), 1, n) : tag \in CanonicalTags, n \in 0 .. Size}

\* Whatever the program writes is read back as it was, and nothing else is
\* read: a buffer that decodes is the one the program writes for the account
\* it decodes to, so no two buffers stand for one account.
DecodeInvertsEncode ==
  /\ \A owner, wallet \in KeyBytes, bump \in Bumps :
       \A tag \in CanonicalTags :
         ResolveOnChain(Encode(owner, wallet, tag, bump)) = Decoded(owner, wallet, tag, bump)
  /\ \A owner, wallet \in KeyBytes, bump \in Bumps : owner # wallet =>
     \A data \in Damaged(owner, wallet, bump) :
       LET d == ResolveOnChain(data) IN
         d.ok => data = Encode(d.owner, d.wallet, d.tag, d.bump) /\ ValidOnChain(d.tag)
=============================================================================
