------------------------- MODULE AccountCodecProofs -------------------------
(***************************************************************************)
(* What a text and a buffer may be, for every alphabet, every length of a  *)
(* tag and every code of the characters: normalization agrees with the     *)
(* validation on chain, and decoding inverts encoding.                     *)
(***************************************************************************)
EXTENDS AccountCodec, WellFoundedInduction, TLAPS

-----------------------------------------------------------------------------
(* Normalization.                                                          *)

\* What the program accepts is read with and without its "@".
LEMMA TagNormalizes ==
  ASSUME NEW t \in Seq(Canonical), ValidOnChain(t)
  PROVE  /\ NormalizeTag(<<At>> \o t) = Accepted(t) /\ NormalizeTag(t) = Accepted(t)
         /\ Lower(t) = t
<1> DEFINE typed == <<At>> \o t
<1>1. Len(t) \in MinTag .. MaxTag /\ ToSet(t) \subseteq Canonical
  BY DEF ValidOnChain
<1>2. MinTag \in Nat /\ MinTag >= 1 /\ MaxTag \in Nat
  BY LengthsAreOrdered
<1>3. \A i \in 1 .. Len(t) : t[i] \in Canonical
  BY <1>1
<1>4. /\ t \in Seq(Canonical \cup {At}) /\ <<At>> \in Seq(Canonical \cup {At})
      /\ Len(typed) = Len(t) + 1 /\ typed[1] = At
      /\ \A i \in 2 .. Len(typed) : typed[i] = t[i - 1]
  BY <1>1
<1>5. typed # <<>> /\ ~\E i \in 2 .. Len(typed) : typed[i] = At
  BY <1>1, <1>2, <1>3, <1>4, CanonicalIsLower
<1>6. Tail(typed) = t
  BY <1>1
<1>7. Strip(typed) = t /\ Strip(t) = t
  <2>1. t[1] # At
    BY <1>1, <1>2, <1>3, CanonicalIsLower
  <2>2. Strip(t) = t
    BY <2>1 DEF Strip
  <2>3. Strip(typed) = t
    BY <1>4, <1>6 DEF Strip
  <2>4. QED
    BY <2>2, <2>3
<1>8. Lower(t) = t
  <2>1. \A i \in DOMAIN t : t[i] \notin DOMAIN LowerOf
    BY <1>1, <1>3, CanonicalIsLower
  <2>2. Lower(t) = [i \in DOMAIN t |-> t[i]]
    BY <2>1 DEF Lower
  <2>3. QED
    BY <1>1, <2>2
<1>9. Judge(t) = Accepted(t)
  BY <1>1, <1>2 DEF Judge
<1>10. t # <<>> /\ ~\E i \in 2 .. Len(t) : t[i] = At
  BY <1>1, <1>2, <1>3, CanonicalIsLower
<1>11. QED
  BY <1>5, <1>7, <1>8, <1>9, <1>10 DEF NormalizeTag

LEMMA TextIsSequence ==
  ASSUME NEW k \in Nat, NEW raw \in Texts(k)
  PROVE  raw \in Seq(Char)
  BY DEF Texts, BoundedSeq, SeqOf

LEMMA LowerIsPointwise ==
  ASSUME NEW raw \in Seq(Char)
  PROVE  /\ DOMAIN Lower(raw) = 1 .. Len(raw)
         /\ \A i \in 1 .. Len(raw) : raw[i] \notin DOMAIN LowerOf => Lower(raw)[i] = raw[i]
  BY DEF Lower

\* A text on which the program's rule holds is a sequence of canonical
\* characters.
LEMMA ValidIsSequence ==
  ASSUME NEW k \in Nat, NEW x, DOMAIN x = 1 .. k, x = [i \in 1 .. k |-> x[i]],
         ToSet(x) \subseteq Canonical
  PROVE  x \in Seq(Canonical) /\ Len(x) = k
<1>1. \A i \in 1 .. k : x[i] \in Canonical
  BY DEF ToSet
<1>2. x \in [1 .. k -> Canonical]
  BY <1>1
<1>3. QED
  BY <1>2

LEMMA LoweredIsSequence ==
  ASSUME NEW raw \in Seq(Char), ToSet(Lower(raw)) \subseteq Canonical
  PROVE  Lower(raw) \in Seq(Canonical) /\ Len(Lower(raw)) = Len(raw)
<1>1. DOMAIN Lower(raw) = 1 .. Len(raw) /\ Lower(raw) = [i \in 1 .. Len(raw) |-> Lower(raw)[i]]
  BY DEF Lower
<1>2. QED
  BY <1>1, ValidIsSequence

LEMMA StripIsSequence ==
  ASSUME NEW raw \in Seq(Char), raw # <<>>
  PROVE  /\ Strip(raw) \in Seq(Char)
         /\ raw[1] # At => Strip(raw) = raw
         /\ raw[1] = At => Strip(raw) = Tail(raw) /\ Len(Strip(raw)) = Len(raw) - 1
  BY DEF Strip

\* A text that is accepted has become a tag, and differs from it in case and
\* in the "@" only.
LEMMA AcceptedIsTag ==
  ASSUME NEW raw \in Seq(Char), NormalizeTag(raw).ok
  PROVE  LET x == NormalizeTag(raw).tag IN
           /\ x \in Seq(Canonical) /\ ValidOnChain(x) /\ NormalizeTag(raw) = Accepted(x)
           /\ Lower(raw) \in {x, <<At>> \o x}
<1> DEFINE x == Lower(Strip(raw))
<1>1. raw # <<>> /\ NormalizeTag(raw) = Judge(x)
  BY DEF NormalizeTag, Refused
<1>2. /\ x # <<>> /\ ~(Len(x) < MinTag) /\ ~(Len(x) > MaxTag) /\ ToSet(x) \subseteq Canonical
      /\ NormalizeTag(raw) = Accepted(x)
  BY <1>1 DEF Judge, Refused
<1>3. Strip(raw) \in Seq(Char)
  BY <1>1, StripIsSequence
<1>4. x \in Seq(Canonical) /\ Len(x) = Len(Strip(raw))
  BY <1>2, <1>3, LoweredIsSequence
<1>5. ValidOnChain(x)
  BY <1>2, <1>4, LengthsAreOrdered DEF ValidOnChain
<1>6. Lower(raw) \in {x, <<At>> \o x}
  <2>1. CASE raw[1] # At
    BY <1>1, <2>1, StripIsSequence
  <2>2. CASE raw[1] = At
    <3>1. Strip(raw) = Tail(raw) /\ Len(x) = Len(raw) - 1 /\ Len(raw) >= 1
      BY <1>1, <1>4, <2>2, StripIsSequence
    <3>2. /\ DOMAIN Lower(raw) = 1 .. Len(raw) /\ DOMAIN (<<At>> \o x) = 1 .. Len(raw)
          /\ Lower(raw) = [i \in 1 .. Len(raw) |-> Lower(raw)[i]]
      BY <1>4, <3>1 DEF Lower
    <3>3. ASSUME NEW i \in 1 .. Len(raw) PROVE Lower(raw)[i] = (<<At>> \o x)[i]
      <4>1. CASE i = 1
        BY <1>4, <2>2, <4>1, CanonicalIsLower, LowerIsPointwise
      <4>2. CASE i # 1
        <5>1. i - 1 \in 1 .. Len(Tail(raw)) /\ Tail(raw)[i - 1] = raw[i] /\ Tail(raw) \in Seq(Char)
          BY <3>1, <4>2
        <5>2. x[i - 1] = Lower(raw)[i]
          BY <3>1, <5>1 DEF Lower
        <5>3. (<<At>> \o x)[i] = x[i - 1]
          BY <1>4, <3>1, <4>2
        <5>4. QED
          BY <5>2, <5>3
      <4>3. QED
        BY <4>1, <4>2
    <3>4. <<At>> \o x = [i \in 1 .. Len(raw) |-> (<<At>> \o x)[i]]
      BY <1>4, <3>1
    <3>5. QED
      BY <3>2, <3>3, <3>4
  <2>3. QED
    BY <2>1, <2>2
<1>7. QED
  BY <1>2, <1>4, <1>5, <1>6 DEF Accepted

\* Nothing is refused whose lower case the program accepts.
LEMMA RefusedIsInvalid ==
  ASSUME NEW raw \in Seq(Char), ValidOnChain(Lower(raw))
  PROVE  NormalizeTag(raw) = Accepted(Lower(raw))
<1>1. Lower(raw) \in Seq(Canonical) /\ Len(Lower(raw)) = Len(raw)
  BY LoweredIsSequence DEF ValidOnChain
<1>2. Len(raw) >= 1 /\ raw # <<>>
  BY <1>1, LengthsAreOrdered DEF ValidOnChain
<1>3. \A i \in 1 .. Len(raw) : raw[i] # At
  BY <1>1, CanonicalIsLower, LowerIsPointwise
<1>4. Strip(raw) = raw
  BY <1>2, <1>3, StripIsSequence
<1>5. NormalizeTag(raw) = Judge(Lower(raw))
  BY <1>2, <1>3, <1>4 DEF NormalizeTag
<1>6. QED
  BY <1>1, <1>2, <1>5, LengthsAreOrdered DEF Judge, ValidOnChain

-----------------------------------------------------------------------------
(* The account codec.                                                      *)

LEMMA CharOfInverts ==
  /\ \A char \in DOMAIN CodeOf : CharOf(CodeOf[char]) = char
  /\ \A byte : (\E char \in DOMAIN CodeOf : CodeOf[char] = byte) =>
       CharOf(byte) \in DOMAIN CodeOf /\ CodeOf[CharOf(byte)] = byte
  BY CodesAreDistinct DEF CharOf

\* Where the fields are.
Buffer(d, o, w, tag, n, p) == <<d, o, w>> \o tag \o <<n, p>>

HasFields(data, d, o, w, tag, n, p) ==
  /\ data # <<>> /\ Len(data) = Size /\ \E S : data \in Seq(S)
  /\ data[1] = d /\ data[OwnerAt] = o /\ data[WalletAt] = w
  /\ \A i \in 1 .. MaxTag : data[TagAt + i - 1] = tag[i]
  /\ data[TagLenAt] = n /\ data[BumpAt] = p

LEMMA BufferFields ==
  ASSUME NEW d, NEW o, NEW w, NEW n, NEW p, NEW tag \in [1 .. MaxTag -> Nat]
  PROVE  HasFields(Buffer(d, o, w, tag, n, p), d, o, w, tag, n, p)
<1> DEFINE Entry == Nat \cup {d, o, w, n, p}
           head == <<d, o, w>>
           rest == <<n, p>>
           data == head \o tag \o rest
<1>1. MaxTag \in Nat
  BY LengthsAreOrdered
<1>2. tag \in Seq(Entry) /\ Len(tag) = MaxTag
  BY <1>1
<1>3. head \in Seq(Entry) /\ rest \in Seq(Entry) /\ Len(head) = 3 /\ Len(rest) = 2
  OBVIOUS
<1>4. /\ head \o tag \in Seq(Entry) /\ Len(head \o tag) = 3 + MaxTag
      /\ \A i \in 1 .. 3 : (head \o tag)[i] = head[i]
      /\ \A i \in 1 .. MaxTag : (head \o tag)[3 + i] = tag[i]
  BY <1>1, <1>2, <1>3
<1>5. /\ data \in Seq(Entry) /\ Len(data) = MaxTag + 5
      /\ \A i \in 1 .. 3 + MaxTag : data[i] = (head \o tag)[i]
      /\ data[MaxTag + 4] = n /\ data[MaxTag + 5] = p
  BY <1>1, <1>3, <1>4
<1>6. data[1] = d /\ data[2] = o /\ data[3] = w
  BY <1>1, <1>4, <1>5
<1>7. \A i \in 1 .. MaxTag : data[3 + i] = tag[i]
  BY <1>1, <1>4, <1>5
<1>8. data # <<>>
  BY <1>1, <1>5
<1>9. /\ Size = MaxTag + 5 /\ BumpAt = MaxTag + 5 /\ TagLenAt = MaxTag + 4
      /\ OwnerAt = 2 /\ WalletAt = 3 /\ \A i \in 1 .. MaxTag : TagAt + i - 1 = 3 + i
  BY <1>1 DEF Size, BumpAt, TagLenAt, TagAt, OwnerAt, WalletAt
<1>10. QED
  BY <1>5, <1>6, <1>7, <1>8, <1>9 DEF Buffer, HasFields

Padded(tag) == [i \in 1 .. MaxTag |-> IF i <= Len(tag) THEN CodeOf[tag[i]] ELSE 0]

LEMMA EncodeIsBuffer ==
  ASSUME NEW o, NEW w, NEW tag, NEW p
  PROVE  Encode(o, w, tag, p) = Buffer(Discriminator, o, w, Padded(tag), Len(tag), p)
  BY DEF Encode, Buffer, Padded

\* The bytes of the stored text.
StoredBytes(data, n) == SubSeq(data, TagAt, TagAt + n - 1)
IsPrefixOf(tag, n, bytes) == DOMAIN bytes = 1 .. n /\ \A i \in 1 .. n : bytes[i] = tag[i]

LEMMA StoredBytesAreTag ==
  ASSUME NEW d, NEW o, NEW w, NEW p, NEW tag \in [1 .. MaxTag -> Nat],
         NEW n \in 0 .. MaxTag, NEW data, HasFields(data, d, o, w, tag, n, p)
  PROVE  IsPrefixOf(tag, n, StoredBytes(data, n))
<1>1. MaxTag \in Nat /\ n \in Nat
  BY LengthsAreOrdered
<1>2. PICK S : data \in Seq(S)
  BY DEF HasFields
<1>3. Len(data) = MaxTag + 5 /\ \A i \in 1 .. MaxTag : data[4 + i - 1] = tag[i]
  BY <1>1 DEF HasFields, Size, BumpAt, TagLenAt, TagAt
<1>4. /\ DOMAIN SubSeq(data, 4, 4 + n - 1) = 1 .. n
      /\ \A i \in 1 .. n : SubSeq(data, 4, 4 + n - 1)[i] = data[4 + i - 1]
  BY <1>1, <1>2, <1>3
<1>5. \A i \in 1 .. n : data[4 + i - 1] = tag[i]
  BY <1>1, <1>3
<1>6. QED
  BY <1>4, <1>5 DEF StoredBytes, IsPrefixOf, TagAt

\* What the program writes is read as it was.
LEMMA EncodedIsRead ==
  ASSUME NEW o, NEW w, NEW p, NEW t \in Seq(Canonical), ValidOnChain(t)
  PROVE  ResolveOnChain(Encode(o, w, t, p)) = Decoded(o, w, t, p)
<1> DEFINE n == Len(t)
           padded == Padded(t)
           data == Buffer(Discriminator, o, w, padded, n, p)
           bytes == StoredBytes(data, n)
           raw == [i \in DOMAIN bytes |-> CharOf(bytes[i])]
<1>1. MaxTag \in Nat /\ n \in 1 .. MaxTag /\ n \in 0 .. MaxTag /\ \A i \in 1 .. n : t[i] \in DOMAIN CodeOf
  BY LengthsAreOrdered, CodesAreDistinct DEF ValidOnChain
<1>2. padded \in [1 .. MaxTag -> Nat]
  BY <1>1, CodesAreDistinct DEF Padded
<1>3. HasFields(data, Discriminator, o, w, padded, n, p)
  BY <1>2, BufferFields
<1> HIDE DEF data, padded
<1>4. IsPrefixOf(padded, n, bytes)
  BY <1>1, <1>2, <1>3, StoredBytesAreTag
<1>5. \A i \in 1 .. n : bytes[i] = CodeOf[t[i]]
  <2>1. \A i \in 1 .. n : i \in 1 .. MaxTag /\ i <= Len(t)
    BY <1>1
  <2>2. \A i \in 1 .. n : padded[i] = CodeOf[t[i]]
    BY <2>1 DEF Padded, padded
  <2>3. \A i \in 1 .. n : bytes[i] = padded[i]
    BY <1>4 DEF IsPrefixOf
  <2>4. QED
    BY <2>2, <2>3
<1>6. DOMAIN bytes = 1 .. n /\ IsText(bytes)
  BY <1>1, <1>4, <1>5 DEF IsText, IsPrefixOf
<1>7. raw = t
  <2>1. \A i \in 1 .. n : raw[i] = t[i]
    BY <1>1, <1>5, <1>6, CharOfInverts
  <2>2. DOMAIN raw = 1 .. n /\ raw = [i \in 1 .. n |-> raw[i]]
    BY <1>6
  <2>3. t = [i \in 1 .. n |-> t[i]]
    OBVIOUS
  <2>4. QED
    BY <2>1, <2>2, <2>3
<1>8. NormalizeTag(t) = Accepted(t)
  BY TagNormalizes
<1>9. StoredTag(data, n) = Accepted(t)
  BY <1>6, <1>7, <1>8 DEF StoredTag, StoredBytes
<1>10. PaddingIsZero(data, n)
  BY <1>1, <1>3 DEF PaddingIsZero, Padded, padded, HasFields
<1>11. DecodeTagAccount(data) = Decoded(o, w, t, p)
  BY <1>1, <1>3, <1>9, <1>10 DEF DecodeTagAccount, HasDiscriminator, Accepted, HasFields
<1>12. ResolveOnChain(data) = Decoded(o, w, t, p)
  BY <1>3, <1>11 DEF ResolveOnChain, Decoded, HasFields
<1>13. QED
  BY <1>12, EncodeIsBuffer DEF data, padded

LEMMA EncodedIsSequence ==
  ASSUME NEW o, NEW w, NEW p, NEW t \in Seq(Canonical), ValidOnChain(t)
  PROVE  \E S : Encode(o, w, t, p) \in Seq(S) /\ Len(Encode(o, w, t, p)) = Size
<1>1. Padded(t) \in [1 .. MaxTag -> Nat]
  BY LengthsAreOrdered, CodesAreDistinct DEF Padded, ValidOnChain
<1>2. HasFields(Encode(o, w, t, p), Discriminator, o, w, Padded(t), Len(t), p)
  BY <1>1, BufferFields, EncodeIsBuffer
<1>3. QED
  BY <1>2 DEF HasFields

\* What is read is what the program would have written.
LEMMA ReadIsEncoded ==
  ASSUME NEW d, NEW o, NEW w, NEW p, NEW n \in 0 .. MaxTag + 1, NEW tag \in [1 .. MaxTag -> Nat],
         ResolveOnChain(Buffer(d, o, w, tag, n, p)).ok
  PROVE  \E t \in Seq(Canonical) :
           /\ ValidOnChain(t) /\ Buffer(d, o, w, tag, n, p) = Encode(o, w, t, p)
           /\ ResolveOnChain(Buffer(d, o, w, tag, n, p)) = Decoded(o, w, t, p)
<1> DEFINE data == Buffer(d, o, w, tag, n, p)
           bytes == StoredBytes(data, n)
           raw == [i \in DOMAIN bytes |-> CharOf(bytes[i])]
<1>1. MaxTag \in Nat /\ n \in Nat
  BY LengthsAreOrdered
<1>2. /\ data # <<>> /\ Len(data) = Size /\ data[1] = d
      /\ data[OwnerAt] = o /\ data[WalletAt] = w /\ data[TagLenAt] = n /\ data[BumpAt] = p
      /\ \A i \in 1 .. MaxTag : data[TagAt + i - 1] = tag[i]
      /\ HasFields(data, d, o, w, tag, n, p)
  BY <1>1, BufferFields DEF HasFields
<1> HIDE DEF data
<1>3. ResolveOnChain(data).ok
  BY DEF data
<1>4. DecodeTagAccount(data).ok /\ ResolveOnChain(data) = DecodeTagAccount(data)
  BY <1>3 DEF ResolveOnChain, Refused
<1>5. /\ d = Discriminator /\ ~(n > MaxTag) /\ PaddingIsZero(data, n) /\ StoredTag(data, n).ok
      /\ DecodeTagAccount(data) = Decoded(o, w, StoredTag(data, n).tag, p)
  <2>1. d = Discriminator /\ ~(n > MaxTag) /\ PaddingIsZero(data, n)
    BY <1>2, <1>4 DEF DecodeTagAccount, HasDiscriminator, Undecodable, Refused
  <2>2. StoredTag(data, n).ok
    BY <1>2, <1>4, <2>1 DEF DecodeTagAccount, HasDiscriminator
  <2>3. QED
    BY <1>2, <2>1, <2>2 DEF DecodeTagAccount, HasDiscriminator
<1>6. n \in 0 .. MaxTag
  BY <1>1, <1>5
<1>7. DOMAIN bytes = 1 .. n /\ \A i \in 1 .. n : bytes[i] = tag[i]
  <2>1. IsPrefixOf(tag, n, bytes)
    BY <1>2, <1>6, StoredBytesAreTag
  <2>2. QED
    BY <2>1 DEF IsPrefixOf
<1>8. IsText(bytes) /\ NormalizeTag(raw) = Accepted(raw) /\ StoredTag(data, n) = Accepted(raw)
  BY <1>5 DEF StoredTag, StoredBytes, Undecodable, Refused
<1>9. \A i \in 1 .. n : raw[i] \in DOMAIN CodeOf /\ CodeOf[raw[i]] = tag[i]
  BY <1>7, <1>8, CharOfInverts DEF IsText
<1>10. raw \in Seq(Char) /\ Len(raw) = n
  <2>1. raw \in [1 .. n -> Char]
    BY <1>7, <1>9, CodesAreDistinct
  <2>2. QED
    BY <1>1, <2>1
<1>11. raw \in Seq(Canonical) /\ ValidOnChain(raw)
  <2>1. NormalizeTag(raw).ok /\ NormalizeTag(raw).tag = raw
    BY <1>8 DEF Accepted
  <2>2. QED
    BY <1>10, <2>1, AcceptedIsTag
<1>12. tag = Padded(raw)
  <2>1. ASSUME NEW i \in 1 .. MaxTag PROVE tag[i] = Padded(raw)[i]
    <3>1. CASE i <= n
      BY <1>1, <1>9, <1>10, <3>1 DEF Padded
    <3>2. CASE ~(i <= n)
      BY <1>1, <1>2, <1>5, <1>10, <3>2 DEF Padded, PaddingIsZero
    <3>3. QED
      BY <3>1, <3>2
  <2>2. QED
    BY <2>1 DEF Padded
<1>13. Buffer(d, o, w, tag, n, p) = Encode(o, w, raw, p)
  BY <1>5, <1>10, <1>12, EncodeIsBuffer
<1>14. ResolveOnChain(data) = Decoded(o, w, raw, p)
  BY <1>4, <1>5, <1>8 DEF Accepted
<1>15. QED
  BY <1>11, <1>13, <1>14 DEF data

-----------------------------------------------------------------------------
(* Induction, with sets in place of predicates.                            *)

\* A set of numbers has a least member.
LEMMA LeastMember ==
  ASSUME NEW S, S \subseteq Nat, S # {}
  PROVE  \E n \in S : \A k \in S : ~(k < n)
<1> DEFINE R == {pair \in Nat \X Nat : pair[1] < pair[2]}
<1>1. OpToRel(<, Nat) = R
  BY DEF OpToRel
<1>2. IsWellFoundedOn(R, Nat)
  BY <1>1, NatLessThanWellFounded, Zenon
<1> HIDE DEF R
<1>3. \E n \in S : \A k \in S : <<k, n>> \notin R
  BY <1>2, WFMin
<1>4. QED
  BY <1>3 DEF R

LEMMA SetInduction ==
  ASSUME NEW S, 0 \in S, \A n \in Nat : n \in S => n + 1 \in S
  PROVE  \A n \in Nat : n \in S
<1>1. SUFFICES ASSUME Nat \ S # {} PROVE FALSE
  OBVIOUS
<1>2. PICK n \in Nat \ S : \A k \in Nat \ S : ~(k < n)
  BY <1>1, LeastMember
<1>3. n # 0 /\ n - 1 \in Nat
  BY <1>2
<1>4. n - 1 \in S
  BY <1>2, <1>3
<1>5. QED
  BY <1>2, <1>3, <1>4

LEMMA PrefixInduction ==
  ASSUME NEW m \in Nat, NEW S, 0 \in S, \A n \in 0 .. m - 1 : n \in S => n + 1 \in S
  PROVE  \A n \in 0 .. m : n \in S
<1> DEFINE T == {n \in Nat : n <= m => n \in S}
<1>1. 0 \in T
  OBVIOUS
<1>2. ASSUME NEW n \in Nat, n \in T PROVE n + 1 \in T
  BY <1>2
<1> HIDE DEF T
<1>3. \A n \in Nat : n \in T
  BY <1>1, <1>2, SetInduction
<1>4. QED
  BY <1>3 DEF T

\* The accumulation over 0 .. m that starts with base and goes on by step exists.
Accumulates(f, base, step, m) ==
  f = [n \in 0 .. m |-> IF n = 0 THEN base ELSE step[n][f[n - 1]]]

LEMMA AccumulationExists ==
  ASSUME NEW V, NEW base \in V, NEW step \in [Nat -> [V -> V]], NEW m \in Nat
  PROVE  \E f \in [0 .. m -> V] : Accumulates(f, base, step, m)
<1> DEFINE S == {k \in Nat : \E f \in [0 .. k -> V] : Accumulates(f, base, step, k)}
<1>1. 0 \in S
  <2> DEFINE f == [n \in 0 .. 0 |-> base]
  <2>1. f \in [0 .. 0 -> V]
    OBVIOUS
  <2>2. f = [n \in 0 .. 0 |-> IF n = 0 THEN base ELSE step[n][f[n - 1]]]
    OBVIOUS
  <2>3. QED
    BY <2>1, <2>2 DEF Accumulates
<1>2. ASSUME NEW k \in Nat, k \in S PROVE k + 1 \in S
  <2>1. PICK f \in [0 .. k -> V] : Accumulates(f, base, step, k)
    BY <1>2
  <2> DEFINE g == [n \in 0 .. k + 1 |-> IF n = k + 1 THEN step[k + 1][f[k]] ELSE f[n]]
  <2>2. g \in [0 .. k + 1 -> V]
    OBVIOUS
  <2>3. ASSUME NEW n \in 0 .. k + 1
        PROVE  g[n] = IF n = 0 THEN base ELSE step[n][g[n - 1]]
    <3>1. CASE n = k + 1
      <4>1. g[n] = step[k + 1][f[k]] /\ g[n - 1] = f[k] /\ n # 0
        BY <3>1
      <4>2. QED
        BY <3>1, <4>1
    <3>2. CASE n # k + 1
      <4>1. n \in 0 .. k /\ g[n] = f[n]
        BY <3>2
      <4>2. f[n] = IF n = 0 THEN base ELSE step[n][f[n - 1]]
        BY <2>1, <4>1 DEF Accumulates
      <4>3. n # 0 => g[n - 1] = f[n - 1]
        BY <4>1
      <4>4. QED
        BY <4>1, <4>2, <4>3
    <3>3. QED
      BY <3>1, <3>2
  <2> HIDE DEF g
  <2>4. g = [n \in 0 .. k + 1 |-> IF n = 0 THEN base ELSE step[n][g[n - 1]]]
    BY <2>2, <2>3
  <2>5. Accumulates(g, base, step, k + 1)
    BY <2>4 DEF Accumulates
  <2>6. QED
    BY <2>2, <2>5
<1> HIDE DEF S
<1>3. m \in S
  BY <1>1, <1>2, SetInduction
<1>4. QED
  BY <1>3 DEF S

-----------------------------------------------------------------------------
(* The three accumulations of leetspeak.ts.                                *)

LEMMA KeptStep ==
  ASSUME NEW text \in Seq(Canonical)
  PROVE  \A n \in 0 .. Len(text) : Kept(text)[n] =
           IF n = 0 THEN <<>>
           ELSE IF text[n] = "_" THEN Kept(text)[n - 1] ELSE Append(Kept(text)[n - 1], text[n])
<1> DEFINE Rec(k) == k = [n \in 0 .. Len(text) |->
             IF n = 0 THEN <<>>
             ELSE IF text[n] = "_" THEN k[n - 1] ELSE Append(k[n - 1], text[n])]
           V == Seq(Canonical)
           step == [n \in Nat |-> [v \in V |->
             IF n \in 1 .. Len(text) /\ text[n] # "_" THEN Append(v, text[n]) ELSE v]]
<1>0. Len(text) \in Nat /\ <<>> \in V
  OBVIOUS
<1>1. step \in [Nat -> [V -> V]]
  <2>1. ASSUME NEW n \in Nat, NEW v \in V
        PROVE  (IF n \in 1 .. Len(text) /\ text[n] # "_" THEN Append(v, text[n]) ELSE v) \in V
    <3>1. CASE n \in 1 .. Len(text)
      <4>1. text[n] \in Canonical
        BY <3>1
      <4>2. Append(v, text[n]) \in Seq(Canonical)
        BY <4>1
      <4>3. QED
        BY <4>2
    <3>2. CASE n \notin 1 .. Len(text)
      BY <3>2
    <3>3. QED
      BY <3>1, <3>2
  <2> HIDE DEF V
  <2>2. QED
    BY <2>1
<1>2. PICK f \in [0 .. Len(text) -> V] : Accumulates(f, <<>>, step, Len(text))
  <2> HIDE DEF V, step
  <2>1. QED
    BY <1>0, <1>1, AccumulationExists
<1>3. ASSUME NEW n \in 0 .. Len(text)
      PROVE  f[n] = IF n = 0 THEN <<>>
                    ELSE IF text[n] = "_" THEN f[n - 1] ELSE Append(f[n - 1], text[n])
  <2>1. f[n] = IF n = 0 THEN <<>> ELSE step[n][f[n - 1]]
    <3> HIDE DEF V, step
    <3>1. QED
      BY <1>2 DEF Accumulates
  <2>2. CASE n # 0
    <3> HIDE DEF V
    <3>1. n \in Nat /\ n - 1 \in 0 .. Len(text) /\ n \in 1 .. Len(text)
      BY <1>0, <2>2
    <3>2. f[n - 1] \in V
      BY <1>2, <3>1
    <3>3. QED
      BY <2>1, <2>2, <3>1, <3>2
  <2>3. QED
    BY <2>1, <2>2
<1> HIDE DEF step, V
<1>4. Rec(f)
  BY <1>2, <1>3
<1>5. Kept(text) = CHOOSE k : Rec(k)
  BY DEF Kept
<1> HIDE DEF Rec
<1>6. Rec(Kept(text))
  BY <1>4, <1>5
<1>7. QED
  BY <1>6 DEF Rec

LEMMA PreparedIsText ==
  ASSUME NEW tag \in Seq(Canonical)
  PROVE  Lower(tag) = tag /\ Prepared(tag) \in Seq(Canonical)
<1>1. Lower(tag) = tag
  <2>1. \A i \in DOMAIN tag : tag[i] \in Canonical
    OBVIOUS
  <2>2. Lower(tag) = [i \in DOMAIN tag |-> tag[i]]
    BY <2>1, CanonicalIsLower DEF Lower
  <2>3. QED
    BY <2>2
<1>2. Len(tag) \in Nat
  OBVIOUS
<1> DEFINE S == {n \in 0 .. Len(tag) : Kept(tag)[n] \in Seq(Canonical)}
<1>3. 0 \in S
  <2>1. 0 \in 0 .. Len(tag) /\ <<>> \in Seq(Canonical)
    BY <1>2
  <2>2. Kept(tag)[0] = <<>>
    BY <2>1, KeptStep
  <2>3. QED
    BY <2>1, <2>2
<1>4. ASSUME NEW n \in 0 .. Len(tag) - 1, n \in S PROVE n + 1 \in S
  <2>1. n + 1 \in 0 .. Len(tag) /\ n + 1 # 0 /\ (n + 1) - 1 = n /\ tag[n + 1] \in Canonical
    BY <1>2
  <2>2. Kept(tag)[n + 1] =
          IF tag[n + 1] = "_" THEN Kept(tag)[n] ELSE Append(Kept(tag)[n], tag[n + 1])
    BY <2>1, KeptStep
  <2>3. Kept(tag)[n] \in Seq(Canonical)
    BY <1>4
  <2>4. Append(Kept(tag)[n], tag[n + 1]) \in Seq(Canonical)
    BY <2>1, <2>3
  <2>5. QED
    BY <2>1, <2>2, <2>3, <2>4
<1> HIDE DEF S
<1>5. \A n \in 0 .. Len(tag) : n \in S
  BY <1>2, <1>3, <1>4, PrefixInduction
<1>6. Kept(tag)[Len(tag)] \in Seq(Canonical)
  BY <1>2, <1>5 DEF S
<1>7. QED
  BY <1>1, <1>6 DEF Prepared

-----------------------------------------------------------------------------
(* One step of the two loops.                                              *)

LEMMA OptionsAreLetters ==
  ASSUME NEW char \in Canonical
  PROVE  Options(char) \in Seq(Canonical) /\ Len(Options(char)) \in Nat /\ Len(Options(char)) >= 1
<1>1. CASE char \in DOMAIN StandsFor
  <2>1. StandsFor[char] \in Seq(Canonical) /\ StandsFor[char] # <<>>
    BY <1>1, SubstitutesAreLetters
  <2>2. Len(StandsFor[char]) \in Nat /\ Len(StandsFor[char]) >= 1
    BY <2>1
  <2>3. QED
    BY <1>1, <2>1, <2>2 DEF Options
<1>2. CASE char \notin DOMAIN StandsFor
  <2>1. Options(char) = <<char>>
    BY <1>2 DEF Options
  <2>2. QED
    BY <2>1
<1>3. QED
  BY <1>1, <1>2

\* The k-th variant comes from one option of one of the earlier variants ...
LEMMA IndexSplits ==
  ASSUME NEW m \in Nat, NEW o \in Nat, o >= 1, NEW k \in 1 .. m * o
  PROVE  ((k - 1) \div o) + 1 \in 1 .. m /\ ((k - 1) % o) + 1 \in 1 .. o
<1> DEFINE q == (k - 1) \div o
           r == (k - 1) % o
<1>1. q \in Int /\ r \in 0 .. o - 1 /\ k - 1 = o * q + r
  OBVIOUS
<1> HIDE DEF q, r
<1>2. q >= 0
  BY <1>1
<1>3. q < m
  BY <1>1, <1>2
<1>4. QED
  BY <1>1, <1>2, <1>3 DEF q, r

\* ... and every option of every earlier variant has its place.
IsPlace(k, o, j, i) == ((k - 1) \div o) + 1 = j /\ ((k - 1) % o) + 1 = i

LEMMA IndexJoins ==
  ASSUME NEW m \in Nat, NEW o \in Nat, NEW j \in 1 .. m, NEW i \in 1 .. o
  PROVE  \E k \in 1 .. m * o : IsPlace(k, o, j, i)
<1> DEFINE k == (j - 1) * o + i
<1>1. k - 1 = o * (j - 1) + (i - 1) /\ i - 1 \in 0 .. o - 1 /\ k \in Int
  OBVIOUS
<1>2. k \in 1 .. m * o /\ ((k - 1) \div o) + 1 = j /\ ((k - 1) % o) + 1 = i
  BY <1>1
<1>3. QED
  BY <1>2 DEF IsPlace

LEMMA ExtendType ==
  ASSUME NEW vs \in Seq(Seq(Canonical)), NEW char \in Canonical
  PROVE  /\ Extend(vs, char) \in Seq(Seq(Canonical))
         /\ Len(Extend(vs, char)) <= Len(vs) * Len(Options(char))
         /\ Len(vs) * Len(Options(char)) <= MaxVariants =>
              Len(Extend(vs, char)) = Len(vs) * Len(Options(char))
         /\ \A k \in 1 .. Len(Extend(vs, char)) : Extend(vs, char)[k] =
              Append(vs[((k - 1) \div Len(Options(char))) + 1],
                     Options(char)[((k - 1) % Len(Options(char))) + 1])
<1> DEFINE n == Len(Options(char))
           all == Len(vs) * n
           size == IF all < MaxVariants THEN all ELSE MaxVariants
           next(k) == Append(vs[((k - 1) \div n) + 1], Options(char)[((k - 1) % n) + 1])
<1>1. n \in Nat /\ n >= 1 /\ Options(char) \in Seq(Canonical)
  BY OptionsAreLetters
<1>2. Len(vs) \in Nat
  OBVIOUS
<1> HIDE DEF n
<1>3. all \in Nat
  BY <1>1, <1>2
<1> HIDE DEF all
<1>4. size \in Nat /\ size <= all /\ (all <= MaxVariants => size = all)
  BY <1>3, CapIsPositive
<1>5. Extend(vs, char) = [k \in 1 .. size |-> next(k)]
  BY DEF Extend, n, all
<1> HIDE DEF size
<1>6. ASSUME NEW k \in 1 .. size PROVE next(k) \in Seq(Canonical)
  <2>1. k \in 1 .. Len(vs) * n
    BY <1>2, <1>3, <1>4 DEF all
  <2>2. ((k - 1) \div n) + 1 \in 1 .. Len(vs) /\ ((k - 1) % n) + 1 \in 1 .. n
    BY <1>1, <1>2, <2>1, IndexSplits
  <2>3. \A j \in 1 .. Len(vs), i \in 1 .. n : Append(vs[j], Options(char)[i]) \in Seq(Canonical)
    <3>1. SUFFICES ASSUME NEW j \in 1 .. Len(vs), NEW i \in 1 .. n
                   PROVE  Append(vs[j], Options(char)[i]) \in Seq(Canonical)
      OBVIOUS
    <3>2. vs[j] \in Seq(Canonical)
      OBVIOUS
    <3>3. Options(char)[i] \in Canonical
      BY <1>1 DEF n
    <3>4. QED
      BY <3>2, <3>3
  <2>4. QED
    BY <2>2, <2>3
<1> HIDE DEF next
<1>7. Extend(vs, char) \in [1 .. size -> Seq(Canonical)]
  BY <1>5, <1>6
<1>8. Extend(vs, char) \in Seq(Seq(Canonical)) /\ Len(Extend(vs, char)) = size
  BY <1>4, <1>7
<1>9. \A k \in 1 .. size : Extend(vs, char)[k] = next(k)
  BY <1>5
<1>10. QED
  BY <1>4, <1>8, <1>9 DEF next, n, all

LEMMA ExtendComesFrom ==
  ASSUME NEW vs \in Seq(Seq(Canonical)), NEW char \in Canonical,
         NEW k \in 1 .. Len(Extend(vs, char))
  PROVE  \E j \in 1 .. Len(vs), c \in ToSet(Options(char)) :
           c \in Canonical /\ Extend(vs, char)[k] = Append(vs[j], c)
<1> DEFINE n == Len(Options(char))
<1>1. n \in Nat /\ n >= 1 /\ Options(char) \in Seq(Canonical) /\ Len(vs) \in Nat
  BY OptionsAreLetters
<1>2. k \in 1 .. Len(vs) * n
  <2>1. Len(Extend(vs, char)) \in Nat /\ Len(Extend(vs, char)) <= Len(vs) * n
    BY ExtendType
  <2>2. Len(vs) * n \in Nat
    BY <1>1
  <2> HIDE DEF n
  <2>3. QED
    BY <2>1, <2>2
<1>3. ((k - 1) \div n) + 1 \in 1 .. Len(vs) /\ ((k - 1) % n) + 1 \in 1 .. n
  <2> HIDE DEF n
  <2>1. QED
    BY <1>1, <1>2, IndexSplits
<1>4. \A i \in 1 .. n : Options(char)[i] \in ToSet(Options(char)) \cap Canonical
  BY <1>1 DEF ToSet
<1>5. Extend(vs, char)[k] = Append(vs[((k - 1) \div n) + 1], Options(char)[((k - 1) % n) + 1])
  BY ExtendType
<1> HIDE DEF n
<1>6. QED
  BY <1>3, <1>4, <1>5

LEMMA ExtendCovers ==
  ASSUME NEW vs \in Seq(Seq(Canonical)), NEW char \in Canonical,
         Len(vs) * Len(Options(char)) <= MaxVariants,
         NEW j \in 1 .. Len(vs), NEW c \in ToSet(Options(char))
  PROVE  \E k \in 1 .. Len(Extend(vs, char)) : Extend(vs, char)[k] = Append(vs[j], c)
<1> DEFINE n == Len(Options(char))
<1>1. n \in Nat /\ Options(char) \in Seq(Canonical) /\ Len(vs) \in Nat
  BY OptionsAreLetters
<1>2. PICK i \in 1 .. n : c = Options(char)[i]
  BY <1>1 DEF ToSet
<1>3. PICK k \in 1 .. Len(vs) * n : IsPlace(k, n, j, i)
  <2> HIDE DEF n
  <2>1. QED
    BY <1>1, IndexJoins
<1>4. Len(Extend(vs, char)) = Len(vs) * n
  BY ExtendType
<1>5. Extend(vs, char)[k] = Append(vs[((k - 1) \div n) + 1], Options(char)[((k - 1) % n) + 1])
  BY <1>3, <1>4, ExtendType
<1>6. QED
  BY <1>2, <1>3, <1>4, <1>5 DEF IsPlace

LEMMA ExpandedStep ==
  ASSUME NEW text \in Seq(Canonical)
  PROVE  \A n \in 0 .. Len(text) : Expanded(text)[n] =
           IF n = 0 THEN << <<>> >> ELSE Extend(Expanded(text)[n - 1], text[n])
<1> DEFINE Rec(f) == f = [n \in 0 .. Len(text) |->
             IF n = 0 THEN << <<>> >> ELSE Extend(f[n - 1], text[n])]
           V == Seq(Seq(Canonical))
           step == [n \in Nat |-> [v \in V |->
             IF n \in 1 .. Len(text) THEN Extend(v, text[n]) ELSE v]]
<1>0. Len(text) \in Nat /\ << <<>> >> \in V
  <2>1. <<>> \in Seq(Canonical)
    OBVIOUS
  <2>2. QED
    BY <2>1
<1>1. step \in [Nat -> [V -> V]]
  <2>1. ASSUME NEW n \in Nat, NEW v \in V
        PROVE  (IF n \in 1 .. Len(text) THEN Extend(v, text[n]) ELSE v) \in V
    <3>1. CASE n \in 1 .. Len(text)
      <4>1. text[n] \in Canonical
        BY <3>1
      <4>2. Extend(v, text[n]) \in Seq(Seq(Canonical))
        BY <4>1, ExtendType
      <4>3. QED
        BY <3>1, <4>2
    <3>2. CASE n \notin 1 .. Len(text)
      BY <3>2
    <3>3. QED
      BY <3>1, <3>2
  <2> HIDE DEF V
  <2>2. QED
    BY <2>1
<1>2. PICK f \in [0 .. Len(text) -> V] : Accumulates(f, << <<>> >>, step, Len(text))
  <2> HIDE DEF V, step
  <2>1. QED
    BY <1>0, <1>1, AccumulationExists
<1>3. ASSUME NEW n \in 0 .. Len(text)
      PROVE  f[n] = IF n = 0 THEN << <<>> >> ELSE Extend(f[n - 1], text[n])
  <2>1. f[n] = IF n = 0 THEN << <<>> >> ELSE step[n][f[n - 1]]
    <3> HIDE DEF V, step
    <3>1. QED
      BY <1>2 DEF Accumulates
  <2>2. CASE n # 0
    <3> HIDE DEF V
    <3>1. n \in Nat /\ n - 1 \in 0 .. Len(text) /\ n \in 1 .. Len(text)
      BY <1>0, <2>2
    <3>2. f[n - 1] \in V
      BY <1>2, <3>1
    <3>3. QED
      BY <2>1, <2>2, <3>1, <3>2
  <2>3. QED
    BY <2>1, <2>2
<1> HIDE DEF step, V
<1>4. Rec(f)
  BY <1>2, <1>3
<1>5. Expanded(text) = CHOOSE f0 : Rec(f0)
  BY DEF Expanded
<1> HIDE DEF Rec
<1>6. Rec(Expanded(text))
  BY <1>4, <1>5
<1>7. QED
  BY <1>6 DEF Rec

LEMMA AmbiguitiesStep ==
  ASSUME NEW text \in Seq(Canonical)
  PROVE  \A n \in 0 .. Len(text) : Ambiguities(text)[n] =
           IF n = 0 THEN 1 ELSE Ambiguities(text)[n - 1] * Len(Options(text[n]))
<1> DEFINE Rec(f) == f = [n \in 0 .. Len(text) |->
             IF n = 0 THEN 1 ELSE f[n - 1] * Len(Options(text[n]))]
           V == Nat
           step == [n \in Nat |-> [v \in V |->
             IF n \in 1 .. Len(text) THEN v * Len(Options(text[n])) ELSE v]]
<1>0. Len(text) \in Nat /\ 1 \in V
  OBVIOUS
<1>1. step \in [Nat -> [V -> V]]
  <2>1. ASSUME NEW n \in Nat, NEW v \in V
        PROVE  (IF n \in 1 .. Len(text) THEN v * Len(Options(text[n])) ELSE v) \in V
    <3>1. CASE n \in 1 .. Len(text)
      <4>1. text[n] \in Canonical
        BY <3>1
      <4>2. Len(Options(text[n])) \in Nat
        BY <4>1, OptionsAreLetters
      <4>3. v * Len(Options(text[n])) \in Nat
        BY <4>2
      <4>4. QED
        BY <3>1, <4>3
    <3>2. CASE n \notin 1 .. Len(text)
      BY <3>2
    <3>3. QED
      BY <3>1, <3>2
  <2> HIDE DEF V
  <2>2. QED
    BY <2>1
<1>2. PICK f \in [0 .. Len(text) -> V] : Accumulates(f, 1, step, Len(text))
  <2> HIDE DEF V, step
  <2>1. QED
    BY <1>0, <1>1, AccumulationExists
<1>3. ASSUME NEW n \in 0 .. Len(text)
      PROVE  f[n] = IF n = 0 THEN 1 ELSE f[n - 1] * Len(Options(text[n]))
  <2>1. f[n] = IF n = 0 THEN 1 ELSE step[n][f[n - 1]]
    <3> HIDE DEF V, step
    <3>1. QED
      BY <1>2 DEF Accumulates
  <2>2. CASE n # 0
    <3> HIDE DEF V
    <3>1. n \in Nat /\ n - 1 \in 0 .. Len(text) /\ n \in 1 .. Len(text)
      BY <1>0, <2>2
    <3>2. f[n - 1] \in V
      BY <1>2, <3>1
    <3>3. QED
      BY <2>1, <2>2, <3>1, <3>2
  <2>3. QED
    BY <2>1, <2>2
<1> HIDE DEF step, V
<1>4. Rec(f)
  BY <1>2, <1>3
<1>5. Ambiguities(text) = CHOOSE f0 : Rec(f0)
  BY DEF Ambiguities
<1> HIDE DEF Rec
<1>6. Rec(Ambiguities(text))
  BY <1>4, <1>5
<1>7. QED
  BY <1>6 DEF Rec

-----------------------------------------------------------------------------
(* What the variants of a prefix are.                                      *)

\* v reads the first n characters of text, each as one of its options.
Reads(v, text, n) ==
  v \in [1 .. n -> Canonical] /\ \A i \in 1 .. n : v[i] \in ToSet(Options(text[i]))

LEMMA AppendIsFunction ==
  ASSUME NEW v \in Seq(Canonical), NEW n \in Nat, Len(v) = n, NEW c \in Canonical
  PROVE  /\ Append(v, c) \in [1 .. n + 1 -> Canonical]
         /\ Append(v, c)[n + 1] = c /\ \A i \in 1 .. n : Append(v, c)[i] = v[i]
<1> DEFINE w == Append(v, c)
<1>1. w \in Seq(Canonical) /\ Len(w) = n + 1
  OBVIOUS
<1>2. w[n + 1] = c /\ \A i \in 1 .. n : w[i] = v[i]
  OBVIOUS
<1> HIDE DEF w
<1>3. w \in [1 .. n + 1 -> Canonical]
  BY <1>1
<1>4. QED
  BY <1>2, <1>3 DEF w

LEMMA ReadsOneMore ==
  ASSUME NEW text \in Seq(Canonical), NEW n \in 0 .. Len(text) - 1, NEW v, Reads(v, text, n),
         NEW c \in Canonical, c \in ToSet(Options(text[n + 1]))
  PROVE  Reads(Append(v, c), text, n + 1)
<1>1. n \in Nat /\ v \in Seq(Canonical) /\ Len(v) = n
  BY DEF Reads
<1>2. /\ Append(v, c) \in [1 .. n + 1 -> Canonical]
      /\ Append(v, c)[n + 1] = c /\ \A i \in 1 .. n : Append(v, c)[i] = v[i]
  BY <1>1, AppendIsFunction
<1>3. QED
  BY <1>1, <1>2 DEF Reads

LEMMA ReadsOneLess ==
  ASSUME NEW text \in Seq(Canonical), NEW n \in 0 .. Len(text) - 1, NEW v, Reads(v, text, n + 1)
  PROVE  \E u : /\ Reads(u, text, n) /\ v = Append(u, v[n + 1])
                /\ v[n + 1] \in ToSet(Options(text[n + 1]))
<1> DEFINE u == [i \in 1 .. n |-> v[i]]
<1>1. n \in Nat /\ v \in [1 .. n + 1 -> Canonical]
  BY DEF Reads
<1>2. u \in Seq(Canonical) /\ Len(u) = n /\ v[n + 1] \in Canonical
  BY <1>1
<1>3. /\ Append(u, v[n + 1]) \in [1 .. n + 1 -> Canonical]
      /\ Append(u, v[n + 1])[n + 1] = v[n + 1]
      /\ \A i \in 1 .. n : Append(u, v[n + 1])[i] = u[i]
  <2> HIDE DEF u
  <2>1. QED
    BY <1>1, <1>2, AppendIsFunction
<1>4. \A i \in 1 .. n + 1 : Append(u, v[n + 1])[i] = v[i]
  BY <1>1, <1>3
<1>5. v = Append(u, v[n + 1])
  BY <1>1, <1>3, <1>4
<1>6. Reads(u, text, n) /\ v[n + 1] \in ToSet(Options(text[n + 1]))
  BY <1>1 DEF Reads
<1>7. QED
  BY <1>5, <1>6

\* Every variant reads its prefix.
LEMMA ExpandedAreReadings ==
  ASSUME NEW text \in Seq(Canonical)
  PROVE  \A n \in 0 .. Len(text) :
           /\ Expanded(text)[n] \in Seq(Seq(Canonical))
           /\ \A k \in 1 .. Len(Expanded(text)[n]) : Reads(Expanded(text)[n][k], text, n)
<1> DEFINE E == Expanded(text)
           S == {n \in 0 .. Len(text) :
                   /\ E[n] \in Seq(Seq(Canonical))
                   /\ \A k \in 1 .. Len(E[n]) : Reads(E[n][k], text, n)}
<1>1. Len(text) \in Nat
  OBVIOUS
<1>2. 0 \in S
  <2>1. 0 \in 0 .. Len(text) /\ E[0] = << <<>> >>
    BY <1>1, ExpandedStep
  <2>2. <<>> \in Seq(Canonical) /\ <<>> \in [1 .. 0 -> Canonical]
    OBVIOUS
  <2>3. << <<>> >> \in Seq(Seq(Canonical)) /\ Len(<< <<>> >>) = 1 /\ << <<>> >>[1] = <<>>
    BY <2>2
  <2>4. Reads(<<>>, text, 0)
    BY <2>2 DEF Reads
  <2> HIDE DEF E
  <2>5. E[0] \in Seq(Seq(Canonical)) /\ \A k \in 1 .. Len(E[0]) : Reads(E[0][k], text, 0)
    BY <2>1, <2>3, <2>4
  <2>6. QED
    BY <2>1, <2>5
<1>3. ASSUME NEW n \in 0 .. Len(text) - 1, n \in S PROVE n + 1 \in S
  <2>1. n + 1 \in 0 .. Len(text) /\ n + 1 # 0 /\ (n + 1) - 1 = n /\ text[n + 1] \in Canonical
    BY <1>1
  <2>2. E[n + 1] = Extend(E[n], text[n + 1])
    BY <2>1, ExpandedStep
  <2>3. E[n] \in Seq(Seq(Canonical)) /\ \A k \in 1 .. Len(E[n]) : Reads(E[n][k], text, n)
    BY <1>3
  <2> HIDE DEF E
  <2>4. E[n + 1] \in Seq(Seq(Canonical))
    BY <2>1, <2>2, <2>3, ExtendType
  <2>5. ASSUME NEW k \in 1 .. Len(E[n + 1]) PROVE Reads(E[n + 1][k], text, n + 1)
    <3>1. PICK j \in 1 .. Len(E[n]), c \in ToSet(Options(text[n + 1])) :
            c \in Canonical /\ Extend(E[n], text[n + 1])[k] = Append(E[n][j], c)
      <4>1. k \in 1 .. Len(Extend(E[n], text[n + 1]))
        BY <2>2
      <4>2. QED
        BY <2>1, <2>3, <4>1, ExtendComesFrom
    <3>2. Reads(E[n][j], text, n)
      BY <2>3, <3>1
    <3>3. QED
      BY <2>2, <3>1, <3>2, ReadsOneMore
  <2>6. QED
    BY <2>1, <2>4, <2>5
<1>4. \A n \in 0 .. Len(text) : n \in S
  <2> HIDE DEF S
  <2>1. QED
    BY <1>1, <1>2, <1>3, PrefixInduction
<1>5. QED
  BY <1>4

\* Below the cap every reading of a prefix is one of its variants.
LEMMA ReadingsAreExpanded ==
  ASSUME NEW text \in Seq(Canonical)
  PROVE  \A n \in 0 .. Len(text) :
           /\ Ambiguities(text)[n] \in Nat
           /\ Ambiguities(text)[n] <= MaxVariants =>
                /\ Len(Expanded(text)[n]) = Ambiguities(text)[n]
                /\ \A r : Reads(r, text, n) =>
                     \E k \in 1 .. Len(Expanded(text)[n]) : Expanded(text)[n][k] = r
<1> DEFINE E == Expanded(text)
           A == Ambiguities(text)
           Covers(n) == /\ Len(E[n]) = A[n]
                        /\ \A r : Reads(r, text, n) => \E k \in 1 .. Len(E[n]) : E[n][k] = r
           S == {n \in 0 .. Len(text) : A[n] \in Nat /\ (A[n] <= MaxVariants => Covers(n))}
<1>1. Len(text) \in Nat
  OBVIOUS
<1>2. 0 \in S
  <2>1. 0 \in 0 .. Len(text) /\ E[0] = << <<>> >> /\ A[0] = 1
    BY <1>1, ExpandedStep, AmbiguitiesStep
  <2>2. Len(<< <<>> >>) = 1 /\ << <<>> >>[1] = <<>>
    OBVIOUS
  <2>3. ASSUME NEW r, Reads(r, text, 0) PROVE r = <<>>
    BY <2>3 DEF Reads
  <2>4. Covers(0)
    BY <2>1, <2>2, <2>3
  <2>5. A[0] \in Nat
    BY <2>1
  <2> HIDE DEF A, Covers
  <2>6. QED
    BY <2>1, <2>4, <2>5
<1>3. ASSUME NEW n \in 0 .. Len(text) - 1, n \in S PROVE n + 1 \in S
  <2>1. n + 1 \in 0 .. Len(text) /\ n + 1 # 0 /\ (n + 1) - 1 = n /\ text[n + 1] \in Canonical
    BY <1>1
  <2> DEFINE o == Len(Options(text[n + 1]))
  <2>2. E[n + 1] = Extend(E[n], text[n + 1]) /\ A[n + 1] = A[n] * o
    BY <2>1, ExpandedStep, AmbiguitiesStep
  <2>3. E[n] \in Seq(Seq(Canonical))
    <3>1. n \in 0 .. Len(text)
      BY <1>1
    <3>2. QED
      BY <3>1, ExpandedAreReadings
  <2>4. A[n] \in Nat /\ (A[n] <= MaxVariants => Covers(n))
    BY <1>3
  <2>5. o \in Nat /\ o >= 1
    BY <2>1, OptionsAreLetters
  <2>6. A[n + 1] \in Nat /\ A[n] <= A[n + 1]
    <3> HIDE DEF A, o
    <3>1. A[n] * o \in Nat /\ A[n] <= A[n] * o
      BY <2>4, <2>5
    <3>2. QED
      BY <2>2, <3>1
  <2>7. ASSUME A[n + 1] <= MaxVariants PROVE Covers(n + 1)
    <3>1. Covers(n)
      <4> HIDE DEF A, Covers
      <4>1. QED
        BY <2>4, <2>6, <2>7, CapIsPositive
    <3>2. Len(E[n]) = A[n] /\ Len(E[n]) * o <= MaxVariants
      BY <2>2, <2>7, <3>1
    <3>3. Len(E[n + 1]) = A[n + 1]
      <4> HIDE DEF E, A
      <4>1. Len(Extend(E[n], text[n + 1])) = Len(E[n]) * Len(Options(text[n + 1]))
        BY <2>1, <2>3, <3>2, ExtendType
      <4>2. QED
        BY <2>2, <3>2, <4>1
    <3>4. ASSUME NEW r, Reads(r, text, n + 1)
          PROVE  \E k \in 1 .. Len(E[n + 1]) : E[n + 1][k] = r
      <4>1. PICK u : /\ Reads(u, text, n) /\ r = Append(u, r[n + 1])
                     /\ r[n + 1] \in ToSet(Options(text[n + 1]))
        BY <3>4, ReadsOneLess
      <4>2. PICK j \in 1 .. Len(E[n]) : E[n][j] = u
        BY <3>1, <4>1
      <4> HIDE DEF E
      <4>3. \E k \in 1 .. Len(Extend(E[n], text[n + 1])) :
              Extend(E[n], text[n + 1])[k] = Append(E[n][j], r[n + 1])
        BY <2>1, <2>3, <3>2, <4>1, <4>2, ExtendCovers
      <4>4. QED
        BY <2>2, <4>1, <4>2, <4>3
    <3>5. QED
      BY <3>3, <3>4
  <2> HIDE DEF A, Covers
  <2>8. QED
    BY <2>1, <2>6, <2>7
<1>4. \A n \in 0 .. Len(text) : n \in S
  <2> HIDE DEF S
  <2>1. QED
    BY <1>1, <1>2, <1>3, PrefixInduction
<1>5. QED
  BY <1>4

-----------------------------------------------------------------------------
(* The gate.                                                               *)

LEMMA ReadingIsRead ==
  ASSUME NEW tag \in Seq(Canonical), NEW r
  PROVE  r \in Readings(tag) <=>
           \E v : Reads(v, Prepared(tag), Len(Prepared(tag))) /\ r = Collapse(v)
<1> DEFINE p == Prepared(tag)
           full == {f \in BoundedSeq(Canonical, Len(p)) :
                      Len(f) = Len(p) /\ \A i \in DOMAIN p : f[i] \in ToSet(Options(p[i]))}
<1>1. p \in Seq(Canonical) /\ Len(p) \in Nat /\ DOMAIN p = 1 .. Len(p)
  BY PreparedIsText
<1>2. Readings(tag) = {Collapse(f) : f \in full}
  BY DEF Readings
<1> HIDE DEF p
<1>3. \A v : v \in full <=> Reads(v, p, Len(p))
  <2>1. ASSUME NEW v \in full PROVE Reads(v, p, Len(p))
    <3>1. v \in Seq(Canonical) /\ Len(v) = Len(p)
      BY <1>1 DEF BoundedSeq, SeqOf
    <3>2. v \in [1 .. Len(p) -> Canonical]
      BY <3>1
    <3>3. QED
      BY <1>1, <3>2 DEF Reads
  <2>2. ASSUME NEW v, Reads(v, p, Len(p)) PROVE v \in full
    <3>1. v \in [1 .. Len(p) -> Canonical]
      BY <2>2 DEF Reads
    <3>2. v \in BoundedSeq(Canonical, Len(p)) /\ Len(v) = Len(p)
      BY <1>1, <3>1 DEF BoundedSeq, SeqOf
    <3>3. QED
      BY <1>1, <2>2, <3>2 DEF Reads
  <2>3. QED
    BY <2>1, <2>2
<1> HIDE DEF full
<1>4. QED
  BY <1>2, <1>3 DEF p

LEMMA VariantsAreReadings ==
  ASSUME NEW tag \in Seq(Canonical)
  PROVE  /\ Variants(tag) \subseteq Readings(tag)
         /\ Ambiguity(tag) <= MaxVariants => Readings(tag) \subseteq Variants(tag)
<1> DEFINE p == Prepared(tag)
           E == Expanded(p)[Len(p)]
<1>1. p \in Seq(Canonical) /\ Len(p) \in 0 .. Len(p)
  BY PreparedIsText
<1>2. Variants(tag) = {Collapse(v) : v \in ToSet(E)}
  BY DEF Variants
<1>3. E \in Seq(Seq(Canonical)) /\ \A k \in 1 .. Len(E) : Reads(E[k], p, Len(p))
  BY <1>1, ExpandedAreReadings
<1>4. Ambiguity(tag) <= MaxVariants =>
        \A r : Reads(r, p, Len(p)) => \E k \in 1 .. Len(E) : E[k] = r
  BY <1>1, ReadingsAreExpanded DEF Ambiguity
<1> HIDE DEF E
<1>5. ToSet(E) = {E[k] : k \in 1 .. Len(E)}
  BY <1>3 DEF ToSet
<1>6. QED
  BY <1>2, <1>3, <1>4, <1>5, ReadingIsRead

\* The moderation gate blocks exactly what it should (gate.ts, leetspeak.ts).
LEMMA GateAlwaysExact == GateIsExact
<1>1. SUFFICES ASSUME NEW tag \in BoundedSeq(Canonical, MaxTag)
               PROVE  LET disguised == \E r \in Readings(tag) \cup {tag} : ContainsBlockedContent(r)
                      IN /\ IsBlockedName(tag) => disguised /\ tag \notin Allowlist
                         /\ (disguised /\ tag \notin Allowlist /\ Ambiguity(tag) <= MaxVariants) =>
                              ModerationGate(tag) # "allowed"
  BY DEF GateIsExact
<1>2. tag \in Seq(Canonical)
  BY LengthsAreOrdered DEF BoundedSeq, SeqOf
<1>3. Lower(tag) = tag
  BY <1>2, PreparedIsText
<1>4. IsBlockedName(tag) <=>
        /\ tag \notin Allowlist
        /\ ContainsBlockedContent(tag) \/ \E v \in Variants(tag) : ContainsBlockedContent(v)
  BY <1>3 DEF IsBlockedName
<1>5. IsBlockedName(tag) => ModerationGate(tag) # "allowed"
  BY DEF ModerationGate
<1>6. QED
  BY <1>2, <1>4, <1>5, VariantsAreReadings
=============================================================================
