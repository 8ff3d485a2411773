SPECIFICATION Spec
CONSTANTS
  a = a
  b = b
  Canonical = {"l", "i", "b", "1", "_"}
  Other = {"L", "K", "-"}
  LowerOf <- MCLowerOf
  MinTag = 2
  MaxTag = 4
  StandsFor <- MCStandsFor
  MaxVariants = 4
  Terms <- MCTerms
  Allowlist <- MCAllowlist
  Reserved <- MCReserved
  CodeOf <- MCCodeOf
  Discriminator = 9
  KeyBytes = {1, 2}
  Bumps = {7}
  MoreBytes = {3, 7, 8, 9}
  Tags <- MCTags
  Keys = {a}
  Null = Null
  Gated = {"displayName", "bio"}
  Ungated = {"avatar"}
  Malformed = Malformed
  Asks <- MCAsks
  Patches = {p1, p2}
  Queries <- MCQueries
  FetchLimit = 2
  ResultLimit = 2
INVARIANTS TagRulesAgree GateReadsDisguises CodecIsExact BlockedLooksAbsent SearchFindsExact BackfillComplete
PROPERTIES ProfileIsPatched
SYMMETRY Symmetry
CHECK_DEADLOCK FALSE
