CONSTANTS
  Pubkeys = {alice, bob}
  Nonces = {n1, n2}
  Clients = {app}
  Calls = {c1, c2}
  None = none
  MaxFaults = 1

SPECIFICATION Spec

INVARIANTS
  TypeOK
  OneTokenPerChallenge
  SessionsAreWhole
  ChallengeStaysUsable
  IInv
