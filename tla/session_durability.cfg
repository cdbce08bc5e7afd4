SPECIFICATION Spec
CONSTANTS
  Terminals = {t1}
  MaxId = 5
  MaxConfig = 2
  Faults <- AllSites
  Ambiguous <- AllSites
INVARIANTS TypeOK UsedProofStaysUsed RevokedSessionStaysRevoked CommittedBeforeReply
