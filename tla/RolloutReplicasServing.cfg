CONSTANTS
  m1 = m1  m2 = m2  r1 = r1   s1 = s1  s2 = s2
  Managers <- TwoManagers
  Routes <- OneRoute
  Names = {"a"}
  Sessions <- AllSessions
  RolloutSpecs <- OneCanarySpec
  Edits <- NoEdits
  Usable <- FirstOnly
  AgentDriven = TRUE
  MaxGeneration = 1
  MaxFaults = 0
  MaxAge = 1
SPECIFICATION Spec
INVARIANTS
  RolledBackMeansNotServing
