CONSTANTS
  m1 = m1  m2 = m2  r1 = r1   s1 = s1  s2 = s2
  Managers <- TwoManagers
  Routes <- OneRoute
  Names = {"a", "b"}
  Sessions <- AllSessions
  RolloutSpecs <- ReplicaSpecs
  Edits <- NoEdits
  Usable <- AllSessions
  AgentDriven = TRUE
  MaxGeneration = 1
  MaxFaults = 0
  MaxAge = 0
SPECIFICATION Spec
SYMMETRY ManagerSymmetry
INVARIANTS
  PromotedMeansEveryStagePassed
PROPERTIES
  DecisionIsFinal
