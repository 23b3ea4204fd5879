CONSTANTS
  m1 = m1  m2 = m2  r1 = r1   s1 = s1  s2 = s2
  Managers <- OneManager
  Routes <- OneRoute
  Names = {"a", "b", "c"}
  Sessions <- AllSessions
  RolloutSpecs <- ManagedSpecs
  Edits <- ManagedEdits
  Usable <- FirstOnly
  AgentDriven = TRUE
  MaxGeneration = 2
  MaxFaults = 1
  MaxAge = 2
SPECIFICATION FairSpec
INVARIANTS
  TypeOK
  NeverServedAndMirrored
  WindowIsServed
  PromotedMeansEveryStagePassed
  RolledBackMeansNotServing
PROPERTIES
  ExposureFollowsTheOrder
  Resolves
