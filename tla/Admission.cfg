SPECIFICATION Spec
CONSTANTS
  agent = agent
  dotted = dotted
  registry = registry
  mirror = mirror
  tag = tag
  old = old
  new = new
  bundle = bundle
  twin = twin
  file = file
  git = git
  model = model
  hotter = hotter
  instructions = instructions
  task = task
  tool = tool
  contract = contract
  serverA = serverA
  serverB = serverB
  judge = judge
  rubric = rubric
  stricter = stricter
  None = None
  Digests = {old, new, bundle, twin, instructions, contract, rubric, stricter}
  Short <- ShortOf
  Conforming = {agent}
  Deployments <- DeploymentsOf
  Edits <- EditsOf
  PodSpecs <- PodSpecsOf
  MaxDocuments = 2
  MaxObjects = 2
  MaxChanges = 3
INVARIANTS
  TypeOK
  
  FinishedIsAdmitted
  RecordedAsNamed
  EffectsAreAsserted
  OneRecorder
