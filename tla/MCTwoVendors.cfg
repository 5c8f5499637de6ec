CONSTANTS
  None = None
  nvidia = nvidia
  amd = amd
  card = card
  DPU = DPU
  DPUFlavor = DPUFlavor
  DSCDevice = DSCDevice
  Mappings = {nvidia, amd}
  Sources = {card}
  Children = {DPU, DPUFlavor, DSCDevice}
  Kinds = {DPU, DPUFlavor, DSCDevice}
  Specs = {"bf3", "bf", "dsc", "bad"}
  SourceName <- MCSourceName
  KindOf <- MCKindOf
  TargetKinds <- MCTargetKinds
  CanOwn <- MCCanOwn
  Emit <- MCEmit
  MapError <- MCMapError
  PruneWhen <- MCPruneWhen
  StatusWhen <- MCStatusWhen
  Eligible <- MCEligible
  NonBlocking = {DPUFlavor, DSCDevice}
  InitiallyServed = {DPU, DPUFlavor}
  Tampered = {DPU}
  MaxEnv = 3
  MaxUid = 2
SPECIFICATION Spec
INVARIANT TypeOK
PROPERTY ForeignStatusKept
 
PROPERTY Converges
PROPERTY StatusMirrors
CHECK_DEADLOCK FALSE
