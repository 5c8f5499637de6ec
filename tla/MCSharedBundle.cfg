CONSTANTS
  None = None
  cardA = cardA
  cardB = cardB
  dpuA = dpuA
  dpuB = dpuB
  bundle = bundle
  DPU = DPU
  BFB = BFB
  Mappings = {"dataprocessingunit"}
  Sources = {cardA, cardB}
  Children = {dpuA, dpuB, bundle}
  Kinds = {DPU, BFB}
  Specs = {"bf3"}
  SourceName <- MCSourceName
  KindOf <- MCKindOf
  TargetKinds <- MCTargetKinds
  CanOwn <- MCCanOwn
  Emit <- MCEmit
  MapError <- MCMapError
  PruneWhen <- MCPruneWhen
  StatusWhen <- MCStatusWhen
  Eligible <- MCEligible
  NonBlocking = {}
  InitiallyServed = {DPU, BFB}
  Tampered = {dpuA, dpuB, bundle}
  MaxEnv = 3
  MaxUid = 1
SPECIFICATION Spec
PROPERTY Converges
CHECK_DEADLOCK FALSE
