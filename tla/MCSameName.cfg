CONSTANTS
  None = None
  red = red
  blue = blue
  redOwn = redOwn
  redFar = redFar
  blueOwn = blueOwn
  blueFar = blueFar
  kind = kind
  Mappings = {"chains"}
  Sources = {red, blue}
  Children = {redOwn, redFar, blueOwn, blueFar}
  Kinds = {kind}
  Specs = {"near"}
  SourceName <- MCSourceName
  KindOf <- MCKindOf
  TargetKinds <- MCTargetKinds
  CanOwn <- MCCanOwn
  Emit <- MCEmit
  MapError <- MCMapError
  PruneWhen <- MCPruneWhen
  StatusWhen <- MCStatusWhen
  Eligible <- MCEligible
  NonBlocking = {}
  InitiallyServed = {kind}
  Tampered = {redOwn, blueOwn}
  MaxEnv = 3
  MaxUid = 1
SPECIFICATION Spec
PROPERTY VerdictFromOwnChildren
CHECK_DEADLOCK FALSE
