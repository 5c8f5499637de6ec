CONSTANTS
  None = None
  red = red
  blue = blue
  redOwn = redOwn
  redFar = redFar
  blueOwn = blueOwn
  blueFar = blueFar
  kind = kind
  Mappings = {"chains"}
  Sources = {red, blue}
  Children = {redOwn, redFar, blueOwn, blueFar}
  Kinds = {kind}
  Specs = {"near", "far"}
  SourceName <- MCSourceName
  KindOf <- MCKindOf
  TargetKinds <- MCTargetKinds
  CanOwn <- MCCanOwn
  Emit <- MCEmit
  MapError <- MCMapError
  PruneWhen <- MCPruneWhen
  StatusWhen <- MCStatusWhen
  Eligible <- MCEligible
  NonBlocking = {}
  InitiallyServed = {kind}
  Tampered = {}
  MaxEnv = 4
  MaxUid = 2
SPECIFICATION Spec
INVARIANT AnnotatedChildGuarded
PROPERTY OnlyOwnChildrenDeleted
PROPERTY Converges
PROPERTY DeletionCompletes
CHECK_DEADLOCK FALSE
