SPECIFICATION Spec
CONSTANTS
  outer = outer
  inner = inner
  self = self
  Names = {outer, inner, self}
  None = None
  Limit = 128
  MaxHops = 3
  Images <- ContextImages
INVARIANTS
  EveryTypeListed
  QualifiedByAncestors
PROPERTIES
  AcyclicTerminates
