SPECIFICATION Spec
CONSTANTS
  a1 = a1
  a2 = a2
  b2 = b2
  Artifact <- MCArtifact
  Version = {1, 2}
  VersionOf <- MCVersionOf
  LuaOp = {o1}
  CliOp = {c1}
  None = None
INVARIANTS TypeOK RestoreReady SourceTruthful
