\* Two publishes on two nodes, CAs that live two ticks: rotation and expiry
\* happen between and during the calls.
SPECIFICATION Spec
CONSTANTS
  c1 = c1
  c2 = c2
  c3 = c3
  n1 = n1
  n2 = n2
  None = None
  Admin = Admin
  Publishes = {c1, c3}
  Creates = {}
  Procs = {n1, n2}
  ProcOf <- MCProcOf
  InitialVersions <- MCInitialVersions
  AutoGenerate = {c1, c3}
  CALifetime = 2
  AdditionalTrustRoots = {}
  RetrySteps = 2
  MaxTime = 3
  MaxCertLifetime = 1
  Lifetimes = {0}
  RestartBuffers = {0, 3}
  JitterPercents = {0}
  DefaultLifetime = 5
  DefaultBuffer = 1
  DefaultJitterPercent = 20
INVARIANTS
  TypeOK
  BundleContinuity
  NoSecondRoot
  IssuedFromStoredBundle
  TrustAcrossRotation
  NeverPanics
  RestartInTime
PROPERTY ImplementsBundle
CHECK_DEADLOCK FALSE
