\* A publish and a CreateVolume that race in one process to create and update
\* the Secret, and in another process a publish that may not generate CAs.
SPECIFICATION FairSpec
CONSTANTS
  c1 = c1
  c2 = c2
  c3 = c3
  n1 = n1
  n2 = n2
  None = None
  Admin = Admin
  Publishes = {c1, c3}
  Creates = {c2}
  Procs = {n1, n2}
  ProcOf <- MCProcOf
  InitialVersions <- MCInitialVersions
  AutoGenerate = {c1, c2}
  CALifetime = 4
  AdditionalTrustRoots = {}
  RetrySteps = 2
  MaxTime = 0
  MaxCertLifetime = 2
  Lifetimes = {0}
  RestartBuffers = {0, 3}
  JitterPercents = {0}
  DefaultLifetime = 5
  DefaultBuffer = 1
  DefaultJitterPercent = 20
PROPERTY ImplementsLiveBundle
CHECK_DEADLOCK FALSE
