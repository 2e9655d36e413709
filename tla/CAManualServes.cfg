\* autoGenerate off, an administrator's CA that is still valid.
SPECIFICATION Spec
CONSTANTS
  c1 = c1
  c2 = c2
  c3 = c3
  n1 = n1
  n2 = n2
  None = None
  Admin = Admin
  Publishes = {c1}
  Creates = {}
  Procs = {n1}
  ProcOf <- MCProcOf
  InitialVersions <- ValidAdminCA
  AutoGenerate = {}
  CALifetime = 4
  AdditionalTrustRoots = {}
  RetrySteps = 2
  MaxTime = 2
  MaxCertLifetime = 2
  Lifetimes = {0}
  RestartBuffers = {0, 3}
  JitterPercents = {0}
  DefaultLifetime = 5
  DefaultBuffer = 1
  DefaultJitterPercent = 20
INVARIANT ManualCAServes
CHECK_DEADLOCK FALSE
