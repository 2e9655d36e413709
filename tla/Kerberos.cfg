\* Three calls in two processes whose principals overlap; in one of the
\* processes temporary files may be written in part.
SPECIFICATION FairSpec
CONSTANTS
  c1 = c1
  c2 = c2
  c3 = c3
  n1 = n1
  n2 = n2
  http = http
  nn = nn
  None = None
  Calls = {c1, c2, c3}
  Procs = {n1, n2}
  ProcOf <- MCProcOf
  Principals = {http, nn}
  PrincipalsOf <- MCPrincipalsOf
  FullDisks = {n2}
INVARIANTS
  TypeOK
  KeytabsStayValid
  ConfCompleteWhenUsed
  AdminKeytabRemoved
PROPERTY EveryProvisionEnds
CHECK_DEADLOCK FALSE
