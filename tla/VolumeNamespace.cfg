\* The same volumes; the namespaces that are read while the SecretClass changes.
SPECIFICATION Spec
CONSTANTS
  n1 = n1
  n2 = n2
  app = app
  shared = shared
  system = system
  svc = svc
  lv1 = lv1
  lv2 = lv2
  l1 = l1
  l2 = l2
  None = None
  Nodes = {n1, n2}
  Namespaces = {app, shared, system}
  PodNamespace = app
  Blocked = {system}
  Services = {svc}
  ListenerOf <- MCListenerOf
  NodePort = {l1}
  IPOnly = {l2}
  Claims <- MCClaims
  Classes <- MCClasses
  SecretPool <- MCSecretPool
INVARIANT ServedFromAllowedNamespace
CHECK_DEADLOCK FALSE
