\* One volume that is tried twice; the kubelet may give up on both calls, the
\* plugin may crash, the pod may be deleted at any time.
SPECIFICATION FairSpec
CONSTANTS
  p1 = p1
  p2 = p2
  p3 = p3
  v1 = v1
  v2 = v2
  pod1 = pod1
  cert = cert
  key = key
  None = None
  Volumes = {v1}
  Pods = {pod1}
  Publishes = {p1, p2}
  VolumeOf <- MCVolumeOf
  PodOf <- MCPodOf
  Files = {cert, key}
  FilesOf <- MCFilesOf
  ExpiryOf <- MCExpiryOf
  MaxCrashes = 1
INVARIANTS
  TypeOK
  ServedComplete
  UnpublishedMeansGone
PROPERTY TornDownGone
CHECK_DEADLOCK FALSE
