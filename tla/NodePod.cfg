\* Two volumes of one pod.
SPECIFICATION Spec
CONSTANTS
  p1 = p1
  p2 = p2
  p3 = p3
  v1 = v1
  v2 = v2
  pod1 = pod1
  cert = cert
  key = key
  None = None
  Volumes = {v1, v2}
  Pods = {pod1}
  Publishes = {p1, p3}
  VolumeOf <- MCVolumeOf
  PodOf <- MCPodOf
  Files = {cert, key}
  FilesOf <- MCFilesOf
  ExpiryOf <- MCExpiryOf
  MaxCrashes = 0
INVARIANT ServedComplete
CHECK_DEADLOCK FALSE
