---------------------------- MODULE MCNodeVolume ----------------------------
(* Instances of NodeVolume for TLC. *)
EXTENDS NodeVolume

CONSTANTS p1, p2, p3, v1, v2, pod1, cert, key

\* p1 and p2 are attempts at the same volume, p3 is for another volume.
MCVolumeOf == [c \in Publishes |-> IF c = p3 THEN v2 ELSE v1]
MCPodOf == [v \in Volumes |-> pod1]

\* Two files for one volume; the other holds one file.
MCFilesOf == [c \in Publishes |-> IF c = p3 THEN {key} ELSE {cert, key}]

\* The second attempt's backend gives no expiry (k8sSearch, kerberos).
MCExpiryOf == [c \in Publishes |-> IF c = p1 THEN 1 ELSE IF c = p2 THEN 0 ELSE 3]
=============================================================================
