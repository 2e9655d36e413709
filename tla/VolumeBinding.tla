---------------------------- MODULE VolumeBinding ----------------------------
(***************************************************************************)
(* The life of a volume: CreateVolume turns the annotations of a PVC into   *)
(* the volume context and the topology of a PV, the pod is scheduled,       *)
(* NodePublishVolume decodes the context again and, depending on the        *)
(* SecretClass, finds a Secret by labels or makes a certificate or keytab   *)
(* for the addresses of the scope.  Both sides read the API objects one by  *)
(* one while they are created and changed, and both are called again after  *)
(* an error.  Schedulers, administrators and the listener operator are      *)
(* external.                                                               *)
(***************************************************************************)
EXTENDS Naturals, Sequences, FiniteSets

CONSTANTS
  Nodes,
  Namespaces,
  PodNamespace,
  Blocked,       \* the system namespaces
  Services,
  ListenerOf,    \* listener volume -> Listener named by its PVC
  NodePort,      \* Listeners whose class has the service type NodePort
  IPOnly,        \* Listeners all of whose addresses are IPs
  Claims,        \* PVCs to choose from, see Claim
  Classes,       \* contents of the SecretClass, see Class
  SecretPool,    \* Secrets with the label of the SecretClass, see Secret
  None

ListenerVolumes == DOMAIN ListenerOf
Listeners == {ListenerOf[v] : v \in ListenerVolumes}

\* An item of the scope annotation; "pod" and "node" have no name.
Item == [kind: {"pod", "node", "service", "listener-volume"},
         name: ListenerVolumes \cup Services \cup {None}]

\* scope: the annotation; volumes: listener volumes in the pod's spec;
\* preset: spec.nodeName of a pod that bypasses the scheduler; subdomain:
\* whether the pod has one, and so DNS names.
Claim == [scope: Seq(Item), volumes: SUBSET ListenerVolumes, preset: Nodes \cup {None},
          subdomain: BOOLEAN]

\* refs: namespaces that kerberosKeytab and autoTls name; search:
\* k8sSearch.searchNamespace; allowed: the allowed-namespaces annotation.
Class == [backends: SUBSET {"KerberosKeytab", "AutoTls", "K8sSearch"}, refs: SUBSET Namespaces,
          search: Namespaces \cup {"pod", "none"}, allowed: SUBSET Namespaces]

ASSUME BindingAssumption ==
  /\ PodNamespace \in Namespaces /\ Blocked \subseteq Namespaces
  /\ NodePort \subseteq Listeners /\ IPOnly \subseteq Listeners
  /\ Claims \subseteq Claim /\ Classes \subseteq Class
  /\ \A s \in SecretPool : s.ns \in Namespaces /\ s.annotation \in Nodes \cup {None}
  \* No Secret is labelled for the node without a name.
  /\ None \notin Nodes /\ \A s \in SecretPool : <<"node", None>> \notin s.labels

VARIABLES
  claim,     \* the PVC and its pod
  class,     \* the SecretClass
  secrets,   \* Secrets that exist
  pvcs,      \* listener volumes whose PVC exists
  listeners, \* Listeners that exist
  ready,     \* Listeners with addresses in their status
  node,      \* spec.nodeName of the pod
  cached,    \* the same in the node plugin's informer (not an earlier pod of that name)
  pv,        \* scope and topology of the PV ({}: any node), or None
  job,       \* the running call: "create" or "publish"
  at,        \* its next step, or "idle"
  seen,      \* what it has read: the pod's node, the SecretClass of its backend, node scope
  served     \* what the last publish delivered, from where, by which SecretClass, or None

objects == <<claim, class, secrets, pvcs, listeners, ready, node, cached>>
vars == <<objects, pv, job, at, seen, served>>

Nothing == [node |-> None, class |-> None, nodeScope |-> FALSE]

TypeOK ==
  /\ claim \in Claims /\ class \in Classes
  /\ secrets \subseteq SecretPool /\ pvcs \subseteq ListenerVolumes
  /\ listeners \subseteq Listeners /\ ready \subseteq listeners
  /\ node \in Nodes \cup {None} /\ cached \in {claim.preset, node}
  /\ pv # None => pv.scope \in Seq(Item) /\ pv.topology \subseteq Nodes
  /\ job \in {"create", "publish"}
  /\ at \in {"idle", "pod", "backend", "listeners", "list"}
  /\ served # None => served.from \subseteq Namespaces
  \* A publish runs for a PV on the pod's node only.
  /\ at # "idle" /\ job = "publish" => pv # None /\ node # None

Init ==
  /\ claim \in Claims /\ class \in Classes
  /\ secrets \in SUBSET SecretPool /\ pvcs = {} /\ listeners = {} /\ ready = {}
  /\ node = claim.preset /\ cached = claim.preset
  /\ pv = None /\ served = None
  /\ job = "create" /\ at = "idle" /\ seen = Nothing
-----------------------------------------------------------------------------
(***************************************************************************)
(* The volume context.                                                     *)
(***************************************************************************)
\* The names of the items of one kind, in their order.
Names(items, kind) ==
  LET of == {i \in DOMAIN items : items[i].kind = kind}
      Nth(n) == CHOOSE i \in of : Cardinality({j \in of : j <= i}) = n
  IN  [n \in 1 .. Cardinality(of) |-> items[Nth(n)].name]

decodeScope(items) ==
  [pod |-> Names(items, "pod") # <<>>, node |-> Names(items, "node") # <<>>,
   services |-> Names(items, "service"), listeners |-> Names(items, "listener-volume")]

Encoded(kind, names) == [i \in DOMAIN names |-> [kind |-> kind, name |-> names[i]]]

encodeScope(scope) ==
  (IF scope.pod THEN Encoded("pod", <<None>>) ELSE <<>>)
  \o (IF scope.node THEN Encoded("node", <<None>>) ELSE <<>>)
  \o Encoded("service", scope.services) \o Encoded("listener-volume", scope.listeners)

\* Of the volume context only the scope is kept: the SecretClass and the pod do
\* not change, and the other fields are for the other backends.
ToMap(scope) == encodeScope(scope)

NewvolumeContextFromMap(items) == decodeScope(items)

\* The scope that the running call works with.
Scope == NewvolumeContextFromMap(IF job = "create" THEN claim.scope ELSE pv.scope)
-----------------------------------------------------------------------------
(***************************************************************************)
(* The SecretClass.                                                        *)
(***************************************************************************)
\* A SecretClass without spec.backend panics here, one with an empty backend is
\* of no registered type: either way the call ends.
determineBackendType(c) ==
  IF "KerberosKeytab" \in c.backends THEN "KerberosKeytab"
  ELSE IF "AutoTls" \in c.backends THEN "AutoTls"
  ELSE IF "K8sSearch" \in c.backends THEN "K8sSearch" ELSE "unknown"

\* resolveAllowedNamespaces, without the blocked ones.
AllowedNamespaces(c) == ({PodNamespace} \cup c.allowed) \ Blocked

\* The namespaces that a SecretClass names, for whichever backend.
References(c) ==
  (IF c.backends \subseteq {"K8sSearch"} THEN {} ELSE c.refs)
  \cup (IF "K8sSearch" \in c.backends THEN {c.search} \cap Namespaces ELSE {})

ValidateCrossNamespaceReferences(c) == References(c) \subseteq AllowedNamespaces(c)

SearchNamespace(c) == IF c.search = "pod" THEN PodNamespace ELSE c.search
-----------------------------------------------------------------------------
(***************************************************************************)
(* Pod information and the search for Secrets.                             *)
(***************************************************************************)
\* Positions of the scope's listener volumes that the pod has.
Mounted ==
  LET names == Scope.listeners IN {i \in DOMAIN names : names[i] \in claim.volumes}

\* getScopedListenerVolumeNamesToPVCNameMapping drops the others.
ScopedVolumes ==
  LET names == Scope.listeners IN {names[i] : i \in DOMAIN names} \cap claim.volumes
ScopedListeners == {ListenerOf[v] : v \in ScopedVolumes}

\* Slip: every listener volume of the scope must be in the pod.
MappingStrict == ScopedVolumes \subseteq pvcs /\ Mounted = DOMAIN Scope.listeners

\* fetchScopedListenerVolumeNamesToListenerName reads the PVCs.
MappingKnown == ScopedVolumes \subseteq pvcs

\* Slip: a Listener that is not found is skipped.
NodeScopeSkipping == {\E l \in ScopedListeners : l \in NodePort /\ l \in listeners}

\* HasListenerNodeScope walks over a map, in any order, up to the first
\* NodePort Listener or the first error: the answers it may give.  It also ends
\* when the ListenerClass of a Listener cannot be read (an error) or has no
\* service type (a panic); then the call fails like any other.
HasListenerNodeScope ==
  {TRUE : l \in ScopedListeners \cap NodePort \cap listeners}
  \cup {FALSE : x \in IF ScopedListeners \subseteq listeners \ NodePort THEN {1} ELSE {}}

matchingLabels(nodeScope) ==
  LET scope == Scope IN
  (IF scope.pod THEN {<<"pod">>} ELSE {})
  \cup (IF scope.services # <<>> THEN {<<"service", scope.services>>} ELSE {})
  \cup (IF scope.node \/ nodeScope THEN {<<"node", seen.node>>} ELSE {})
  \cup {<<"listener", i, ListenerOf[scope.listeners[i]]>> : i \in Mounted}

\* getSecretList; an empty list is an error.
Found ==
  LET labels == matchingLabels(seen.nodeScope) IN
  {s \in secrets : s.ns = SearchNamespace(seen.class) /\ labels \subseteq s.labels}
-----------------------------------------------------------------------------
(***************************************************************************)
(* The addresses of the scope.                                             *)
(***************************************************************************)
\* getNodeAddresses takes an error of the read for a node without addresses;
\* a pod that is not known to have a node makes it fail.
getNodeAddresses == {{}} \cup {{<<"node", n>>} : n \in {seen.node} \ {None}}

\* getPodAddresses; the pods considered have no IPs while their volumes are
\* being mounted (one with hostNetwork may).
getPodAddresses == IF claim.subdomain THEN {<<"pod">>} ELSE {}

getServiceAddresses(names) == {<<"service", names[i]>> : i \in DOMAIN names}

\* Slip: a Listener that is not ready is skipped.
ListenerAddressesSkipping == {{<<"listener", l>> : l \in ScopedListeners \cap ready}}

\* getScopedListenerAddresses, no answer when it ends in an error: a Listener
\* that is not found, or one without addresses.
getScopedListenerAddresses ==
  {{<<"listener", l>> : l \in ScopedListeners} : x \in IF ScopedListeners \subseteq ready THEN {1} ELSE {}}

\* The answers that GetScopedAddresses may give.
GetScopedAddresses ==
  LET scope == Scope IN
  {nodeAddresses
   \cup (IF scope.pod THEN getPodAddresses ELSE {})
   \cup getServiceAddresses(scope.services)
   \cup listenerAddresses :
     nodeAddresses \in (IF scope.node THEN getNodeAddresses ELSE {{}}),
     listenerAddresses \in getScopedListenerAddresses}

\* getSANExt puts all addresses into the certificate; getPrincipals makes
\* principals of the host names only.
Hostnames(addresses) == addresses \ {<<"listener", l>> : l \in IPOnly}
-----------------------------------------------------------------------------
Step(from, to) == at = from /\ at' = to

\* The provisioner calls CreateVolume: the PVC is read and decoded.
CreateVolume ==
  /\ pv = None /\ Step("idle", "pod")
  /\ job' = "create"
  /\ UNCHANGED <<objects, pv, seen, served>>

\* The kubelet of the pod's node calls NodePublishVolume: the SecretClass is
\* read and its references are checked.
NodePublishVolume ==
  /\ pv # None /\ node # None /\ served = None
  /\ pv.topology = {} \/ node \in pv.topology
  /\ Step("idle", "pod")
  /\ ValidateCrossNamespaceReferences(class)
  /\ job' = "publish"
  /\ UNCHANGED <<objects, pv, seen, served>>

\* The cached pod may still lack its node.
GetPod ==
  /\ Step("pod", "backend")
  /\ seen' = [seen EXCEPT !.node = cached]
  /\ UNCHANGED <<objects, pv, job, served>>

\* NewBackend reads the SecretClass, for a publish once more.  The autoTls backend
\* builds its CA manager here, for CreateVolume without any check of namespaces.
NewBackend ==
  /\ Step("backend", "listeners")
  /\ determineBackendType(class) # "unknown"
  /\ seen' = [seen EXCEPT !.class = class]
  /\ UNCHANGED <<objects, pv, job, served>>

\* CreateVolume returns the volume.
Provision(nodes) == pv' = [scope |-> ToMap(Scope), topology |-> nodes]

Return == at' = "idle" /\ seen' = Nothing

\* The other backends name no nodes, and neither does k8sSearch when no
\* Listener has the node scope.
AnyNode ==
  /\ job = "create" /\ at = "listeners"
  /\ \/ determineBackendType(seen.class) \in {"KerberosKeytab", "AutoTls"}
     \/ determineBackendType(seen.class) = "K8sSearch" /\ MappingKnown /\ FALSE \in HasListenerNodeScope
  /\ Provision({}) /\ Return
  /\ UNCHANGED <<objects, job, served>>

CheckListeners ==
  /\ Step("listeners", "list")
  /\ determineBackendType(seen.class) = "K8sSearch" /\ MappingKnown
  /\ \E answer \in HasListenerNodeScope :
       /\ job = "create" => answer
       /\ seen' = [seen EXCEPT !.nodeScope = answer]
  /\ UNCHANGED <<objects, pv, job, served>>

\* Slip: a Secret without the annotation adds an empty node name.
GetQualifiedNodeNamesAll ==
  /\ job = "create" /\ at = "list"
  /\ Found # {}
  /\ Provision({s.annotation : s \in Found}) /\ Return
  /\ UNCHANGED <<objects, job, served>>

\* GetQualifiedNodeNames: the nodes that the found Secrets name in an
\* annotation; none means any node.
GetQualifiedNodeNames ==
  /\ job = "create" /\ at = "list"
  /\ Found # {}
  /\ Provision({s.annotation : s \in Found} \ {None}) /\ Return
  /\ UNCHANGED <<objects, job, served>>

\* What the pod gets, and the namespaces it was read from.
Serve(got, from) ==
  /\ served' = [got |-> got, from |-> from, class |-> seen.class]
  /\ Return

\* GetSecretData of k8sSearch takes the first Secret of the list.
GetSecretData ==
  /\ job = "publish" /\ at = "list"
  /\ \E s \in Found : Serve(s.labels, {s.ns})
  /\ UNCHANGED <<objects, pv, job>>

\* GetSecretData of autoTls: a certificate for the addresses.
SignCertificate ==
  /\ job = "publish" /\ at = "listeners"
  /\ determineBackendType(seen.class) = "AutoTls" /\ MappingKnown
  /\ \E addresses \in GetScopedAddresses : Serve(addresses, seen.class.refs)
  /\ UNCHANGED <<objects, pv, job>>

\* GetSecretData of kerberosKeytab: a keytab for the host names among them.
ProvisionKeytab ==
  /\ job = "publish" /\ at = "listeners"
  /\ determineBackendType(seen.class) = "KerberosKeytab" /\ MappingKnown
  /\ \E addresses \in GetScopedAddresses :
       Hostnames(addresses) # {} /\ Serve(Hostnames(addresses), seen.class.refs)
  /\ UNCHANGED <<objects, pv, job>>

\* Any step may fail; a step whose guard is false can only fail.
CallFails ==
  /\ at # "idle" /\ Return
  /\ UNCHANGED <<objects, pv, job, served>>
-----------------------------------------------------------------------------
\* The scheduler binds the pod to a node that its volume allows.
Schedule ==
  /\ node = None /\ pv # None
  /\ \E n \in Nodes : (pv.topology = {} \/ n \in pv.topology) /\ node' = n
  /\ UNCHANGED <<claim, class, secrets, pvcs, listeners, ready, cached, pv, job, at, seen, served>>

SyncPod ==
  /\ cached # node /\ cached' = node
  /\ UNCHANGED <<claim, class, secrets, pvcs, listeners, ready, node, pv, job, at, seen, served>>

CreatePVC(v) ==
  /\ v \in claim.volumes \ pvcs /\ pvcs' = pvcs \cup {v}
  /\ UNCHANGED <<claim, class, secrets, listeners, ready, node, cached, pv, job, at, seen, served>>

\* The listener operator makes the Listener of a PVC (one that was there before
\* cannot be told from one made at once), and later fills in its addresses.
CreateListener(l) ==
  /\ l \in {ListenerOf[v] : v \in pvcs} \ listeners /\ listeners' = listeners \cup {l}
  /\ UNCHANGED <<claim, class, secrets, pvcs, ready, node, cached, pv, job, at, seen, served>>

ReadyListener(l) ==
  /\ l \in listeners \ ready /\ ready' = ready \cup {l}
  /\ UNCHANGED <<claim, class, secrets, pvcs, listeners, node, cached, pv, job, at, seen, served>>

\* Changes of the SecretClass and of Secrets are followed until the volume is
\* served: nothing reads them afterwards.
ChangeSecretClass ==
  /\ served = None /\ class' \in Classes \ {class}
  /\ UNCHANGED <<claim, secrets, pvcs, listeners, ready, node, cached, pv, job, at, seen, served>>

\* A Secret is created or deleted.
ChangeSecrets(s) ==
  /\ served = None
  /\ secrets' = IF s \in secrets THEN secrets \ {s} ELSE secrets \cup {s}
  /\ UNCHANGED <<claim, class, pvcs, listeners, ready, node, cached, pv, job, at, seen, served>>

Proceed ==
  \/ GetPod \/ NewBackend \/ CheckListeners \/ AnyNode \/ GetQualifiedNodeNames
  \/ GetSecretData \/ SignCertificate \/ ProvisionKeytab

Next ==
  \/ CreateVolume \/ NodePublishVolume \/ Proceed \/ CallFails
  \/ Schedule \/ SyncPod \/ ChangeSecretClass
  \/ \E v \in ListenerVolumes : CreatePVC(v)
  \/ \E l \in Listeners : CreateListener(l) \/ ReadyListener(l)
  \/ \E s \in SecretPool : ChangeSecrets(s)

Spec == Init /\ [][Next]_vars

\* The provisioner and the kubelet call again after an error, and a call goes
\* on until it returns; from some time on calls only fail when they have to;
\* the scheduler, the informer and the listener operator do their work.
FairSpec ==
  /\ Spec
  /\ WF_vars(CreateVolume) /\ WF_vars(NodePublishVolume) /\ WF_vars(Proceed \/ CallFails)
  /\ <>[][CallFails => ~ENABLED Proceed]_vars
  /\ WF_vars(Schedule) /\ WF_vars(SyncPod)
  /\ WF_vars(\E v \in ListenerVolumes : CreatePVC(v))
  /\ WF_vars(\E l \in Listeners : CreateListener(l) \/ ReadyListener(l))
-----------------------------------------------------------------------------
(***************************************************************************)
(* Properties.                                                             *)
(***************************************************************************)
Wanted == decodeScope(claim.scope)
WantedListeners ==
  LET names == Wanted.listeners IN {i \in DOMAIN names : names[i] \in claim.volumes}
NodeListener ==
  LET names == Wanted.listeners IN \E i \in WantedListeners : ListenerOf[names[i]] \in NodePort

\* What the annotations of the PVC ask of a Secret for a pod on node n.
Asked(n) ==
  LET scope == Wanted IN
  (IF scope.pod THEN {<<"pod">>} ELSE {})
  \cup (IF scope.services # <<>> THEN {<<"service", scope.services>>} ELSE {})
  \cup (IF scope.node \/ NodeListener THEN {<<"node", n>>} ELSE {})
  \cup {<<"listener", i, ListenerOf[scope.listeners[i]]>> : i \in WantedListeners}

\* What a certificate or keytab of class c must name, whatever node the pod is on.
AskedNames(c) ==
  LET scope == Wanted
      names == (IF scope.pod /\ claim.subdomain THEN {<<"pod">>} ELSE {})
               \cup {<<"service", scope.services[i]>> : i \in DOMAIN scope.services}
               \cup {<<"listener", ListenerOf[scope.listeners[i]]>> : i \in WantedListeners}
  IN  IF determineBackendType(c) = "AutoTls" THEN names
      ELSE names \ {<<"listener", l>> : l \in IPOnly}

Searched == served # None /\ determineBackendType(served.class) = "K8sSearch"
Generated == served # None /\ ~Searched

\* The Secret that a pod gets carries the labels which the scope annotation of
\* its PVC asks for, with the node the pod really runs on: the scope survives
\* its way through the PV, and neither a pod cached before it was bound nor a
\* Listener that is not there yet makes the search match another node's
\* Secret (matchingLabels, HasListenerNodeScope).
ServedMatchesScope == Searched => Asked(node) \subseteq served.got

\* A certificate or keytab names every service and every mounted Listener of
\* the scope, and nothing beyond the scope but the pod's own node: it is never
\* made before all the Listeners have their addresses, in whatever order these
\* appear (getScopedListenerAddresses: "status not ready").
ServedNamesScope == Generated => served.got \ {<<"node", node>>} = AskedNames(served.class)

\* The comment of GetScopedAddresses, "get the node address if the scope
\* contains node": a certificate of a volume with the node scope names the node.
CertificateNamesNode ==
  Generated /\ Wanted.node /\ determineBackendType(served.class) = "AutoTls" =>
    <<"node", node>> \in served.got

\* What a pod gets was read from the pod's own namespace or from one that the
\* policy of its SecretClass allows, and system namespaces "are never allowed as
\* cross-namespace reference targets" (blockedNamespaces): NodePublishVolume checks
\* the references before NewBackend reads the SecretClass that it uses.
ServedFromAllowedNamespace ==
  served # None => served.from \subseteq {PodNamespace} \cup AllowedNamespaces(served.class)

\* The SecretClass is acceptable; a search has a Secret for every node, and its
\* Secrets name no other node than the one they are for; a keytab has a principal.
Servable ==
  /\ determineBackendType(class) # "unknown" /\ ValidateCrossNamespaceReferences(class)
  /\ determineBackendType(class) = "K8sSearch" =>
       /\ NodeListener => claim.preset # None
       /\ \A n \in Nodes :
            LET asked == Asked(n)
                for == {s \in secrets : s.ns = SearchNamespace(class) /\ asked \subseteq s.labels}
            IN  for # {} /\ \A s \in for : s.annotation \in {None, n}
  /\ determineBackendType(class) = "KerberosKeytab" => AskedNames(class) # {}

\* A volume that can be served reaches its pod in the end, in whatever order
\* PVCs, Listeners, Secrets and the SecretClass appear, and whatever calls
\* fail before.  Left out are pods that the scheduler places and whose scope
\* has a NodePort Listener, with k8sSearch: for them GetQualifiedNodeNames
\* searches for the label of a node that is not known yet, and CreateVolume
\* fails for ever.  The plugin is taken to be able to read ListenerClasses, and
\* these to have a service type.
EventuallyServed ==
  <>[]Servable /\ <>[][class' = class]_vars => <>(served # None)
=============================================================================
