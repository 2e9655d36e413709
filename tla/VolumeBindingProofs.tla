------------------------- MODULE VolumeBindingProofs -------------------------
(***************************************************************************)
(* Proofs about VolumeBinding, for every set of nodes, claims,              *)
(* SecretClasses and Secrets.                                               *)
(***************************************************************************)
EXTENDS VolumeContextProofs

(***************************************************************************)
(* The inductive invariant.                                                *)
(***************************************************************************)
SeenOK ==
  seen \in [node: Nodes \cup {None}, class: Classes \cup {None}, nodeScope: BOOLEAN]

\* The PV carries the scope of the PVC, and a preset node is never changed.
ScopeInv ==
  /\ pv # None => decodeScope(pv.scope) = Wanted
  /\ claim.preset # None => node = claim.preset

\* What the running call has read so far and relies on in its later steps.
CallInv ==
  /\ at \in {"backend", "listeners", "list"} /\ job = "publish" => seen.node \in {None, node}
  /\ at \in {"listeners", "list"} => seen.class \in Classes
  /\ at = "list" => determineBackendType(seen.class) = "K8sSearch"
  /\ at = "list" /\ job = "publish" => (NodeListener => seen.nodeScope)

ServedInv ==
  /\ served # None => node # None
  /\ ServedMatchesScope /\ ServedNamesScope

IInv == TypeOK /\ SeenOK /\ ScopeInv /\ CallInv /\ ServedInv

\* A running call works with the scope of the PVC, on either side of the PV.
LEMMA ScopeIsWanted ==
  ASSUME TypeOK, ScopeInv, at # "idle"
  PROVE  Scope = Wanted
<1>1. CASE job = "create"
  BY Zenon, <1>1 DEF Scope, Wanted, NewvolumeContextFromMap
<1>2. CASE job = "publish"
  BY Zenon, <1>2 DEF Scope, Wanted, NewvolumeContextFromMap, TypeOK, ScopeInv
<1> QED BY Zenon, <1>1, <1>2 DEF TypeOK

\* The Listeners that a call looks at are those that the PVC asks for.
LEMMA ListenersAreWanted ==
  ASSUME Scope = Wanted
  PROVE  /\ Mounted = WantedListeners
         /\ ScopedListeners = {ListenerOf[Wanted.listeners[i]] : i \in WantedListeners}
<1> DEFINE names == Wanted.listeners
<1>1. Mounted = WantedListeners
  BY Zenon DEF Mounted, WantedListeners
<1>2. ScopedVolumes = {names[i] : i \in DOMAIN names} \cap claim.volumes
  BY Zenon DEF ScopedVolumes
<1>3. WantedListeners = {i \in DOMAIN names : names[i] \in claim.volumes}
  BY Zenon DEF WantedListeners
<1> HIDE DEF names
<1>4. ScopedVolumes = {names[i] : i \in WantedListeners}
  BY Zenon, <1>2, <1>3
<1>5. ScopedListeners = {ListenerOf[names[i]] : i \in WantedListeners}
  BY Zenon, <1>4 DEF ScopedListeners
<1> QED BY Zenon, <1>1, <1>5 DEF names

\* HasListenerNodeScope answers FALSE only when no Listener of the scope has
\* the service type NodePort: it answers nothing while one is missing.
LEMMA NodeScopeAnswer ==
  ASSUME Scope = Wanted, NEW answer \in HasListenerNodeScope, NodeListener
  PROVE  answer
<1>1. PICK i \in WantedListeners : ListenerOf[Wanted.listeners[i]] \in NodePort
  BY Zenon DEF NodeListener
<1>2. ListenerOf[Wanted.listeners[i]] \in ScopedListeners \cap NodePort
  BY Zenon, <1>1, ListenersAreWanted
<1>3. ~(ScopedListeners \subseteq listeners \ NodePort)
  BY Zenon, <1>2
<1> QED BY Zenon, <1>3 DEF HasListenerNodeScope

\* A Secret that NodePublishVolume finds carries what the PVC asks for: a pod
\* cached without its node makes the search fail, as no Secret is labelled
\* for the node without a name.
LEMMA FoundMatches ==
  ASSUME IInv, at = "list", job = "publish", NEW s \in Found
  PROVE  Asked(node) \subseteq s.labels
<1>1. Scope = Wanted
  BY Zenon, ScopeIsWanted DEF IInv
<1>2. Mounted = WantedListeners
  BY Zenon, <1>1, ListenersAreWanted
<1>3. s \in SecretPool /\ matchingLabels(seen.nodeScope) \subseteq s.labels
  BY Zenon DEF Found, IInv, TypeOK
<1>4. seen.node \in {None, node} /\ (NodeListener => seen.nodeScope)
  BY Zenon DEF IInv, CallInv
<1>5. <<"node", None>> \notin s.labels
  BY Zenon, <1>3, BindingAssumption
<1>6. ASSUME Wanted.node \/ NodeListener
      PROVE  <<"node", node>> \in s.labels
  <2>1. <<"node", seen.node>> \in matchingLabels(seen.nodeScope)
    BY Zenon, <1>1, <1>4, <1>6 DEF matchingLabels
  <2>2. <<"node", seen.node>> \in s.labels
    BY Zenon, <1>3, <2>1
  <2> QED BY Zenon, <1>4, <1>5, <2>2
<1> DEFINE rest == (IF Wanted.pod THEN {<<"pod">>} ELSE {})
                   \cup (IF Wanted.services # <<>> THEN {<<"service", Wanted.services>>} ELSE {})
           labels == {<<"listener", i, ListenerOf[Wanted.listeners[i]]>> : i \in WantedListeners}
           nodes == IF Wanted.node \/ NodeListener THEN {<<"node", node>>} ELSE {}
<1>7. Asked(node) = rest \cup nodes \cup labels
  BY Zenon DEF Asked
<1>8. rest \cup labels \subseteq matchingLabels(seen.nodeScope)
  BY Zenon, <1>1, <1>2 DEF matchingLabels
<1>9. nodes \subseteq s.labels
  BY Zenon, <1>6
<1> HIDE DEF rest, nodes, labels
<1> QED BY Zenon, <1>3, <1>7, <1>8, <1>9

\* The addresses of a certificate are the names that the PVC asks for and, at
\* most, the pod's node: getScopedListenerAddresses gives no answer before
\* all Listeners are ready.
LEMMA AddressesMatch ==
  ASSUME IInv, at = "listeners", job = "publish", NEW addresses \in GetScopedAddresses,
         NEW c
  PROVE  /\ determineBackendType(c) = "AutoTls" =>
              addresses \ {<<"node", node>>} = AskedNames(c)
         /\ determineBackendType(c) # "AutoTls" =>
              Hostnames(addresses) \ {<<"node", node>>} = AskedNames(c)
<1>1. Scope = Wanted
  BY Zenon, ScopeIsWanted DEF IInv
<1> DEFINE pods == IF Wanted.pod /\ claim.subdomain THEN {<<"pod">>} ELSE {}
           services == {<<"service", Wanted.services[i]>> : i \in DOMAIN Wanted.services}
           found == {<<"listener", ListenerOf[Wanted.listeners[i]]>> : i \in WantedListeners}
           nodes == {<<"node", node>>}
<1>2. PICK nodeAddresses \in (IF Wanted.node THEN getNodeAddresses ELSE {{}}),
           listenerAddresses \in getScopedListenerAddresses :
        addresses = nodeAddresses \cup (IF Wanted.pod THEN getPodAddresses ELSE {})
                    \cup getServiceAddresses(Wanted.services) \cup listenerAddresses
  <2> DEFINE all(n, l) == n \cup (IF Wanted.pod THEN getPodAddresses ELSE {})
                          \cup getServiceAddresses(Wanted.services) \cup l
             places == IF Wanted.node THEN getNodeAddresses ELSE {{}}
  <2>1. GetScopedAddresses = {all(n, l) : n \in places, l \in getScopedListenerAddresses}
    BY <1>1 DEF GetScopedAddresses
  <2> HIDE DEF all, places
  <2>2. \E n \in places, l \in getScopedListenerAddresses : addresses = all(n, l)
    BY <2>1
  <2> QED BY Zenon, <2>2 DEF all, places
<1>3. nodeAddresses \subseteq nodes
  <2>1. seen.node \in {None, node}
    BY Zenon DEF IInv, CallInv
  <2> QED BY Zenon, <1>2, <2>1 DEF getNodeAddresses
<1>4. (IF Wanted.pod THEN getPodAddresses ELSE {}) = pods
  BY Zenon DEF getPodAddresses
<1>5. getServiceAddresses(Wanted.services) = services
  BY Zenon DEF getServiceAddresses
<1>6. listenerAddresses = found
  <2>1. listenerAddresses = {<<"listener", l>> : l \in ScopedListeners}
    BY Zenon, <1>2 DEF getScopedListenerAddresses
  <2>2. ScopedListeners = {ListenerOf[Wanted.listeners[i]] : i \in WantedListeners}
    BY Zenon, <1>1, ListenersAreWanted
  <2> QED BY Zenon, <2>1, <2>2
<1>7. <<"node", node>> \notin pods \cup services \cup found
  <2>1. <<"node", node>> # <<"pod">>
    OBVIOUS
  <2>2. \A x : <<"node", node>> # <<"service", x>> /\ <<"node", node>> # <<"listener", x>>
    OBVIOUS
  <2> QED BY Zenon, <2>1, <2>2
<1>8. AskedNames(c) = IF determineBackendType(c) = "AutoTls" THEN pods \cup services \cup found
                      ELSE (pods \cup services \cup found) \ {<<"listener", l>> : l \in IPOnly}
  BY Zenon DEF AskedNames
<1> HIDE DEF pods, services, found
<1>9. addresses \ nodes = pods \cup services \cup found
  BY <1>2, <1>3, <1>4, <1>5, <1>6, <1>7
<1> HIDE DEF nodes
<1>10. Hostnames(addresses) \ nodes
         = (pods \cup services \cup found) \ {<<"listener", l>> : l \in IPOnly}
  BY Zenon, <1>9 DEF Hostnames
<1> QED BY Zenon, <1>8, <1>9, <1>10 DEF nodes
-----------------------------------------------------------------------------
(***************************************************************************)
(* Every step preserves the invariant.                                     *)
(***************************************************************************)
\* The PVC is not changed, and so neither is what it asks for.
LEMMA ClaimFrame ==
  ASSUME claim' = claim
  PROVE  Wanted' = Wanted /\ (NodeListener' <=> NodeListener)
BY Zenon DEF Wanted, NodeListener, WantedListeners

\* What is served is not changed, and the pod stays on its node.
LEMMA ServedFrame ==
  ASSUME ServedInv, claim' = claim, served' = served, served # None => node' = node
  PROVE  ServedInv'
<1>1. CASE served = None
  BY Zenon, <1>1 DEF ServedInv, ServedMatchesScope, ServedNamesScope, Searched, Generated
<1>2. CASE served # None
  <2>1. node' = node
    BY Zenon, <1>2
  <2>2. ServedMatchesScope'
    BY <2>1, ClaimFrame
       DEF ServedInv, ServedMatchesScope, Searched, Asked, Wanted, WantedListeners, NodeListener,
           determineBackendType
  <2>3. ServedNamesScope'
    BY <2>1 DEF ServedInv, ServedNamesScope, Searched, Generated, AskedNames, Wanted,
                WantedListeners, determineBackendType
  <2> QED BY Zenon, <1>2, <2>1, <2>2, <2>3 DEF ServedInv
<1> QED BY Zenon, <1>1, <1>2

\* A step of the scheduler, the informer, the listener operator or an
\* administrator: a pod of a running or finished publish keeps its node.
LEMMA EnvironmentInv ==
  ASSUME IInv, UNCHANGED <<claim, pv, job, at, seen, served>>, TypeOK',
         node' = node \/ (node = None /\ node' \in Nodes)
  PROVE  IInv'
<1> USE DEF IInv
<1>1. SeenOK'
  BY Zenon DEF SeenOK
<1>2. served # None => node' = node
  BY Zenon DEF ServedInv
<1>3. ServedInv'
  BY Zenon, <1>2, ServedFrame
<1>4. ScopeInv'
  <2>1. Wanted' = Wanted
    BY Zenon, ClaimFrame
  <2>2. pv' # None => decodeScope(pv'.scope) = Wanted'
    BY Zenon, <2>1 DEF ScopeInv
  <2>3. claim'.preset # None => node' = claim'.preset
    BY Zenon, BindingAssumption DEF ScopeInv, TypeOK
  <2> QED BY Zenon, <2>2, <2>3 DEF ScopeInv
<1>5. CallInv'
  <2>1. at # "idle" /\ job = "publish" => node' = node
    BY Zenon DEF TypeOK
  <2>2. (at \in {"backend", "listeners", "list"} /\ job = "publish" => seen.node \in {None, node})'
    BY Zenon, <2>1 DEF CallInv
  <2>3. (at \in {"listeners", "list"} => seen.class \in Classes)'
    BY Zenon DEF CallInv
  <2>4. (at = "list" => determineBackendType(seen.class) = "K8sSearch")'
    BY Zenon DEF CallInv, determineBackendType
  <2>5. (at = "list" /\ job = "publish" => (NodeListener => seen.nodeScope))'
    BY Zenon, ClaimFrame DEF CallInv
  <2> QED BY Zenon, <2>2, <2>3, <2>4, <2>5 DEF CallInv
<1> QED BY Zenon, <1>1, <1>3, <1>4, <1>5

LEMMA EnvironmentSteps ==
  ASSUME IInv,
         \/ Schedule \/ SyncPod \/ ChangeSecretClass
         \/ \E v \in ListenerVolumes : CreatePVC(v)
         \/ \E l \in Listeners : CreateListener(l) \/ ReadyListener(l)
         \/ \E s \in SecretPool : ChangeSecrets(s)
  PROVE  IInv'
<1>1. CASE Schedule
  <2>1. TypeOK'
    BY Zenon, <1>1, BindingAssumption DEF IInv, Schedule, TypeOK, ScopeInv
  <2> QED BY Zenon, <1>1, <2>1, EnvironmentInv DEF Schedule
<1>2. CASE SyncPod
  <2>1. TypeOK'
    BY Zenon, <1>2 DEF IInv, SyncPod, TypeOK
  <2> QED BY Zenon, <1>2, <2>1, EnvironmentInv DEF SyncPod
<1>3. CASE ChangeSecretClass
  <2>1. TypeOK'
    BY Zenon, <1>3 DEF IInv, ChangeSecretClass, TypeOK
  <2> QED BY Zenon, <1>3, <2>1, EnvironmentInv DEF ChangeSecretClass
<1>4. ASSUME NEW v \in ListenerVolumes, CreatePVC(v) PROVE IInv'
  <2>1. TypeOK'
    BY Zenon, <1>4 DEF IInv, CreatePVC, TypeOK
  <2> QED BY Zenon, <1>4, <2>1, EnvironmentInv DEF CreatePVC
<1>5. ASSUME NEW l \in Listeners, CreateListener(l) PROVE IInv'
  <2>1. TypeOK'
    BY Zenon, <1>5 DEF IInv, CreateListener, TypeOK
  <2> QED BY Zenon, <1>5, <2>1, EnvironmentInv DEF CreateListener
<1>6. ASSUME NEW l \in Listeners, ReadyListener(l) PROVE IInv'
  <2>1. TypeOK'
    BY Zenon, <1>6 DEF IInv, ReadyListener, TypeOK
  <2> QED BY Zenon, <1>6, <2>1, EnvironmentInv DEF ReadyListener
<1>7. ASSUME NEW s \in SecretPool, ChangeSecrets(s) PROVE IInv'
  <2>1. TypeOK'
    BY Zenon, <1>7 DEF IInv, ChangeSecrets, TypeOK
  <2> QED BY <1>7, <2>1, EnvironmentInv DEF ChangeSecrets
<1> QED BY <1>1, <1>2, <1>3, <1>4, <1>5, <1>6, <1>7

\* A step of a call that only reads.
LEMMA ReadInv ==
  ASSUME IInv, UNCHANGED <<objects, pv, served>>, SeenOK', CallInv',
         job' \in {"create", "publish"}, at' \in {"idle", "pod", "backend", "listeners", "list"},
         at' # "idle" /\ job' = "publish" => pv # None /\ node # None
  PROVE  IInv'
<1> USE DEF objects
<1>1. TypeOK'
  BY Zenon DEF IInv, TypeOK
<1>2. ServedInv'
  BY Zenon, ServedFrame DEF IInv
<1>3. ScopeInv'
  BY Zenon, ClaimFrame DEF IInv, ScopeInv
<1> QED BY <1>1, <1>2, <1>3 DEF IInv

\* A call that returns has forgotten what it read.
LEMMA ReturnInv ==
  ASSUME Return
  PROVE  SeenOK' /\ CallInv'
<1>1. seen' = [node |-> None, class |-> None, nodeScope |-> FALSE] /\ at' = "idle"
  BY Zenon DEF Return, Nothing
<1>2. SeenOK'
  BY Zenon, <1>1 DEF SeenOK
<1>3. CallInv'
  BY Zenon, <1>1 DEF CallInv
<1> QED BY Zenon, <1>2, <1>3

LEMMA CreateVolumeInv ==
  ASSUME IInv, CreateVolume
  PROVE  IInv'
<1>1. SeenOK'
  BY Zenon DEF IInv, SeenOK, CreateVolume
<1>2. CallInv'
  BY Zenon DEF CallInv, CreateVolume, Step
<1> QED BY <1>1, <1>2, ReadInv DEF CreateVolume, Step

LEMMA NodePublishVolumeInv ==
  ASSUME IInv, NodePublishVolume
  PROVE  IInv'
<1>1. SeenOK'
  BY Zenon DEF IInv, SeenOK, NodePublishVolume
<1>2. CallInv'
  BY Zenon DEF CallInv, NodePublishVolume, Step
<1> QED BY <1>1, <1>2, ReadInv DEF NodePublishVolume, Step

\* The cached pod lacks its node or has the right one.
LEMMA GetPodInv ==
  ASSUME IInv, GetPod
  PROVE  IInv'
<1>1. cached \in Nodes \cup {None} /\ cached \in {None, node}
  <2>1. claim.preset \in Nodes \cup {None}
    BY Zenon, BindingAssumption DEF IInv, TypeOK, Claim
  <2> QED BY Zenon, <2>1 DEF IInv, TypeOK, ScopeInv
<1>2. SeenOK' /\ seen' = [seen EXCEPT !.node = cached]
  BY Zenon, <1>1 DEF IInv, SeenOK, GetPod
<1>3. at = "pod" /\ at' = "backend" /\ job' = job /\ UNCHANGED <<objects, pv, served>>
  BY Zenon DEF GetPod, Step
<1>4. seen'.node = cached
  BY Zenon, <1>2 DEF IInv, SeenOK
<1>5. CallInv'
  BY Zenon, <1>1, <1>3, <1>4 DEF CallInv, objects
<1> QED BY <1>2, <1>3, <1>5, ReadInv DEF IInv, TypeOK

LEMMA NewBackendInv ==
  ASSUME IInv, NewBackend
  PROVE  IInv'
<1>1. class \in Classes
  BY Zenon DEF IInv, TypeOK
<1>2. SeenOK' /\ seen' = [seen EXCEPT !.class = class]
  BY Zenon, <1>1 DEF IInv, SeenOK, NewBackend
<1>3. at = "backend" /\ at' = "listeners" /\ job' = job /\ UNCHANGED <<objects, pv, served>>
  BY Zenon DEF NewBackend, Step
<1>4. seen'.node = seen.node /\ seen'.class = class
  BY Zenon, <1>2 DEF IInv, SeenOK
<1>5. CallInv'
  BY <1>1, <1>3, <1>4 DEF IInv, CallInv, objects
<1> QED BY Zenon, <1>2, <1>3, <1>5, ReadInv DEF IInv, TypeOK

LEMMA CheckListenersInv ==
  ASSUME IInv, CheckListeners
  PROVE  IInv'
<1>1. PICK answer \in HasListenerNodeScope : seen' = [seen EXCEPT !.nodeScope = answer]
  BY Zenon DEF CheckListeners
<1>2. answer \in BOOLEAN
  BY Zenon DEF HasListenerNodeScope
<1>3. /\ SeenOK' /\ seen'.node = seen.node
      /\ seen'.class = seen.class /\ seen'.nodeScope = answer
  BY Zenon, <1>1, <1>2 DEF IInv, SeenOK
<1>4. /\ at = "listeners" /\ at' = "list" /\ job' = job /\ UNCHANGED <<objects, pv, served>>
      /\ determineBackendType(seen.class) = "K8sSearch"
  BY Zenon DEF CheckListeners, Step
<1>5. (at = "list" => determineBackendType(seen.class) = "K8sSearch")'
  BY Zenon, <1>3, <1>4 DEF determineBackendType
<1>6. NodeListener' => seen'.nodeScope
  <2>1. Scope = Wanted
    BY Zenon, <1>4, ScopeIsWanted DEF IInv
  <2>2. NodeListener => answer
    BY Zenon, <2>1, NodeScopeAnswer
  <2>3. claim' = claim
    BY Zenon, <1>4 DEF objects
  <2> QED BY <1>3, <2>2, <2>3, ClaimFrame
<1>7. CallInv'
  BY <1>3, <1>4, <1>5, <1>6 DEF IInv, CallInv, objects
<1> QED BY <1>3, <1>4, <1>7, ReadInv DEF IInv, TypeOK

LEMMA CallFailsInv ==
  ASSUME IInv, CallFails
  PROVE  IInv'
<1>1. SeenOK' /\ CallInv' /\ at' = "idle"
  BY Zenon, ReturnInv DEF CallFails, Return
<1> QED BY Zenon, <1>1, ReadInv DEF CallFails, IInv, TypeOK

\* CreateVolume returns a PV with the scope of the PVC.
LEMMA ProvisionInv ==
  ASSUME IInv, job = "create", NEW nodes \in SUBSET Nodes, Provision(nodes), Return,
         UNCHANGED <<objects, job, served>>
  PROVE  IInv'
<1> USE DEF objects
<1>1. Scope = Wanted
  BY Zenon DEF Scope, Wanted, NewvolumeContextFromMap
<1>2. Wanted \in Scopes
  <2>1. claim.scope \in Seq(Item)
    BY Zenon, BindingAssumption DEF IInv, TypeOK, Claim
  <2> QED BY Zenon, <2>1, DecodedType DEF Wanted
<1>3. ToMap(Wanted) \in Seq(Item) /\ decodeScope(ToMap(Wanted)) = Wanted
  BY Zenon, <1>2, ScopeSurvives DEF NewvolumeContextFromMap
<1>4. pv' = [scope |-> ToMap(Wanted), topology |-> nodes]
  BY Zenon, <1>1 DEF Provision
<1>5. pv'.scope = ToMap(Wanted) /\ pv'.topology = nodes
  BY Zenon, <1>4
<1>6. SeenOK' /\ CallInv' /\ at' = "idle"
  BY Zenon, ReturnInv DEF Return
<1>7. TypeOK'
  BY <1>3, <1>5, <1>6 DEF IInv, TypeOK
<1>8. ScopeInv'
  BY Zenon, <1>3, <1>5, ClaimFrame DEF IInv, ScopeInv
<1>9. ServedInv'
  BY Zenon, ServedFrame DEF IInv
<1> QED BY <1>6, <1>7, <1>8, <1>9 DEF IInv

LEMMA ProvisionSteps ==
  ASSUME IInv, AnyNode \/ GetQualifiedNodeNames
  PROVE  IInv'
<1>1. CASE AnyNode
  BY Zenon, <1>1, ProvisionInv DEF AnyNode
<1>2. CASE GetQualifiedNodeNames
  <2> DEFINE nodes == {s.annotation : s \in Found} \ {None}
  <2>1. \A s \in Found : s \in SecretPool
    BY Zenon DEF Found, IInv, TypeOK
  <2>2. nodes \in SUBSET Nodes
    BY Zenon, <2>1, BindingAssumption
  <2>3. Provision(nodes) /\ Return /\ job = "create" /\ UNCHANGED <<objects, job, served>>
    BY Zenon, <1>2 DEF GetQualifiedNodeNames
  <2> HIDE DEF nodes
  <2> QED BY <2>2, <2>3, ProvisionInv
<1> QED BY Zenon, <1>1, <1>2

\* NodePublishVolume ends with what the properties ask of it.
LEMMA ServeInv ==
  ASSUME IInv, NEW got, NEW from \in SUBSET Namespaces, Serve(got, from),
         job = "publish", at # "idle", UNCHANGED <<objects, pv, job>>,
         determineBackendType(seen.class) = "K8sSearch" => Asked(node) \subseteq got,
         determineBackendType(seen.class) # "K8sSearch" =>
           got \ {<<"node", node>>} = AskedNames(seen.class)
  PROVE  IInv'
<1> USE DEF objects
<1>1. served' = [got |-> got, from |-> from, class |-> seen.class]
  BY Zenon DEF Serve
<1>2. served'.got = got /\ served'.from = from /\ served'.class = seen.class
  BY Zenon, <1>1
<1>3. SeenOK' /\ CallInv' /\ at' = "idle"
  BY Zenon, ReturnInv DEF Serve, Return
<1>4. TypeOK'
  BY <1>2, <1>3 DEF IInv, TypeOK
<1>5. ScopeInv'
  BY Zenon, ClaimFrame DEF IInv, ScopeInv
<1>6. node' # None
  BY Zenon DEF IInv, TypeOK
<1>7. ServedMatchesScope'
  BY <1>2 DEF ServedMatchesScope, Searched, Asked, Wanted, WantedListeners, NodeListener,
              determineBackendType
<1>8. ServedNamesScope'
  BY <1>2 DEF ServedNamesScope, Searched, Generated, AskedNames, Wanted, WantedListeners,
              determineBackendType
<1> QED BY Zenon, <1>3, <1>4, <1>5, <1>6, <1>7, <1>8 DEF IInv, ServedInv

LEMMA GetSecretDataInv ==
  ASSUME IInv, GetSecretData
  PROVE  IInv'
<1>1. PICK s \in Found : Serve(s.labels, {s.ns})
  BY Zenon DEF GetSecretData
<1>2. job = "publish" /\ at = "list" /\ UNCHANGED <<objects, pv, job>>
  BY Zenon DEF GetSecretData
<1>3. s.ns \in Namespaces
  BY Zenon, BindingAssumption DEF Found, IInv, TypeOK
<1>4. Asked(node) \subseteq s.labels
  BY Zenon, <1>2, FoundMatches
<1>5. determineBackendType(seen.class) = "K8sSearch"
  BY Zenon, <1>2 DEF IInv, CallInv
<1> QED BY Zenon, <1>1, <1>2, <1>3, <1>4, <1>5, ServeInv

\* autoTls and kerberosKeytab read from namespaces that their SecretClass names.
LEMMA GeneratedFrom ==
  ASSUME IInv, at = "listeners"
  PROVE  seen.class.refs \in SUBSET Namespaces
BY Zenon, BindingAssumption DEF IInv, CallInv, Class

LEMMA SignCertificateInv ==
  ASSUME IInv, SignCertificate
  PROVE  IInv'
<1>1. PICK addresses \in GetScopedAddresses : Serve(addresses, seen.class.refs)
  BY Zenon DEF SignCertificate
<1>2. /\ job = "publish" /\ at = "listeners" /\ UNCHANGED <<objects, pv, job>>
      /\ determineBackendType(seen.class) = "AutoTls"
  BY Zenon DEF SignCertificate
<1>3. addresses \ {<<"node", node>>} = AskedNames(seen.class)
  BY Zenon, <1>2, AddressesMatch
<1> QED BY <1>1, <1>2, <1>3, GeneratedFrom, ServeInv

LEMMA ProvisionKeytabInv ==
  ASSUME IInv, ProvisionKeytab
  PROVE  IInv'
<1>1. PICK addresses \in GetScopedAddresses : Serve(Hostnames(addresses), seen.class.refs)
  BY Zenon DEF ProvisionKeytab
<1>2. /\ job = "publish" /\ at = "listeners" /\ UNCHANGED <<objects, pv, job>>
      /\ determineBackendType(seen.class) = "KerberosKeytab"
  BY Zenon DEF ProvisionKeytab
<1>3. Hostnames(addresses) \ {<<"node", node>>} = AskedNames(seen.class)
  BY Zenon, <1>2, AddressesMatch
<1> QED BY <1>1, <1>2, <1>3, GeneratedFrom, ServeInv

LEMMA InitIInv == Init => IInv
<1> SUFFICES ASSUME Init PROVE IInv
  OBVIOUS
<1> USE DEF Init
<1>1. TypeOK
  <2>1. claim.preset \in Nodes \cup {None}
    BY Zenon, BindingAssumption DEF Claim
  <2> QED BY Zenon, <2>1 DEF TypeOK
<1>2. SeenOK
  BY Zenon DEF SeenOK, Nothing
<1>3. ScopeInv
  BY Zenon DEF ScopeInv
<1>4. CallInv
  BY Zenon DEF CallInv
<1>5. ServedInv
  BY Zenon DEF ServedInv, ServedMatchesScope, ServedNamesScope, Searched, Generated
<1> QED BY <1>1, <1>2, <1>3, <1>4, <1>5 DEF IInv

LEMMA NextIInv == IInv /\ [Next]_vars => IInv'
<1> SUFFICES ASSUME IInv, [Next]_vars PROVE IInv'
  OBVIOUS
<1>1. CASE CreateVolume
  BY Zenon, <1>1, CreateVolumeInv
<1>2. CASE NodePublishVolume
  BY Zenon, <1>2, NodePublishVolumeInv
<1>3. CASE GetPod
  BY Zenon, <1>3, GetPodInv
<1>4. CASE NewBackend
  BY Zenon, <1>4, NewBackendInv
<1>5. CASE CheckListeners
  BY Zenon, <1>5, CheckListenersInv
<1>6. CASE AnyNode \/ GetQualifiedNodeNames
  BY Zenon, <1>6, ProvisionSteps
<1>7. CASE GetSecretData
  BY Zenon, <1>7, GetSecretDataInv
<1>8. CASE SignCertificate
  BY Zenon, <1>8, SignCertificateInv
<1>9. CASE ProvisionKeytab
  BY Zenon, <1>9, ProvisionKeytabInv
<1>10. CASE CallFails
  BY Zenon, <1>10, CallFailsInv
<1>11. CASE \/ Schedule \/ SyncPod \/ ChangeSecretClass
            \/ \E v \in ListenerVolumes : CreatePVC(v)
            \/ \E l \in Listeners : CreateListener(l) \/ ReadyListener(l)
            \/ \E s \in SecretPool : ChangeSecrets(s)
  BY Zenon, <1>11, EnvironmentSteps
<1>12. CASE UNCHANGED vars
  <2>1. TypeOK'
    BY Zenon, <1>12 DEF IInv, TypeOK, vars, objects
  <2>2. UNCHANGED <<claim, pv, job, at, seen, served>> /\ node' = node
    BY Zenon, <1>12 DEF vars, objects
  <2> QED BY <2>1, <2>2, EnvironmentInv
<1> QED
  BY Zenon, <1>1, <1>2, <1>3, <1>4, <1>5, <1>6, <1>7, <1>8, <1>9, <1>10, <1>11, <1>12
     DEF Next, Proceed
-----------------------------------------------------------------------------
(***************************************************************************)
(* Theorems.                                                               *)
(***************************************************************************)
\* Whatever PVCs, Listeners, Secrets and SecretClasses appear between the reads
\* of CreateVolume and NodePublishVolume, the invariant holds in every state.
THEOREM Inductive == Spec => []IInv
BY InitIInv, NextIInv, PTL DEF Spec

\* A publish runs only for a PV whose pod has a node, and the topology that
\* GetQualifiedNodeNames gives a PV consists of nodes.
THEOREM TypeCorrect == Spec => []TypeOK
<1>1. IInv => TypeOK
  BY Zenon DEF IInv
<1> QED BY <1>1, Inductive, PTL

\* The Secret that k8sSearch delivers carries the labels which the PVC asks
\* for, with the pod's real node, for every scope, every set of Listeners and
\* every staleness of the cached pod.
THEOREM SecretMatchesScope == Spec => []ServedMatchesScope
<1>1. IInv => ServedMatchesScope
  BY Zenon DEF IInv, ServedInv
<1> QED BY <1>1, Inductive, PTL

\* A certificate or keytab names all that the PVC asks for and nothing else
\* but the pod's node.
THEOREM CertificateNamesScope == Spec => []ServedNamesScope
<1>1. IInv => ServedNamesScope
  BY Zenon DEF IInv, ServedInv
<1> QED BY <1>1, Inductive, PTL
=============================================================================
