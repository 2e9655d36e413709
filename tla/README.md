# Verification of the Kubedoop secret operator

TLA+ specifications of the CSI driver in this repository, checked with TLC on
small instances; every invariant that the code keeps, and that the CA manager implements
its abstract specification, is proved with TLAPS for instances of any size.

## The system

The driver runs as one plugin process per node (node server) and one controller
plugin (controller server), all from `cmd/csiplugin`. Kubernetes calls it through
gRPC; the processes share nothing but the API server.

| Part | Source | State | Concurrency and failures | Module |
| --- | --- | --- | --- | --- |
| CA manager | `internal/csi/backend/ca` | the CA Secret | many calls per process under `caMutex`, many processes on one Secret, informer caches that lag, conflicts, lost answers, restarts | `CertificateManager`, `TrustBundle` |
| autoTls backend | `internal/csi/backend/autotls.go` | certificates, restart time | one per publish | `CertLifetime`, `CertificateManager` |
| Node server | `internal/csi/node.go` | target paths, mounts, pod annotations | kubelet retries and deadlines, plugin crashes | `NodeVolume` |
| Kerberos backend | `internal/csi/backend/kerberos.go`, `pkg/kerberos` | KDC, temporary files | package mutex, several nodes on one KDC | `KerberosKeytab` |
| Controller server | `internal/csi/controllerserver.go` | none of its own | called before the pod is scheduled; builds a backend, so it also rotates CAs | `VolumeBinding`, `CertificateManager` |
| Volume context | `pkg/volume` | none | codec used on both sides of the PV | `VolumeBinding` (scope) |
| Backend selection, namespace policy | `backend.go`, `namespace_validator.go` | none | SecretClass read twice in a publish | `VolumeBinding` |
| k8sSearch, pod information | `k8s_search.go`, `pkg/pod_info` | listener cache | reads that race with PVCs, Listeners and the scheduler | `VolumeBinding` |
| gRPC server, driver | `pkg/server`, `driver.go`, `cmd/csiplugin` | socket, goroutines | signals, graceful stop, crashes and restarts | `DriverLifecycle` |
| Identity server, SecretClass controller, API types, utilities | | none | | not modelled: constant answers, an empty Reconcile, declarations, logging |

## Plan

1. CA manager and autoTls, with proofs (done).
2. Node server and Kerberos, with an inductive invariant and proofs for both (done).
3. k8sSearch from the PVC to the Secret, with the scope codec, the namespace policy
   and the topology, and proofs that what is served matches the scope (done).
4. The scoped addresses of certificates and keytabs, with proofs (done).
5. Driver life cycle: graceful stop waits for running calls, with a proof; restarts
   serve again (done).
6. The abstract bundle that `CertificateManager` implements, with a proof (done).

`NodeVolume` and `CertificateManager` each have a process die at any step of its calls;
`DriverLifecycle` shows which ends of a process cut calls off at all.

## CertLifetime, CertificateManager

A *call* is one NodePublishVolume (`Publishes`) or CreateVolume (`Creates`) for a
SecretClass with an autoTls backend. Its `pc` follows `NewCertificateManager`:
`getSecret` (a read of the process's informer `cache`, outside the mutex),
`atAfter := ...`, `caMutex.Lock`, load and drop expired CAs, self-sign, rotate,
create the Secret, update it, choose the signer, unlock, and for a publish sign.
Every step is an action of its own, so calls interleave between any two.

The Secret is the sequence `history` of its versions; a resourceVersion is an index.
An Update is accepted when the object's version is the current one; otherwise it
conflicts, and `RetryOnConflict` runs the closure again on the same object. A
request can be refused, and a stored one can lose its answer. A process can die
with its calls and its mutex. A CA is its author, its expiry and whether it is
self-signed; keys, serial numbers, PEM and PKCS#12 are left out. Time is the
integer `now`; durations are integers, jitter is a choice over every duration the
draw can give. No interceptor recovers, so a panic of a call (`Panics`, with `pc =
"panic"` for the call itself) ends the process with its other calls and its mutex. The
places that could panic are the type assertion to an RSA key when the Secret is loaded,
`slices.MinFunc` of no CAs, and a nil among the CAs that `GetTrustAnchors` walks over
(`Panicking`).

Two constructor arguments that `NewCertificateManager` never stores are the
operators `ManagerMaxCertificateLifeTime` (0) and `ManagerAdditionalTrustRoots` (none):
additional trust roots of a SecretClass are never delivered. The attempts after a
conflict send the object that conflicted (`UpdateConflicts` keeps `base`), so they
all conflict again, although the comments of `updateSecret` and
`getCertificateAuthority` speak of the latest object; the kubelet's next call succeeds.

| Run | Shows |
| --- | --- |
| `ca_rotation` | `BundleContinuity`: no version loses an unexpired CA. `NoSecondRoot`: no second root beside a valid CA. `IssuedFromStoredBundle`: nothing is signed by a CA that was not stored. `TrustAcrossRotation`: for half a CA lifetime after a pod's rotation check it trusts every certificate issued by any process under a CA that is still valid. `NeverPanics`: a call panics only over a CA key that is not RSA. `RestartInTime`: a pod is to restart after its publish and before its certificate expires, for buffers that are not negative. `ImplementsBundle`. `TypeOK` |
| `ca_race` | `ImplementsLiveBundle`: two writers that share `caMutex` and a third call in another process all end, through conflicts, retries, errors and deaths of their processes, and implement the bundle |
| `ca_manual_serves` | violated: with autoGenerate off nothing is ever issued |
| `ca_validity` | violated: the signing CA may expire before the pod restarts |

The key of a CA that the operator made is RSA; an administrator may have stored
another, and then every call that loads the Secret ends its process. Beyond that,
`NeverPanics` holds *because* `maxCertificateLifeTime` is not stored: with the field
set, `slices.DeleteFunc` would leave nils in `c.cas` for `GetTrustAnchors` to
dereference. The mutant of that property is exactly this change, so a fix of
`ca_validity` has to copy the slice first.

Bounds. `ca_rotation`: two publishes in two processes, CA lifetime 2, clock 0..3, so
that a CA is created, rotated and expires within a behaviour and a call can sleep
through each of these. `ca_race`: three calls in two processes, two of them writers,
at one instant: the clock plays no part in who waits for whom. Both start from
six Secrets (absent, empty, malformed, with a key that is not RSA, near expiry, one
expired beside a valid one). `RetrySteps` is 2 instead of 5: all attempts after the first are alike.
Calls are one-shot, so behaviours end and deadlock is not checked.

Fairness (`ca_race`): weak fairness of every step of a call that was begun.
The Go runtime schedules goroutines, `sync.Mutex` serves starving waiters first,
and the API client has timeouts.

## TrustBundle, CertificateManagerRefinement

`TrustBundle` says what all of this amounts to for a pod: one bundle of CAs, which
only loses what has expired and only grows at its young end. A request *joins* it
at one instant, perhaps extending it; its answer trusts the bundle of that instant
and is signed by the oldest CA in it. A failed request may have extended the bundle.
`Live` adds that no request waits forever.

`CertificateManagerRefinement` maps the newest version of the Secret to the bundle
and the `pc` of a call to the state of a request: *pending* up to the Update,
*joined* once the API server has accepted it, *answered* or *failed* at the end; a
call that panics has failed. Caches, the mutex, conflicts and retries are stutters; the
death of a process fails its requests together. `ImplementsBundle` (safety) is
checked in `ca_rotation`, where it has CAs that rotate and expire, and
`ImplementsLiveBundle` in `ca_race` under its fairness.

`CertificateManagerRefinementProofs` proves `Refinement`, `Spec => ImplementsBundle`,
from the invariant `IInv` below. `StepRefines` takes the steps of a call one by one:
an accepted Update joins the bundle (`UpdateJoins`; that it extends the bundle lawfully
is `Succeeds` of the call's CAs, `BundleExtends`), signing answers with the oldest CA
of the joined bundle (`SignAnswers`, from `CallInv`), errors fail the request
(`StepFails`) and the rest stutters. `DeathRefines` is the death of a process, by a panic or not.

## What is proved

Each proof module EXTENDS the module it is about and holds its inductive invariant
`IInv`, lemmas, and one theorem per property. `IInv` was checked with TLC on the
instances of the runs before it was proved. The theorems hold for all values of
the constants that the modules' named assumptions allow.

| Module | Theorems |
| --- | --- |
| `CertificateManagerProofs` | `TypeCorrect`, `Continuity`, `OneRoot`, `StoredBeforeUse`, `MutualTrust`, `PanicFree`, `TimelyRestart` |
| `CertificateManagerRefinementProofs` | `Refinement` |
| `NodeVolumeTypeProofs`, `NodeVolumeProofs` | `TypeCorrect`; `CompleteWhenServed`, `GoneWhenUnpublished` |
| `KerberosKeytabProofs` | `TypeCorrect`, `ValidKeytabs`, `CompleteConf`, `NoAdminKeytabLeft` |
| `VolumeContextProofs`, `VolumeBindingProofs` | `ScopeSurvives`; `TypeCorrect`, `SecretMatchesScope`, `CertificateNamesScope` |
| `DriverLifecycleProofs` | `TypeCorrect`, `StopKeepsCalls` |

Assumptions beyond the types of the constants: no request is both a publish and a
create (`ManagerAssumption`); CA lifetimes are positive; no Secret is labelled with an
empty node name, and no node has one (`BindingAssumption`). Without the last, a pod
that was cached before it was bound could be given a Secret labelled for the empty node.

Only model-checked: the liveness properties (`ImplementsLiveBundle`, `TornDownGone`,
`EveryProvisionEnds`, `EventuallyServed`, `StopsOnSignal`, `ServesAgain`), because
TLAPS does not reason about fairness and ENABLED, and the properties that the code
violates.

Many leaves name the prover, `Zenon`, which does them at once where the default
would first translate them for SMT.

### CertificateManager

None of the properties is inductive. `IInv` adds to them:

- `HistoryInv`: any two versions are related by `Succeeds` - the later one holds
  every CA of the earlier one that has not expired, and only newer CAs beside it;
  a self-signed one comes only when everything before has expired. It speaks of
  expiry at `now`, so `Tick` only weakens it.
- `CallInv(c)`: what a call holds in `cas` succeeds the version `base` it read, in
  the same sense; this is the fact that makes an accepted Update (whose `base` is
  the current version) extend the history correctly. It also ties `pc` to
  the clock values the call has read, and to `cas` being non-empty with
  every CA expiring after `atAfter`, which excludes every panic but that over a key
  (`PanicSource`); versions never change, so such a key stays in `history`.
- `CertInv(cert)`: a certificate's anchors are those of its version, the signer is
  the oldest of them, and the newest outlives half a CA lifetime from the check.
- `ClockInv`: rotation checks lie in the past, so a restart time comes after its check.

`MutualTrust` follows from `CertInv` of the two certificates and `HistoryInv` of their
two versions: the signer of the later one is its oldest CA, and the anchors of the
earlier one hold a CA that has not yet expired and is therefore no newer.

### NodeVolume

`TypeOK` is inductive by itself. `VolumeInv(v)` says of a volume whose handlers never
overlapped (`AloneInv`) that at most one handler runs, none beside an unpublish or
after an OK; that its tmpfs holds exactly the files which that handler has written so
far (`HandlerInv`); and that while nothing is mounted, neither the pod nor the
informer has a restart time of the volume. This last part is what makes the merge
patch right: `Patch` is the difference to a pod read from the cache, so a restart
time that the cache already had would be left out of it. `PublishFrame` and `VolumeFrame` show that
steps for one volume leave `VolumeInv` of the others alone, the pod's other volumes
included.

### KerberosKeytab

`ConfInv(c)` says who may write krb5.conf: a call that adds a principal holds its
process's mutex from `StartQuery` on, and a call that extracts keys (no mutex) finds
the file complete, because its own `AddPrincipal` got through before. `PartialInv`:
half a file has its writer holding the mutex, unless the disk fills. `AddedInv(c)`: the
principals a call has got past are in the KDC, so that Ktadd finds all their keys.

### VolumeBinding

`ScopeSurvives` is about the codec alone: for every scope, `NewvolumeContextFromMap` of
`ToMap` is that scope. It rests on `RankOnto` (the n-th item of a kind exists and is
unique, by counting positions) and `JoinedNames` (the names of a kind in a join of
parts are those of its part). `Names` is written with `Cardinality` instead of
recursion so that it can be proved about.

`IInv` has what a call has read and still relies on several reads later: `ScopeInv` (the
PV carries the PVC's scope; uses the codec's round trip), `CallInv` (the node in the
cached pod is the pod's node or missing; a NodePort Listener was seen before the
Secrets are listed) and `ServedInv` (the two properties). What is served is never changed later, and Listeners and PVCs only appear.

### DriverLifecycle

`GoroutineInv` relates the steps of main, the serving goroutine and the stopper to each
other and to the WaitGroup; `CallInv` says that a call runs only while the server
accepts or drains, unless Serve has failed.

## NodeVolume

Actions follow NodePublishVolume (everything before `mount()` is `Prepare`; then
`CheckPath`, `Mkdir`, `Mount`, one `WriteFile` per file, `UpdatePod`) and
NodeUnpublishVolume (`Unmount` or `UnmountFails`, `RemoveAll` or `RemoveAllFails`). A
target path is a directory with a `stack` of tmpfs; files carry the publish that
wrote them. The pod's annotations are read from a `cached` pod and written by a
merge patch. External: the kubelet (one awaited call per volume, retries, a
deadline after which it gives up while the handler runs on with a cancelled
context, removal of an empty target directory), the API server, crashes.

| Run | Shows |
| --- | --- |
| `node_teardown` | `ServedComplete`: after an OK the path shows exactly that call's files and the pod its restart time. `UnpublishedMeansGone`. `TornDownGone`, with deadlines, overlapping publishes and stacked mounts; its mutant returns Unmount's error as the FIXME in the code suggests: the volume could then never be unpublished |
| `node_pod` | `ServedComplete` for two volumes of a pod whose publishes patch the same annotations |
| `node_overlap` | violated: an abandoned publish and its retry both mount |

The history variable `overlapped` collects the volumes of which two handlers have run
at the same time, which takes a deadline of the kubelet. `ServedComplete` and
`UnpublishedMeansGone` are stated for the others: an abandoned publish may mount
beside its retry (`node_overlap`), or after NodeUnpublishVolume has answered OK.
A deadline of NodeUnpublishVolume itself is left out.

A publish that fails after `mount()` blocks its volume: every retry ends in "target
path already exists" until the pod is deleted.

Bounds: two publishes of one volume, two files and one crash, or one publish of each
of a pod's two volumes. Two publishes of a volume are enough for a retry and for an
overlap; `TornDownGone` reaches a stack of two. Each publish has a restart time of its own. Fairness (`node_teardown`):
handlers run on, the kubelet repeats NodeUnpublishVolume, and (strong fairness) a
mount that is tried again and again is not busy forever.

## KerberosKeytab

A call adds its principals one by one and extracts a keytab. Each kadmin query checks
for krb5.conf, writes it in two steps if it is missing, writes the admin keytab,
runs kadmin and removes the admin keytab; AddPrincipal does so under the package's
mutex, Ktadd without it. A key is named by the call that drew it. The code looks at
kadmin's exit status and not at its output; the environment is assumed to give 0 only
when the principal exists (created now or found) or the keytab has all its keys.

| Run | Shows |
| --- | --- |
| `kerberos` | `KeytabsStayValid`; `ConfCompleteWhenUsed`: the first query of every call is made under the mutex, which is what keeps Ktadd from reading half a file; `AdminKeytabRemoved`; `EveryProvisionEnds`, also when files are written in part |

`ConfCompleteWhenUsed` and `AdminKeytabRemoved` are stated for processes whose
disk does not fill (not in `FullDisks`): a half-written krb5.conf is used by every later call, and a half-written admin
keytab is not removed. Bounds: three calls with overlapping principals in two
processes. Fairness: steps run, the mutex is not withheld from a waiter forever,
and kadmin, which has no timeout in the code, exits.

## VolumeBinding

One volume from its PVC to its pod. CreateVolume and NodePublishVolume are sequences
of reads (`at` is the next one): the pod, the SecretClass, the PVCs and Listeners of
the scope, the Secrets; API objects change between any two of them. CreateVolume
ends in a PV with the encoded scope and a topology (`AnyNode`,
`GetQualifiedNodeNames`). NodePublishVolume ends in a Secret found by its labels
(`GetSecretData`, k8sSearch), or in a certificate or keytab for the addresses of the
scope (`SignCertificate`, `ProvisionKeytab`; how CAs and keys are handled there is
the matter of `CertificateManager` and `KerberosKeytab`). Either call can fail at any
step and is called again. The PodInfo of a call reads the mapping of listener
volumes once, so `MappingKnown` is evaluated once per call. A Secret is its
namespace, its labels and the node in its annotation; an address is the node, pod,
service or Listener that it belongs to. The Node, PVCs and Listeners are read one by
one, but PVCs and Listeners only ever appear and a read of the Node may give
nothing at any time, so that one step for all of them has the same outcomes.
External: the scheduler, the informer, the listener operator, administrators.

| Run | Shows |
| --- | --- |
| `volume_binding` | `ServedMatchesScope`: the Secret has every label that the PVC's annotation asks for, with the node the pod really is on, although pod and Listeners are read early or stale. `ServedNamesScope`: a certificate or keytab has the names of all services and mounted Listeners of the scope, and no others but the node's. `EventuallyServed`: no order of events leaves a volume stuck that can be served |
| `volume_namespace` | violated: NodePublishVolume checks the namespaces of one read of the SecretClass, and NewBackend uses another; when it changes in between, what is served may come from a namespace its policy forbids |
| `volume_node_address` | violated: `getNodeAddresses` drops the error of its read, and a pod that was cached before it was bound makes that read fail; the certificate then lacks the node |

CreateVolume does not check the namespace policy: with k8sSearch it only learns node
names, and with autoTls its NewBackend reads the CA Secret of the SecretClass, in
whatever namespace, and may write it. `ServedFromAllowedNamespace` is about publishes only.
`EventuallyServed` leaves out pods that the scheduler places and whose scope has
a NodePort Listener, with k8sSearch: `GetQualifiedNodeNames` then searches with the
empty node name, and CreateVolume fails until the pod has a node, which it only gets
with its volume. A pod without a subdomain has no names while its volumes are
being mounted (it has no IPs yet), so with the pod scope alone its certificate is
empty; a pod with hostNetwork may have IPs by then, which the model leaves out. Scope
items are well-formed (`service` and `listener-volume` carry a value).

`HasListenerNodeScope` also reads the ListenerClass of every Listener and dereferences
its service type. `EventuallyServed` assumes that the read works and the type is set.
The ClusterRole of the Helm chart grants the plugin `listeners` and not
`listenerclasses`; where nothing else grants them, k8sSearch volumes with a listener
scope are never served. A SecretClass without `spec.backend` passes the namespace policy
and panics in `determineBackendType`; here that is one of the ways in which a call
fails. The informer is taken to know no earlier pod of the same name, which could be
bound to another node.

Bounds: three PVCs (pod and node scope; a listener volume the pod lacks; a NodePort
Listener on a pod with a node), two nodes, three namespaces, five SecretClasses, three
Secrets: one instance of each case the code tells apart. Once the volume is served
nothing reads SecretClass and Secrets, so they stop changing. Behaviours then end, so
deadlock is not checked. Fairness: provisioner and kubelet call again, calls go on
and, from some time on, fail only when they have to (the API server's outages end);
scheduler, informer and listener operator do their work.

## DriverLifecycle

A plugin process and its successors: the main goroutine (`main`, `Driver.Run`,
`server.Wait`), the one that serves (`server.Start`), the one that calls `server.Stop`
when the context is done, and the manager's. gRPC, controller-runtime and the kubelet
are external; of gRPC the model has that GracefulStop closes the listener, waits for
the accept loop and the handlers, that Serve returns only after it, and that Serve
returns at once when it comes too late. The socket's file is absent, left by a dead
process, or bound by this one; a process that does not close it leaves it behind.

| Run | Shows |
| --- | --- |
| `driver_lifecycle` | `NoCallDropped`: main returns only after all accepted calls are answered, although it does not wait for the goroutine that drains them. `StopsOnSignal`: the goroutines do not wait for each other in a circle, whenever the signal comes. `ServesAgain`: after any signals, kills and failures the plugin serves again on its socket. `TypeOK`, with a WaitGroup that never goes below zero |

A second signal, an error of the manager and a kill cut running calls off; so does an
Accept that fails by itself, after which the process even ends with status 0: `Wait`
"returns any error that caused the stop" (`server.go:133`), but always returns nil.

Bounds: two calls and three disruptions, enough for a kill followed by a signal
and a second signal. An idle server may wait forever, so deadlock is not checked.
Fairness: goroutines run, handlers end (their requests have deadlines; kadmin is
assumed to exit), the kubelet restarts the container. Signals, failures and clients
are not fair. Two processes on one socket path are left out: the kubelet starts a
container after its predecessor has ended.

## Not modelled

The deletion of the CA Secret by an administrator, SecretClasses with different
CA lifetimes on one CA Secret, non-positive CA lifetimes, times below a tick, deletion of principals from
the KDC, reuse of a temporary file's random name.
The fields of the volume context other than the scope: names and formats are copied,
durations and the jitter factor (rounded to six decimals) go through their text form,
and the modules that use them take them as free constants. PVCs without an owner:
`getAssibleTopology` takes the first owner reference for the pod, which a PVC of an
ephemeral volume always has. Identity server, SecretClass controller, API types, logging and
flags have no state. `getAdditionalTrustRoots` and its parsers are never reached with
a non-empty list.
