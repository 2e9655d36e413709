------------------------- MODULE CertificateManager -------------------------
(***************************************************************************)
(* The CA manager (internal/csi/backend/ca/ca_manager.go) as the CSI plugin *)
(* processes run it: every NodePublishVolume and CreateVolume call for an   *)
(* autoTls SecretClass builds a certificateManager, which reads the CA      *)
(* Secret through the process's informer cache, adds or rotates CAs,        *)
(* writes the bundle back with optimistic concurrency and picks a signer.   *)
(* A call is one gRPC request; the kubelet's retry is another call.         *)
(***************************************************************************)
EXTENDS CertLifetime, Sequences

CONSTANTS
  Publishes,            \* NodePublishVolume calls
  Creates,              \* CreateVolume calls (they never sign)
  Procs,                \* plugin processes: one per node, and the controller
  ProcOf,               \* the process that serves a call
  None,                 \* no call
  Admin,                \* author of the CAs that were in the Secret at the start
  InitialVersions,      \* contents the Secret may start with, if it exists
  AutoGenerate,         \* the calls whose SecretClass has ca.autoGenerate
  CALifetime,           \* SecretClass ca.caCertificateLifeTime
  AdditionalTrustRoots, \* SecretClass additionalTrustRoots, as certificates
  RetrySteps,           \* retry.DefaultRetry.Steps
  MaxTime               \* bound of the clock

Calls == Publishes \cup Creates

\* A CA certificate.  A call never makes two CAs with the same NotAfter, so
\* its author and NotAfter stand for its serial number and key.
CA == [by: Calls \cup {Admin}, notAfter: Int, selfSigned: BOOLEAN]

\* A version of the Secret: the key pairs in it, and whether they are filed
\* as this code files them ("numbered": 0.ca.crt, 0.ca.key, 1.ca.crt, ...),
\* under other names, cannot be parsed, or hold a key that is not RSA ("Now, pem
\* key supports only RSA 256").
Version == [cas: SUBSET CA, layout: {"numbered", "other", "malformed", "notRSA"}]

ASSUME ManagerAssumption ==
  /\ Publishes \cap Creates = {}
  /\ ProcOf \in [Calls -> Procs]
  /\ None \notin Calls
  /\ Admin \notin Calls
  /\ InitialVersions \subseteq Version
  /\ AutoGenerate \subseteq Calls
  /\ CALifetime \in Nat \ {0}
  /\ RetrySteps \in Nat \ {0}
  /\ MaxTime \in Nat

VARIABLES
  now,       \* the wall clock, in ticks
  history,   \* every version the API server stored; its index is the resourceVersion
  cache,     \* version each process's informer holds (0: the Secret is unknown to it)
  mutex,     \* caMutex of each process: the call that holds it, or None
  pc,        \* where a call is, or how it ended
  base,      \* resourceVersion of c.caSecret (0: no UID, the Secret was not found)
  cas,       \* the CAs in c.caSecret.Data, then in c.cas
  atAfter,   \* getCertificateAuthority's local of that name
  tries,     \* Updates that already ended in a conflict
  checkedAt, \* (history variable) when the rotation check was made
  signer,    \* c.selectedCA
  issued     \* (history variable) certificates delivered, with their trust anchors

local == <<base, cas, atAfter, tries, checkedAt, signer>>
vars == <<now, history, cache, mutex, pc, local, issued>>

Working == {"clock", "lock", "load", "rotate", "create", "update", "select", "sign"}
Ended == {"done", "failed", "refused", "panic"}
Locked == {"load", "rotate", "create", "update", "select"}

\* The data of the version a read returned; getSecret makes an empty object
\* when the Secret is not found.
CAsOf(version) == IF version = 0 THEN {} ELSE history[version].cas
Malformed(version) == version # 0 /\ history[version].layout = "malformed"
NotRSA(version) == version # 0 /\ history[version].layout = "notRSA"
Current == Len(history)

Certificate ==
  [call: Publishes, signer: CA, anchors: SUBSET CA, roots: SUBSET AdditionalTrustRoots,
   version: Nat, checkedAt: Int, notAfter: Int, restartAt: Int]

TypeOK ==
  /\ now \in Nat
  /\ history \in Seq(Version)
  /\ cache \in [Procs -> 0 .. Current]
  /\ mutex \in [Procs -> Calls \cup {None}]
  /\ pc \in [Calls -> {"idle"} \cup Working \cup Ended]
  /\ base \in [Calls -> 0 .. Current]
  /\ cas \in [Calls -> SUBSET CA]
  /\ atAfter \in [Calls -> Int]
  /\ tries \in [Calls -> Nat]
  /\ checkedAt \in [Calls -> Int]
  /\ signer \in [Calls -> CA \cup {None}]
  /\ issued \subseteq Certificate

Init ==
  /\ now = 0
  /\ history \in {<<>>} \cup {<<v>> : v \in InitialVersions}
  /\ cache = [p \in Procs |-> Len(history)]
  /\ mutex = [p \in Procs |-> None]
  /\ pc = [c \in Calls |-> "idle"]
  /\ base = [c \in Calls |-> 0]
  /\ cas = [c \in Calls |-> {}]
  /\ atAfter = [c \in Calls |-> 0]
  /\ tries = [c \in Calls |-> 0]
  /\ checkedAt = [c \in Calls |-> 0]
  /\ signer = [c \in Calls |-> None]
  /\ issued = {}

Goto(c, from, to) ==
  /\ pc[c] = from
  /\ pc' = [pc EXCEPT ![c] = to]

\* The certificateManager of the calls in S is garbage.
Discard(S) ==
  /\ base' = [c \in Calls |-> IF c \in S THEN 0 ELSE base[c]]
  /\ cas' = [c \in Calls |-> IF c \in S THEN {} ELSE cas[c]]
  /\ atAfter' = [c \in Calls |-> IF c \in S THEN 0 ELSE atAfter[c]]
  /\ tries' = [c \in Calls |-> IF c \in S THEN 0 ELSE tries[c]]
  /\ checkedAt' = [c \in Calls |-> IF c \in S THEN 0 ELSE checkedAt[c]]
  /\ signer' = [c \in Calls |-> IF c \in S THEN None ELSE signer[c]]

\* Slip: no deferred Unlock.
ReturnWithoutUnlock(c, from, how) ==
  /\ Goto(c, from, how)
  /\ Discard({c})
  /\ UNCHANGED <<now, cache, mutex>>

\* The call returns; the deferred caMutex.Unlock runs if it holds the mutex.
Return(c, from, how) ==
  /\ Goto(c, from, how)
  /\ mutex' = IF from \in Locked THEN [mutex EXCEPT ![ProcOf[c]] = None] ELSE mutex
  /\ Discard({c})
  /\ UNCHANGED <<now, cache>>
-----------------------------------------------------------------------------
\* getSecret: a read of the informer cache, outside the mutex.
GetSecret(c) ==
  /\ Goto(c, "idle", "clock")
  /\ base' = [base EXCEPT ![c] = cache[ProcOf[c]]]
  /\ cas' = [cas EXCEPT ![c] = CAsOf(cache[ProcOf[c]])]
  /\ UNCHANGED <<now, history, cache, mutex, atAfter, tries, checkedAt, signer, issued>>

GetSecretFails(c) ==
  /\ Return(c, "idle", "failed")
  /\ UNCHANGED <<history, issued>>

\* Slip: the constructor stores its argument.
StoredMaxCertificateLifeTime == MaxCertLifetime

\* The constructor's literal leaves these two fields at their zero values.
ManagerMaxCertificateLifeTime == 0
ManagerAdditionalTrustRoots == {}

\* atAfter := time.Now().Add(c.maxCertificateLifeTime), before caMutex.Lock().
ReadClock(c) ==
  /\ Goto(c, "clock", "lock")
  /\ atAfter' = [atAfter EXCEPT ![c] = now + ManagerMaxCertificateLifeTime]
  /\ UNCHANGED <<now, history, cache, mutex, base, cas, tries, checkedAt, signer, issued>>

Lock(c) ==
  /\ Goto(c, "lock", "load")
  /\ mutex[ProcOf[c]] = None
  /\ mutex' = [mutex EXCEPT ![ProcOf[c]] = c]
  /\ UNCHANGED <<now, history, cache, local, issued>>

NewCA(c, isRoot) == [by |-> c, notAfter |-> now + CALifetime, selfSigned |-> isRoot]

Unexpired(set, time) == {ca \in set : ca.notAfter >= time}

\* getPEMKeyPairsFromSecret and the first half of getCertificateAuthorities:
\* parse, skip what has expired, self-sign when nothing is left.
LoadCAs(c) ==
  LET alive == Unexpired(cas[c], now) IN
  /\ ~Malformed(base[c]) /\ ~NotRSA(base[c])
  /\ alive # {} \/ c \in AutoGenerate
  /\ Goto(c, "load", "rotate")
  /\ cas' = [cas EXCEPT ![c] = IF alive = {} THEN {NewCA(c, TRUE)} ELSE alive]
  /\ UNCHANGED <<now, history, cache, mutex, base, atAfter, tries, checkedAt, signer, issued>>

LoadCAsFails(c) ==
  /\ \/ Malformed(base[c]) /\ Return(c, "load", "failed")
     \/ /\ ~Malformed(base[c]) /\ ~NotRSA(base[c])
        /\ c \notin AutoGenerate /\ Unexpired(cas[c], now) = {}
        /\ Return(c, "load", "failed")
  /\ UNCHANGED <<history, issued>>

IsNewest(ca, set) == ca \in set /\ \A other \in set : other.notAfter <= ca.notAfter
IsOldest(ca, set) == ca \in set /\ \A other \in set : ca.notAfter <= other.notAfter

AboutToExpire(ca) == now + (CALifetime \div 2) > ca.notAfter

\* rotateCertificateAuthority.
RotateCA(c) ==
  /\ c \in AutoGenerate
  /\ Goto(c, "rotate", IF base[c] = 0 THEN "create" ELSE "update")
  /\ \E newest \in cas[c] :
       /\ IsNewest(newest, cas[c])
       /\ cas' = [cas EXCEPT ![c] =
                    IF AboutToExpire(newest) THEN @ \cup {NewCA(c, FALSE)} ELSE @]
  /\ checkedAt' = [checkedAt EXCEPT ![c] = now]
  /\ UNCHANGED <<now, history, cache, mutex, base, atAfter, tries, signer, issued>>

\* With autoGenerate off rotation only logs, and saving the CAs is refused.
SaveRefused(c) ==
  /\ c \notin AutoGenerate
  /\ Return(c, "rotate", "refused")
  /\ UNCHANGED <<history, issued>>

\* Slip: AlreadyExists is taken for success and the existing object adopted.
CreateOrAdopt(c) ==
  /\ Goto(c, "create", "update")
  /\ history' = IF history = <<>> THEN <<[cas |-> {}, layout |-> "numbered"]>> ELSE history
  /\ base' = [base EXCEPT ![c] = Len(history')]
  /\ UNCHANGED <<now, cache, mutex, cas, atAfter, tries, checkedAt, signer, issued>>

\* secretCreateIfDoesNotExist: creates the Secret, still without data.
CreateSecret(c) ==
  /\ Goto(c, "create", "update")
  /\ history = <<>>
  /\ history' = Append(history, [cas |-> {}, layout |-> "numbered"])
  /\ base' = [base EXCEPT ![c] = Len(history')]
  /\ UNCHANGED <<now, cache, mutex, cas, atAfter, tries, checkedAt, signer, issued>>

\* AlreadyExists, a refused request, or a created Secret whose answer is lost.
CreateSecretFails(c) ==
  /\ \/ history # <<>> /\ Return(c, "create", "failed") /\ UNCHANGED history
     \/ Return(c, "create", "failed") /\ UNCHANGED history
     \/ /\ history = <<>>
        /\ Return(c, "create", "failed")
        /\ history' = Append(history, [cas |-> {}, layout |-> "numbered"])
  /\ UNCHANGED issued

\* The API server's side of an accepted Update.  Writing what is already there
\* makes no new version; CAs with equal NotAfter are numbered in any order.
Stored(set) ==
  LET new == [cas |-> set, layout |-> "numbered"]
      same == history[Current] = new
      tied == \E x, y \in set : x # y /\ x.notAfter = y.notAfter
  IN  \/ (same => tied) /\ history' = Append(history, new)
      \/ same /\ history' = history

\* Slip: the Update carries no resourceVersion.
UpdateUnconditionally(c) ==
  /\ Goto(c, "update", "select")
  /\ Stored(cas[c])
  /\ base' = [base EXCEPT ![c] = Len(history')]
  /\ UNCHANGED <<now, cache, mutex, cas, atAfter, tries, checkedAt, signer, issued>>

\* Slip: every Update is believed to make a new version.
UpdateAssumingBump(c) ==
  /\ Goto(c, "update", "select")
  /\ base[c] = Current
  /\ Stored(cas[c])
  /\ base' = [base EXCEPT ![c] = @ + 1]
  /\ UNCHANGED <<now, cache, mutex, cas, atAfter, tries, checkedAt, signer, issued>>

UpdateSecret(c) ==
  /\ Goto(c, "update", "select")
  /\ base[c] = Current
  /\ Stored(cas[c])
  /\ base' = [base EXCEPT ![c] = Len(history')]
  /\ UNCHANGED <<now, cache, mutex, cas, atAfter, tries, checkedAt, signer, issued>>

\* Slip: a conflict means that someone else saved the CAs, so go on.
IgnoreConflict(c) ==
  /\ base[c] # Current
  /\ Goto(c, "update", "select")
  /\ UNCHANGED <<now, history, cache, mutex, local, issued>>

\* A conflict: RetryOnConflict runs the closure again, on the same c.caSecret.
UpdateConflicts(c) ==
  /\ base[c] # Current
  /\ tries[c] + 1 < RetrySteps
  /\ Goto(c, "update", "load")
  /\ tries' = [tries EXCEPT ![c] = @ + 1]
  /\ UNCHANGED <<now, history, cache, mutex, base, cas, atAfter, checkedAt, signer, issued>>

\* The last conflict, a refused request, or a stored update whose answer is lost.
UpdateSecretFails(c) ==
  /\ \/ /\ base[c] # Current /\ tries[c] + 1 >= RetrySteps
        /\ Return(c, "update", "failed") /\ UNCHANGED history
     \/ Return(c, "update", "failed") /\ UNCHANGED history
     \/ base[c] = Current /\ Return(c, "update", "failed") /\ Stored(cas[c])
  /\ UNCHANGED issued

\* getAliveCertificateAuthority: slices.MinFunc of what slices.DeleteFunc
\* leaves; then the deferred Unlock.
SelectCA(c) ==
  LET alive == Unexpired(cas[c], atAfter[c]) IN
  /\ Goto(c, "select", "sign")
  /\ \E ca \in alive : IsOldest(ca, alive) /\ signer' = [signer EXCEPT ![c] = ca]
  /\ mutex' = [mutex EXCEPT ![ProcOf[c]] = None]
  /\ UNCHANGED <<now, history, cache, base, cas, atAfter, tries, checkedAt, issued>>

\* DeleteFunc works in place: an element that it deleted left a nil at the end
\* of c.cas.
LeftNil(c) == Unexpired(cas[c], atAfter[c]) # cas[c]

\* AutoTlsBackend.GetSecretData.
Sign(c) ==
  \E life \in Lifetimes, buffer \in RestartBuffers, percent \in JitterPercents :
  \E certLife \in CertLives(life, percent) :
    LET cert == [call |-> c, signer |-> signer[c], anchors |-> cas[c],
                 roots |-> ManagerAdditionalTrustRoots, version |-> base[c],
                 checkedAt |-> checkedAt[c], notAfter |-> now + certLife,
                 restartAt |-> now + certLife - Buffer(buffer)]
    IN
    /\ ~TooShort(certLife, buffer) /\ ~LeftNil(c)
    /\ Return(c, "sign", "done")
    /\ issued' = issued \cup {cert}
    /\ UNCHANGED history

\* The pod's addresses could not be read, or the lifetime is too short.
SignFails(c) ==
  /\ \/ Return(c, "sign", "failed")
     \/ /\ \E life \in Lifetimes, buffer \in RestartBuffers, percent \in JitterPercents :
             \E certLife \in CertLives(life, percent) : TooShort(certLife, buffer)
        /\ Return(c, "sign", "failed")
  /\ UNCHANGED <<history, issued>>

\* CreateVolume only asks GetQualifiedNodeNames, which is nil for autoTls.
NameNodes(c) ==
  /\ Return(c, "sign", "done")
  /\ UNCHANGED <<history, issued>>
-----------------------------------------------------------------------------
\* The informer's watch delivers the next version.
SyncCache(p) ==
  /\ cache[p] < Current
  /\ cache' = [cache EXCEPT ![p] = @ + 1]
  /\ UNCHANGED <<now, history, mutex, pc, local, issued>>

\* A process dies with its calls and its mutex, by a panic of one of them or
\* not (culprit = None); its successor's first list may come from an API server
\* that lags.
ProcessDies(p, culprit) ==
  LET dead == {c \in Calls : ProcOf[c] = p /\ pc[c] \in Working} IN
  /\ dead # {}
  /\ pc' = [c \in Calls |->
              IF c = culprit THEN "panic" ELSE IF c \in dead THEN "failed" ELSE pc[c]]
  /\ mutex' = [mutex EXCEPT ![p] = None]
  /\ Discard(dead)
  /\ \E version \in 0 .. Current : cache' = [cache EXCEPT ![p] = version]
  /\ UNCHANGED <<now, history, issued>>

Restart(p) == ProcessDies(p, None)

\* The next step of the call panics: the unchecked type assertion on a private
\* key, MinFunc of an empty slice, a nil among the trust anchors of a
\* certificate that was signed.
Panicking(c) ==
  CASE pc[c] = "load" -> NotRSA(base[c])
    [] pc[c] = "select" -> Unexpired(cas[c], atAfter[c]) = {}
    [] pc[c] = "sign" ->
         /\ c \in Publishes /\ LeftNil(c)
         /\ \E life \in Lifetimes, buffer \in RestartBuffers, percent \in JitterPercents :
              \E certLife \in CertLives(life, percent) : ~TooShort(certLife, buffer)
    [] OTHER -> FALSE

\* No interceptor of the gRPC server recovers, so a panic ends the process.
Panics(c) == Panicking(c) /\ ProcessDies(ProcOf[c], c)

Tick ==
  /\ now < MaxTime
  /\ now' = now + 1
  /\ UNCHANGED <<history, cache, mutex, pc, local, issued>>

Step(c) ==
  \/ GetSecret(c) \/ GetSecretFails(c) \/ ReadClock(c) \/ Lock(c)
  \/ LoadCAs(c) \/ LoadCAsFails(c) \/ RotateCA(c) \/ SaveRefused(c)
  \/ CreateSecret(c) \/ CreateSecretFails(c)
  \/ UpdateSecret(c) \/ UpdateConflicts(c) \/ UpdateSecretFails(c)
  \/ SelectCA(c)
  \/ c \in Publishes /\ (Sign(c) \/ SignFails(c))
  \/ c \in Creates /\ NameNodes(c)

Next ==
  \/ \E c \in Calls : Step(c) \/ Panics(c)
  \/ \E p \in Procs : SyncCache(p) \/ Restart(p)
  \/ Tick

Spec == Init /\ [][Next]_vars

\* A call that can go on does: the runtime schedules every goroutine, and
\* sync.Mutex hands itself to waiters in order once one has starved.
FairSpec == Spec /\ \A c \in Calls : WF_vars(pc[c] # "idle" /\ (Step(c) \/ Panics(c)))
-----------------------------------------------------------------------------
(***************************************************************************)
(* Properties.                                                             *)
(***************************************************************************)

\* Whatever processes, stale caches, conflicts, lost answers and restarts do,
\* no version of the CA Secret loses a CA that an earlier version held and
\* that has not expired, and CAs are added in order of their expiry
\* (updateCertificateAuthoritiesToSecret overwrites all the data each time).
BundleContinuity ==
  \A j \in 1 .. Current : \A i \in 1 .. j - 1 :
    /\ \A old \in history[i].cas \ history[j].cas : old.notAfter < now
    /\ \A new \in history[j].cas \ history[i].cas, old \in history[i].cas :
         old.notAfter < new.notAfter

\* "create a new self-signed certificate authority only no certificate
\* authority is found": a second root never enters the Secret beside a CA
\* that is still valid, even when several processes start at once.
NoSecondRoot ==
  \A j \in 1 .. Current : \A i \in 1 .. j - 1 :
    \A new \in history[j].cas \ history[i].cas, old \in history[i].cas :
      new.selfSigned => old.notAfter < now

\* A certificate is only delivered when the CA that signed it, and every CA
\* the pod is told to trust, is in a version of the Secret the API server
\* accepted: a signer that other pods could never learn of is not used.
IssuedFromStoredBundle ==
  \A cert \in issued :
    /\ cert.version \in 1 .. Current
    /\ cert.anchors = history[cert.version].cas
    /\ cert.signer \in cert.anchors

\* Pods trust each other across rotations: for half a CA lifetime after the
\* rotation check that preceded a pod's certificate, every certificate
\* delivered by any process, before or after, under a CA that is still valid
\* was signed by one of that pod's trust anchors.
TrustAcrossRotation ==
  \A mine, theirs \in issued :
    /\ now <= mine.checkedAt + (CALifetime \div 2)
    /\ theirs.signer.notAfter >= now
    => theirs.signer \in mine.anchors

\* A call of the manager only ever panics over a Secret with a key that is not
\* RSA, at the type assertion of NewCertificateAuthorityFromData:
\* getAliveCertificateAuthority never meets an empty slice and never leaves a
\* nil in c.cas for GetTrustAnchors, although atAfter is read before the call
\* waits for the mutex and CAs expire meanwhile.
NeverPanics ==
  \A c \in Calls : pc[c] = "panic" => \E version \in 1 .. Current : NotRSA(version)

\* "The pod should be restarted before the certificate expires" (GetSecretData):
\* the restart time of a delivered certificate lies between the call that made
\* it and the expiry, whatever lifetime, buffer and jitter the annotations set,
\* as long as the buffer is not negative.
RestartInTime ==
  RestartBuffers \subseteq Nat =>
    \A cert \in issued : cert.checkedAt <= cert.restartAt /\ cert.restartAt < cert.notAfter

\* The comment of getCertificateAuthorities: with autoGenerate off, a CA that
\* is about to expire is only logged "and will not affect the issuance of
\* service certificates".
ManualCAServes == \A c \in Calls : pc[c] # "refused"

\* The comment of GetSecretData: the pod restarts "while the current one is
\* still valid", so until restartAt the CA that signed the certificate is valid.
ValidUntilRestart ==
  \A cert \in issued : now <= cert.restartAt => cert.signer.notAfter >= now
=============================================================================
