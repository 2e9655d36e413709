---------------------- MODULE CertificateManagerProofs ----------------------
(***************************************************************************)
(* Proofs about CertificateManager, for every set of calls and processes,   *)
(* every lifetime, clock bound and initial content of the Secret.           *)
(***************************************************************************)
EXTENDS CertificateManager, TLAPS

\* V may follow the versions 1..n of h at time t: what it drops has expired,
\* what it adds outlives everything before it, and a root it adds had no
\* unexpired CA that could have signed it.
Succeeds(h, t, V, n) ==
  \A k \in 1 .. n :
    /\ \A old \in h[k].cas \ V : old.notAfter < t
    /\ \A new \in V \ h[k].cas, old \in h[k].cas :
         /\ old.notAfter < new.notAfter
         /\ new.selfSigned => old.notAfter < t

HistoryInv == \A j \in 1 .. Current : Succeeds(history, now, history[j].cas, j - 1)

Outlives(set, time) == \E ca \in set : ca.notAfter >= time

\* What is known of a call at each of its steps.
CallInv(c) ==
  /\ pc[c] \in Working => Succeeds(history, now, cas[c], base[c])
  /\ pc[c] \in Working \ {"clock"} => atAfter[c] <= now
  /\ pc[c] \in {"rotate", "create", "update", "select", "sign"} =>
       /\ cas[c] # {}
       /\ Unexpired(cas[c], atAfter[c]) = cas[c]
  /\ pc[c] \in {"create", "update", "select", "sign"} =>
       Outlives(cas[c], checkedAt[c] + (CALifetime \div 2))
  /\ pc[c] = "update" => base[c] # 0
  /\ pc[c] \in {"select", "sign"} => base[c] # 0 /\ cas[c] = history[base[c]].cas
  /\ pc[c] = "sign" => IsOldest(signer[c], cas[c])

CertInv(cert) ==
  /\ cert.version \in 1 .. Current
  /\ cert.anchors = history[cert.version].cas
  /\ IsOldest(cert.signer, cert.anchors)
  /\ Outlives(cert.anchors, cert.checkedAt + (CALifetime \div 2))

\* No rotation check lies in the future, and so none lies after the restart
\* time of the certificate that followed it.
ClockInv ==
  /\ \A c \in Calls : checkedAt[c] <= now
  /\ \A cert \in issued :
       /\ cert.checkedAt <= cert.restartAt
       /\ RestartBuffers \subseteq Nat => cert.restartAt < cert.notAfter

IInv ==
  /\ TypeOK
  /\ HistoryInv
  /\ ClockInv
  /\ NeverPanics
  /\ \A c \in Calls : CallInv(c)
  /\ \A cert \in issued : CertInv(cert)
-----------------------------------------------------------------------------
(***************************************************************************)
(* Lemmas about Succeeds.                                                  *)
(***************************************************************************)

\* The history h2 is h, or h with one more version.
Extends(h2, h) == h2 = h \/ \E v \in Version : h2 = Append(h, v)

\* A stored version stays where it is, with its content, when another one is
\* appended.
LEMMA ExtendsKeeps ==
  ASSUME NEW h \in Seq(Version), NEW h2, Extends(h2, h)
  PROVE  /\ h2 \in Seq(Version)
         /\ Len(h) <= Len(h2)
         /\ \A k \in 1 .. Len(h) : h2[k] = h[k]
  BY DEF Extends

\* A stored version holds CAs.
LEMMA VersionHoldsCAs ==
  ASSUME NEW h \in Seq(Version), NEW n \in 0 .. Len(h), NEW k \in 1 .. n
  PROVE  h[k].cas \in SUBSET CA
  <1>1. h[k] \in Version
    OBVIOUS
  <1>2. QED
    BY Zenon, <1>1 DEF Version

\* What followed the stored versions still follows them later on: expired CAs
\* stay expired and stored versions do not change.
LEMMA SucceedsLater ==
  ASSUME NEW h \in Seq(Version), NEW h2, Extends(h2, h),
         NEW t \in Int, NEW t2 \in Int, t <= t2,
         NEW V \in SUBSET CA, NEW n \in 0 .. Len(h), Succeeds(h, t, V, n)
  PROVE  Succeeds(h2, t2, V, n)
  <1>1. \A k \in 1 .. n : h2[k] = h[k] /\ h[k].cas \in SUBSET CA
    BY ExtendsKeeps, VersionHoldsCAs
  <1>2. QED
    BY <1>1 DEF Succeeds, CA

\* A version that was read follows itself as well.
LEMMA SucceedsRead ==
  ASSUME NEW h \in Seq(Version), NEW t \in Int, NEW j \in 1 .. Len(h),
         Succeeds(h, t, h[j].cas, j - 1)
  PROVE  Succeeds(h, t, h[j].cas, j)
  BY DEF Succeeds

\* Skipping expired CAs, as getCertificateAuthorities does, keeps Succeeds.
LEMMA SucceedsUnexpired ==
  ASSUME NEW h \in Seq(Version), NEW t \in Int, NEW V \in SUBSET CA,
         NEW n \in 0 .. Len(h), Succeeds(h, t, V, n)
  PROVE  Succeeds(h, t, Unexpired(V, t), n)
  <1>1. \A ca \in V : ca.notAfter \in Int
    BY Zenon DEF CA
  <1>2. QED
    BY <1>1 DEF Succeeds, Unexpired

\* Once nothing unexpired is left, a new self-signed CA follows all versions.
LEMMA SucceedsSelfSigned ==
  ASSUME NEW h \in Seq(Version), NEW t \in Int, NEW V \in SUBSET CA,
         NEW n \in 0 .. Len(h), Succeeds(h, t, V, n), Unexpired(V, t) = {},
         NEW ca \in CA, t <= ca.notAfter
  PROVE  Succeeds(h, t, {ca}, n)
  <1>1. \A k \in 1 .. n : h[k].cas \in SUBSET CA
    BY Zenon, VersionHoldsCAs
  <1>2. \A k \in 1 .. n : \A old \in h[k].cas : old.notAfter < t
    BY <1>1 DEF Succeeds, Unexpired, CA
  <1>3. QED
    BY <1>1, <1>2 DEF Succeeds, CA

\* A CA rotated from the newest one, with a later expiry, follows all versions.
LEMMA SucceedsRotated ==
  ASSUME NEW h \in Seq(Version), NEW t \in Int, NEW V \in SUBSET CA,
         NEW n \in 0 .. Len(h), Succeeds(h, t, V, n),
         NEW newest, IsNewest(newest, V),
         NEW ca \in CA, newest.notAfter < ca.notAfter, t <= ca.notAfter, ~ca.selfSigned
  PROVE  Succeeds(h, t, V \cup {ca}, n)
  <1>1. \A k \in 1 .. n : h[k].cas \in SUBSET CA
    BY Zenon, VersionHoldsCAs
  <1>2. \A k \in 1 .. n : \A old \in h[k].cas : old.notAfter < ca.notAfter
    BY <1>1 DEF Succeeds, IsNewest, CA
  <1>3. QED
    BY Zenon, <1>1, <1>2 DEF Succeeds, CA
-----------------------------------------------------------------------------
(***************************************************************************)
(* Type correctness and frame conditions.                                  *)
(***************************************************************************)

\* getCertLife computes with whole ticks.
LEMMA CertLifeType ==
  ASSUME NEW life \in Lifetimes, NEW percent \in JitterPercents,
         NEW certLife \in CertLives(life, percent), NEW buffer \in RestartBuffers
  PROVE  certLife \in Int /\ Buffer(buffer) \in Int
  <1>1. CappedLifetime(life) \in Int /\ Buffer(buffer) \in Int
    BY LifetimeAssumption DEF CappedLifetime, Buffer
  <1>2. JitterLives(CappedLifetime(life), percent) \subseteq Int
    BY <1>1, LifetimeAssumption DEF JitterLives, JitterFactor
  <1>3. QED
    BY <1>1, <1>2 DEF CertLives

\* What a read of the Secret returns is a set of CAs.
LEMMA CAsOfType ==
  ASSUME TypeOK, NEW version \in 0 .. Current
  PROVE  CAsOf(version) \in SUBSET CA
  <1>1. CASE version = 0
    BY Zenon, <1>1 DEF CAsOf
  <1>2. CASE version # 0
    <2>1. version \in 1 .. Len(history) /\ Len(history) \in 0 .. Len(history)
      BY <1>2 DEF TypeOK, Current
    <2>2. QED
      BY Zenon, <1>2, <2>1, VersionHoldsCAs DEF CAsOf, TypeOK
  <1>3. QED
    BY Zenon, <1>1, <1>2

\* A CA made now expires a CA lifetime later.
LEMMA NewCAType ==
  ASSUME TypeOK, NEW c \in Calls, NEW b \in BOOLEAN
  PROVE  /\ NewCA(c, b) \in CA
         /\ NewCA(c, b).notAfter = now + CALifetime
         /\ NewCA(c, b).notAfter >= now
         /\ NewCA(c, b).selfSigned = b
  BY ManagerAssumption DEF TypeOK, NewCA, CA

\* Storing a bundle extends the history by at most one version, whose CAs are
\* the bundle.
LEMMA StoredExtends ==
  ASSUME TypeOK, NEW V \in SUBSET CA, Stored(V)
  PROVE  /\ Extends(history', history)
         /\ history' = history \/ history' = Append(history, [cas |-> V, layout |-> "numbered"])
  BY Zenon DEF TypeOK, Stored, Extends, Version

\* A call's step moves that call only, and appends to the Secret's history.
LEMMA StepFrame ==
  ASSUME TypeOK, NEW c \in Calls, Step(c)
  PROVE  /\ Extends(history', history)
         /\ now' = now
  <1> USE DEF Return, Goto, local
  <1>1. cas[c] \in SUBSET CA
    BY Zenon DEF TypeOK
  <1>2. [cas |-> {}, layout |-> "numbered"] \in Version
    BY Zenon DEF Version
  <1>3. CASE CreateSecret(c)
    BY Zenon, <1>2, <1>3 DEF CreateSecret, Extends
  <1>4. CASE CreateSecretFails(c)
    BY Zenon, <1>2, <1>4 DEF CreateSecretFails, Extends
  <1>5. CASE UpdateSecret(c)
    BY Zenon, <1>1, <1>5, StoredExtends DEF UpdateSecret
  <1>6. CASE UpdateSecretFails(c)
    BY Zenon, <1>1, <1>6, StoredExtends DEF UpdateSecretFails, Extends
  <1>7. CASE Sign(c) \/ SignFails(c) \/ NameNodes(c)
    BY Zenon, <1>7 DEF Sign, SignFails, NameNodes, Extends
  <1>8. QED
    BY Zenon, <1>3, <1>4, <1>5, <1>6, <1>7 DEF Step, Extends, GetSecret, GetSecretFails,
       ReadClock, Lock, LoadCAs, LoadCAsFails, RotateCA, SaveRefused, UpdateConflicts,
       SelectCA

CertificateOf(c, notAfter, restartAt) ==
  [call |-> c, signer |-> signer[c], anchors |-> cas[c],
   roots |-> ManagerAdditionalTrustRoots, version |-> base[c],
   checkedAt |-> checkedAt[c], notAfter |-> notAfter, restartAt |-> restartAt]

\* GetSecretData delivers a certificate, to be replaced from now on but before
\* it expires.
LEMMA SignEffect ==
  ASSUME TypeOK, NEW c \in Calls, Sign(c)
  PROVE  /\ Return(c, "sign", "done")
         /\ \E notAfter, restartAt \in Int :
              /\ issued' = issued \cup {CertificateOf(c, notAfter, restartAt)}
              /\ now <= restartAt
              /\ RestartBuffers \subseteq Nat => restartAt < notAfter
  <1>1. PICK life \in Lifetimes, buffer \in RestartBuffers, percent \in JitterPercents :
          \E certLife \in CertLives(life, percent) :
            /\ ~TooShort(certLife, buffer)
            /\ Return(c, "sign", "done")
            /\ issued' = issued \cup {CertificateOf(c, now + certLife,
                                                   now + certLife - Buffer(buffer))}
    BY Zenon DEF Sign, CertificateOf
  <1>2. PICK certLife \in CertLives(life, percent) :
            /\ ~TooShort(certLife, buffer)
            /\ Return(c, "sign", "done")
            /\ issued' = issued \cup {CertificateOf(c, now + certLife,
                                                   now + certLife - Buffer(buffer))}
    BY Zenon, <1>1
  <1>3. now + certLife \in Int /\ now + certLife - Buffer(buffer) \in Int
    BY CertLifeType DEF TypeOK
  <1>4. /\ now <= now + certLife - Buffer(buffer)
        /\ RestartBuffers \subseteq Nat => now + certLife - Buffer(buffer) < now + certLife
    <2>1. certLife \in Int /\ Buffer(buffer) \in Int /\ now \in Int /\ buffer \in RestartBuffers
      BY CertLifeType DEF TypeOK
    <2>2. certLife - Buffer(buffer) >= 0
      BY <1>2, <2>1 DEF TooShort
    <2>3. RestartBuffers \subseteq Nat => Buffer(buffer) > 0
      BY <2>1, LifetimeAssumption DEF Buffer
    <2>4. QED
      BY <2>1, <2>2, <2>3
  <1>5. QED
    BY Zenon, <1>2, <1>3, <1>4

\* The variables a step shares with the other calls keep their types; so do
\* the locals of a call that returns.
LEMMA ReturnType ==
  ASSUME TypeOK, NEW c \in Calls, NEW from, NEW how \in Ended, Return(c, from, how),
         Extends(history', history), issued' \subseteq Certificate
  PROVE  TypeOK'
  <1>1. /\ history' \in Seq(Version) /\ Len(history) <= Len(history')
        /\ Len(history) \in Nat /\ Len(history') \in Nat
    BY ExtendsKeeps DEF TypeOK
  <1>2. mutex' \in [Procs -> Calls \cup {None}]
    BY Zenon, ManagerAssumption DEF TypeOK, Return
  <1>3. pc' \in [Calls -> {"idle"} \cup Working \cup Ended]
    BY Zenon DEF TypeOK, Return, Goto
  <1>4. base' \in [Calls -> 0 .. Len(history')]
    BY <1>1 DEF TypeOK, Return, Discard, Current
  <1>5. cache' \in [Procs -> 0 .. Len(history')]
    BY <1>1 DEF TypeOK, Return, Current
  <1>6. /\ cas' \in [Calls -> SUBSET CA]
        /\ atAfter' \in [Calls -> Int]
        /\ tries' \in [Calls -> Nat]
        /\ checkedAt' \in [Calls -> Int]
        /\ signer' \in [Calls -> CA \cup {None}]
    BY SMTT(30) DEF TypeOK, Return, Discard
  <1>7. QED
    BY Zenon, <1>1, <1>2, <1>3, <1>4, <1>5, <1>6 DEF TypeOK, Return, Current

\* A step of a call keeps the types.
LEMMA StepType ==
  ASSUME TypeOK, NEW c \in Calls, CallInv(c), Step(c)
  PROVE  TypeOK'
  <1>0. Extends(history', history)
    BY Zenon, StepFrame
  <1>1. /\ history' \in Seq(Version) /\ Len(history) <= Len(history')
        /\ Len(history) \in Nat /\ Len(history') \in Nat
    BY <1>0, ExtendsKeeps DEF TypeOK
  <1>2. \A how \in {"failed", "refused", "done"} : how \in Ended
    BY Zenon DEF Ended
  <1>3. CASE \/ GetSecretFails(c) \/ LoadCAsFails(c) \/ SaveRefused(c)
             \/ CreateSecretFails(c) \/ UpdateSecretFails(c)
             \/ SignFails(c) \/ NameNodes(c)
    <2>1. issued' \subseteq Certificate
      BY Zenon, <1>3 DEF TypeOK, GetSecretFails, LoadCAsFails, SaveRefused, CreateSecretFails,
         UpdateSecretFails, SignFails, NameNodes
    <2>2. \E from : \E how \in Ended : Return(c, from, how)
      BY Zenon, <1>2, <1>3 DEF GetSecretFails, LoadCAsFails, SaveRefused, CreateSecretFails,
         UpdateSecretFails, SignFails, NameNodes
    <2>3. QED
      BY Zenon, <1>0, <2>1, <2>2, ReturnType
  <1>4. CASE Sign(c) /\ c \in Publishes
    <2>1. PICK notAfter \in Int, restartAt \in Int :
            issued' = issued \cup {CertificateOf(c, notAfter, restartAt)}
      BY Zenon, <1>4, SignEffect
    <2>2. Return(c, "sign", "done")
      BY Zenon, <1>4, SignEffect
    <2>3. signer[c] \in CA
      BY Zenon, <2>2 DEF Return, Goto, CallInv, IsOldest, TypeOK
    <2>4. issued' \subseteq Certificate
      BY <1>4, <2>1, <2>3 DEF CertificateOf, TypeOK, Certificate, ManagerAdditionalTrustRoots, Current
    <2>5. QED
      BY Zenon, <1>0, <1>2, <2>2, <2>4, ReturnType
  <1>5. CASE GetSecret(c)
    <2>1. cache[ProcOf[c]] \in 0 .. Len(history)
      BY Zenon, ManagerAssumption DEF TypeOK, Current
    <2>2. CAsOf(cache[ProcOf[c]]) \in SUBSET CA
      BY Zenon, <2>1, CAsOfType DEF Current
    <2>3. QED
      BY Zenon, <1>5, <2>1, <2>2 DEF GetSecret, Goto, TypeOK, Working, Current
  <1>6. CASE ReadClock(c)
    BY <1>6 DEF ReadClock, Goto, TypeOK, Working, Current, ManagerMaxCertificateLifeTime
  <1>7. CASE Lock(c)
    BY Zenon, <1>7, ManagerAssumption DEF Lock, Goto, TypeOK, Working, Current, local
  <1>8. CASE LoadCAs(c)
    BY Zenon, <1>8, NewCAType DEF LoadCAs, Goto, TypeOK, Working, Current, Unexpired
  <1>9. CASE RotateCA(c)
    <2>1. NewCA(c, FALSE) \in CA
      BY Zenon, NewCAType
    <2>2. PICK newest \in cas[c] :
            cas' = [cas EXCEPT ![c] =
                      IF AboutToExpire(newest) THEN @ \cup {NewCA(c, FALSE)} ELSE @]
      BY Zenon, <1>9 DEF RotateCA
    <2>3. cas' \in [Calls -> SUBSET CA]
      BY Zenon, <2>1, <2>2 DEF TypeOK
    <2>4. pc' \in [Calls -> {"idle"} \cup Working \cup Ended]
      <3>1. (IF base[c] = 0 THEN "create" ELSE "update") \in Working
        BY Zenon DEF Working
      <3>2. QED
        BY Zenon, <1>9, <3>1 DEF RotateCA, Goto, TypeOK
    <2>5. /\ checkedAt' = [checkedAt EXCEPT ![c] = now]
          /\ UNCHANGED <<now, history, cache, mutex, base, atAfter, tries, signer, issued>>
      BY Zenon, <1>9 DEF RotateCA
    <2>6. QED
      BY <2>3, <2>4, <2>5 DEF TypeOK, Current
  <1>10. CASE CreateSecret(c)
    BY <1>10, <1>1 DEF CreateSecret, Goto, TypeOK, Working, Current
  <1>11. CASE UpdateSecret(c)
    BY <1>11, <1>1 DEF UpdateSecret, Goto, TypeOK, Working, Current
  <1>12. CASE UpdateConflicts(c)
    BY <1>12 DEF UpdateConflicts, Goto, TypeOK, Working, Current
  <1>13. CASE SelectCA(c)
    <2>1. PICK ca \in cas[c] : signer' = [signer EXCEPT ![c] = ca]
      BY Zenon, <1>13 DEF SelectCA, Unexpired
    <2>2. signer' \in [Calls -> CA \cup {None}]
      BY Zenon, <2>1 DEF TypeOK
    <2>3. mutex' \in [Procs -> Calls \cup {None}]
      BY Zenon, <1>13 DEF SelectCA, TypeOK
    <2>4. pc' \in [Calls -> {"idle"} \cup Working \cup Ended]
      BY Zenon, <1>13 DEF SelectCA, Goto, TypeOK, Working
    <2>5. QED
      BY SMTT(30), <1>13, <2>2, <2>3, <2>4 DEF SelectCA, TypeOK, Current
  <1>14. QED
    BY Zenon, <1>3, <1>4, <1>5, <1>6, <1>7, <1>8, <1>9, <1>10, <1>11, <1>12, <1>13 DEF Step

\* What is not a step of one call: the clock, the informers, dying processes.
Environment ==
  \/ Tick
  \/ \E p \in Procs : SyncCache(p) \/ \E culprit \in Calls \cup {None} : ProcessDies(p, culprit)

\* A process is restarted or dies of a panic.
LEMMA NextSteps ==
  ASSUME Next
  PROVE  Environment \/ \E c \in Calls : Step(c)
  <1>1. ASSUME NEW p \in Procs, Restart(p)
        PROVE  Environment
    BY Zenon, <1>1 DEF Restart, Environment
  <1>2. ASSUME NEW c \in Calls, Panics(c)
        PROVE  Environment
    BY Zenon, <1>2, ManagerAssumption DEF Panics, Environment
  <1>3. QED
    BY Zenon, <1>1, <1>2 DEF Next, Environment

\* The environment keeps the types.
LEMMA EnvironmentType ==
  ASSUME TypeOK, Environment
  PROVE  TypeOK'
  <1>1. Len(history) \in Nat
    BY DEF TypeOK
  <1>2. CASE Tick
    BY <1>2 DEF Tick, TypeOK, local, Current
  <1>3. ASSUME NEW p \in Procs, SyncCache(p)
        PROVE  TypeOK'
    BY <1>1, <1>3 DEF SyncCache, TypeOK, local, Current
  <1>4. ASSUME NEW p \in Procs, NEW culprit \in Calls \cup {None}, ProcessDies(p, culprit)
        PROVE  TypeOK'
    <2>1. PICK version \in 0 .. Current : cache' = [cache EXCEPT ![p] = version]
      BY Zenon, <1>4 DEF ProcessDies
    <2>2. cache' \in [Procs -> 0 .. Current]
      BY Zenon, <2>1 DEF TypeOK
    <2>3. pc' \in [Calls -> {"idle"} \cup Working \cup Ended]
      BY SMTT(30), <1>4 DEF ProcessDies, TypeOK, Ended
    <2>4. /\ base' \in [Calls -> 0 .. Current]
          /\ cas' \in [Calls -> SUBSET CA]
          /\ atAfter' \in [Calls -> Int]
          /\ tries' \in [Calls -> Nat]
          /\ checkedAt' \in [Calls -> Int]
          /\ signer' \in [Calls -> CA \cup {None}]
      BY <1>1, <1>4 DEF ProcessDies, Discard, TypeOK, Current
    <2>5. mutex' \in [Procs -> Calls \cup {None}] /\ UNCHANGED <<now, history, issued>>
      BY Zenon, <1>4 DEF ProcessDies, TypeOK
    <2>6. QED
      BY Zenon, <2>2, <2>3, <2>4, <2>5 DEF TypeOK, Current
  <1>5. QED
    BY Zenon, <1>2, <1>3, <1>4 DEF Environment

LocalSame(d) ==
  /\ pc'[d] = pc[d] /\ base'[d] = base[d] /\ cas'[d] = cas[d] /\ atAfter'[d] = atAfter[d]
  /\ checkedAt'[d] = checkedAt[d] /\ signer'[d] = signer[d]

\* What is known of a call survives the steps of everyone else.
LEMMA CallInvFrame ==
  ASSUME TypeOK, NEW d \in Calls, CallInv(d), LocalSame(d),
         Extends(history', history), now' \in Int, now <= now'
  PROVE  CallInv(d)'
  <1>1. /\ base[d] \in 0 .. Len(history) /\ cas[d] \in SUBSET CA
        /\ history \in Seq(Version) /\ now \in Int /\ atAfter[d] \in Int
    BY DEF TypeOK, Current
  <1>2. Succeeds(history, now, cas[d], base[d]) => Succeeds(history', now', cas[d], base[d])
    BY Zenon, <1>1, SucceedsLater
  <1>3. base[d] # 0 => history'[base[d]] = history[base[d]]
    BY <1>1, ExtendsKeeps
  <1>4. QED
    BY <1>1, <1>2, <1>3 DEF CallInv, LocalSame, Unexpired, IsOldest, Outlives

\* A step of one call leaves the locals of the others alone.
LEMMA StepLocal ==
  ASSUME TypeOK, NEW c \in Calls, Step(c), NEW d \in Calls, d # c
  PROVE  LocalSame(d)
  <1>1. CASE \E from, how : Return(c, from, how)
    BY <1>1 DEF Return, Goto, Discard, LocalSame, TypeOK
  <1>2. CASE RotateCA(c)
    BY Zenon, <1>2 DEF RotateCA, Goto, LocalSame, TypeOK
  <1>3. CASE SelectCA(c)
    BY Zenon, <1>3 DEF SelectCA, Goto, LocalSame, TypeOK
  <1>4. CASE \/ GetSecret(c) \/ ReadClock(c) \/ Lock(c) \/ LoadCAs(c)
             \/ CreateSecret(c) \/ UpdateSecret(c) \/ UpdateConflicts(c)
    BY Zenon, <1>4 DEF GetSecret, ReadClock, Lock, LoadCAs, CreateSecret, UpdateSecret,
       UpdateConflicts, Goto, LocalSame, TypeOK, local
  <1>5. CASE \/ GetSecretFails(c) \/ LoadCAsFails(c) \/ SaveRefused(c)
             \/ CreateSecretFails(c) \/ UpdateSecretFails(c)
             \/ Sign(c) \/ SignFails(c) \/ NameNodes(c)
    BY Zenon, <1>1, <1>5 DEF GetSecretFails, LoadCAsFails, SaveRefused, CreateSecretFails,
       UpdateSecretFails, Sign, SignFails, NameNodes
  <1>6. QED
    BY Zenon, <1>2, <1>3, <1>4, <1>5 DEF Step
-----------------------------------------------------------------------------
(***************************************************************************)
(* The inductive invariant.                                                *)
(***************************************************************************)

\* Time passing keeps the versions in succession.
LEMMA HistoryLater ==
  ASSUME TypeOK, HistoryInv, history' = history, now' \in Int, now <= now'
  PROVE  HistoryInv'
  <1>1. history \in Seq(Version) /\ now \in Int /\ Extends(history, history)
    BY DEF TypeOK, Extends
  <1>2. ASSUME NEW j \in 1 .. Len(history)
        PROVE  Succeeds(history, now', history[j].cas, j - 1)
    <2>1. history[j].cas \in SUBSET CA /\ j - 1 \in 0 .. Len(history)
      BY <1>1, VersionHoldsCAs
    <2>2. Succeeds(history, now, history[j].cas, j - 1)
      BY Zenon DEF HistoryInv, Current
    <2>3. QED
      BY Zenon, <1>1, <2>1, <2>2, SucceedsLater
  <1>3. QED
    BY Zenon, <1>2 DEF HistoryInv, Current

\* Storing a bundle that follows all versions keeps them in succession.
LEMMA HistoryAppend ==
  ASSUME TypeOK, HistoryInv, now' = now, NEW v \in Version,
         Succeeds(history, now, v.cas, Current), history' = Append(history, v)
  PROVE  HistoryInv'
  <1>1. /\ history \in Seq(Version) /\ now \in Int /\ Extends(history', history)
        /\ Len(history) \in Nat /\ Len(history') = Len(history) + 1
        /\ history'[Len(history')] = v
        /\ v.cas \in SUBSET CA
    BY DEF TypeOK, Extends, Version
  <1>2. \A k \in 1 .. Len(history) : history'[k] = history[k]
    BY Zenon, <1>1, ExtendsKeeps
  <1>3. ASSUME NEW j \in 1 .. Len(history)
        PROVE  Succeeds(history', now', history'[j].cas, j - 1)
    <2>1. history[j].cas \in SUBSET CA /\ j - 1 \in 0 .. Len(history)
      BY <1>1, VersionHoldsCAs
    <2>2. Succeeds(history, now, history[j].cas, j - 1)
      BY Zenon DEF HistoryInv, Current
    <2>3. QED
      BY <1>1, <1>2, <2>1, <2>2, SucceedsLater
  <1>4. Succeeds(history', now', v.cas, Len(history') - 1)
    BY SMTT(30), <1>1, SucceedsLater DEF Current
  <1>5. QED
    BY <1>1, <1>3, <1>4 DEF HistoryInv, Current

\* A call that has returned carries no obligation.
LEMMA ReturnedCall ==
  ASSUME TypeOK, NEW c \in Calls, NEW from, NEW how \in {"failed", "refused", "done"},
         Return(c, from, how)
  PROVE  CallInv(c)'
  BY SMTT(30) DEF Return, Goto, CallInv, Working, TypeOK

\* The steps of a call establish what the next steps rely on.
LEMMA StepCall ==
  ASSUME TypeOK, HistoryInv, NEW c \in Calls, CallInv(c), Step(c), TypeOK'
  PROVE  CallInv(c)'
  <1>0. /\ history \in Seq(Version) /\ now \in Int /\ cas[c] \in SUBSET CA
        /\ base[c] \in 0 .. Len(history) /\ Len(history) \in Nat
        /\ Extends(history', history) /\ now' = now
    BY SMTT(30), StepFrame DEF TypeOK, Current
  <1>1. CASE \/ GetSecretFails(c) \/ LoadCAsFails(c) \/ SaveRefused(c)
             \/ CreateSecretFails(c) \/ UpdateSecretFails(c) \/ SignFails(c) \/ NameNodes(c)
    BY Zenon, <1>1, ReturnedCall DEF GetSecretFails, LoadCAsFails, SaveRefused, CreateSecretFails,
       UpdateSecretFails, SignFails, NameNodes
  <1>2. CASE Sign(c)
    BY Zenon, <1>2, SignEffect, ReturnedCall
  <1>4. CASE GetSecret(c)
    <2>1. cache[ProcOf[c]] \in 0 .. Len(history)
      BY SMTT(30), ManagerAssumption DEF TypeOK, Current
    <2>2. Succeeds(history, now, CAsOf(cache[ProcOf[c]]), cache[ProcOf[c]])
      <3>1. CASE cache[ProcOf[c]] = 0
        BY SMTT(30), <3>1 DEF Succeeds
      <3>2. CASE cache[ProcOf[c]] # 0
        <4>1. cache[ProcOf[c]] \in 1 .. Len(history)
          BY <2>1, <3>2, <1>0
        <4>2. Succeeds(history, now, history[cache[ProcOf[c]]].cas, cache[ProcOf[c]] - 1)
          BY Zenon, <4>1 DEF HistoryInv, Current
        <4>3. QED
          BY SMTT(30), <1>0, <3>2, <4>1, <4>2, SucceedsRead DEF CAsOf
      <3>3. QED
        BY Zenon, <3>1, <3>2
    <2>3. pc'[c] = "clock" /\ base'[c] = cache[ProcOf[c]] /\ cas'[c] = CAsOf(cache[ProcOf[c]])
          /\ UNCHANGED <<history, now>>
      BY SMTT(30), <1>4 DEF GetSecret, Goto, TypeOK
    <2>4. QED
      BY Zenon, <2>2, <2>3 DEF CallInv, Working
  <1>5. CASE ReadClock(c)
    <2>1. /\ pc[c] = "clock" /\ pc'[c] = "lock" /\ atAfter'[c] = now + 0
          /\ UNCHANGED <<now, history, base, cas>>
      BY SMTT(30), <1>5 DEF ReadClock, Goto, TypeOK, ManagerMaxCertificateLifeTime
    <2>2. atAfter'[c] <= now
      BY <1>0, <2>1
    <2>3. Succeeds(history, now, cas[c], base[c])
      BY Zenon, <2>1 DEF CallInv, Working
    <2>4. QED
      BY Zenon, <2>1, <2>2, <2>3 DEF CallInv, Working
  <1>6. CASE Lock(c)
    BY Zenon, <1>6 DEF Lock, Goto, CallInv, Working, TypeOK, local
  <1>7. CASE LoadCAs(c)
    <2> DEFINE alive == Unexpired(cas[c], now)
               loaded == IF alive = {} THEN {NewCA(c, TRUE)} ELSE alive
    <2>1. /\ pc[c] = "load" /\ pc'[c] = "rotate" /\ cas'[c] = loaded
          /\ UNCHANGED <<history, now, base, atAfter>>
      BY Zenon, <1>7 DEF LoadCAs, Goto, TypeOK
    <2>2. NewCA(c, TRUE) \in CA /\ NewCA(c, TRUE).notAfter >= now
      BY ZenonT(30), NewCAType
    <2>3. Succeeds(history, now, cas[c], base[c]) /\ atAfter[c] <= now /\ atAfter[c] \in Int
      BY Zenon, <2>1 DEF CallInv, Working, TypeOK
    <2>4. Succeeds(history, now, loaded, base[c])
      BY Zenon, <1>0, <2>2, <2>3, SucceedsUnexpired, SucceedsSelfSigned
    <2>5. loaded # {} /\ \A ca \in loaded : ca \in CA /\ ca.notAfter >= now
      BY ZenonT(30), <1>0, <2>2 DEF Unexpired
    <2> HIDE DEF loaded
    <2>6. Unexpired(loaded, atAfter[c]) = loaded
      BY <1>0, <2>3, <2>5 DEF Unexpired, CA
    <2>7. QED
      BY Zenon, <2>1, <2>3, <2>4, <2>5, <2>6 DEF CallInv, Working
  <1>8. CASE RotateCA(c)
    <2> DEFINE new == NewCA(c, FALSE)
               half == CALifetime \div 2
    <2>1. PICK newest \in cas[c] :
            /\ IsNewest(newest, cas[c])
            /\ cas' = [cas EXCEPT ![c] = IF AboutToExpire(newest) THEN @ \cup {new} ELSE @]
      BY Zenon, <1>8 DEF RotateCA
    <2>2. /\ pc[c] = "rotate" /\ pc'[c] = (IF base[c] = 0 THEN "create" ELSE "update")
          /\ checkedAt'[c] = now
          /\ UNCHANGED <<history, now, base, atAfter>>
      BY <1>8 DEF RotateCA, Goto, TypeOK
    <2>3. cas'[c] = IF AboutToExpire(newest) THEN cas[c] \cup {new} ELSE cas[c]
      BY Zenon, <2>1 DEF TypeOK
    <2>4. /\ new \in CA /\ new.notAfter = now + CALifetime /\ ~new.selfSigned
      BY Zenon, NewCAType
    <2>half. half \in Int /\ 0 <= half /\ half < CALifetime
      BY ManagerAssumption
    <2> HIDE DEF new
    <2>5. /\ Succeeds(history, now, cas[c], base[c]) /\ atAfter[c] <= now /\ atAfter[c] \in Int
          /\ Unexpired(cas[c], atAfter[c]) = cas[c] /\ cas[c] # {}
      BY Zenon, <2>2 DEF CallInv, Working, TypeOK
    <2>6. newest.notAfter \in Int /\ CALifetime \in Int /\ now \in Int
      <3>1. newest \in CA /\ now \in Int
        BY Zenon, <1>0
      <3>2. CALifetime \in Int
        BY ManagerAssumption
      <3>3. QED
        BY Zenon, <3>1, <3>2 DEF CA
    <2>7. CASE AboutToExpire(newest)
      <3>0. now + half > newest.notAfter
        BY Zenon, <2>7 DEF AboutToExpire
      <3> HIDE DEF half
      <3>1. newest.notAfter < new.notAfter /\ now <= new.notAfter
        BY <2>4, <2>half, <2>6, <3>0
      <3>2. Succeeds(history, now, cas[c] \cup {new}, base[c])
        BY ZenonT(30), <1>0, <2>1, <2>4, <2>5, <3>1, SucceedsRotated
      <3>3. Unexpired(cas[c] \cup {new}, atAfter[c]) = cas[c] \cup {new}
        BY <1>0, <2>4, <2>5, <2>6, ManagerAssumption DEF Unexpired
      <3>4. Outlives(cas[c] \cup {new}, now + half)
        BY SMTT(30), <1>0, <2>4, <2>half, <2>6 DEF Outlives
      <3>5. QED
        BY Zenon, <2>2, <2>3, <2>5, <2>7, <3>2, <3>3, <3>4 DEF CallInv, Working, half
    <2>8. CASE ~AboutToExpire(newest)
      <3>1. Outlives(cas[c], now + half)
        BY SMTT(30), <1>0, <2>half, <2>6, <2>8 DEF Outlives, AboutToExpire
      <3>2. QED
        BY SMTT(30), <2>2, <2>3, <2>5, <2>8, <3>1 DEF CallInv, Working
    <2>9. QED
      BY Zenon, <2>7, <2>8
  <1>9. CASE CreateSecret(c)
    <2>1. /\ pc[c] = "create" /\ pc'[c] = "update" /\ base'[c] = 1
          /\ history' = <<[cas |-> {}, layout |-> "numbered"]>>
          /\ UNCHANGED <<now, cas, atAfter, checkedAt>>
      BY SMTT(30), <1>9 DEF CreateSecret, Goto, TypeOK
    <2>2. Succeeds(history', now, cas[c], 1)
      BY <2>1 DEF Succeeds
    <2>3. atAfter[c] <= now /\ cas[c] # {} /\ Unexpired(cas[c], atAfter[c]) = cas[c]
      BY Zenon, <2>1 DEF CallInv, Working
    <2>4. Outlives(cas[c], checkedAt[c] + (CALifetime \div 2))
      BY Zenon, <2>1 DEF CallInv
    <2>5. base'[c] # 0
      BY <2>1
    <2>6. QED
      BY Zenon, <2>1, <2>2, <2>3, <2>4, <2>5 DEF CallInv, Working
  <1>10. CASE UpdateSecret(c)
    <2>1. /\ pc[c] = "update" /\ pc'[c] = "select" /\ base[c] = Len(history)
          /\ base'[c] = Len(history') /\ Stored(cas[c])
          /\ UNCHANGED <<now, cas, atAfter, checkedAt>>
      BY Zenon, <1>10 DEF UpdateSecret, Goto, TypeOK, Current
    <2>2. Succeeds(history, now, cas[c], Len(history)) /\ Len(history) # 0
      BY Zenon, <2>1 DEF CallInv, Working
    <2>3. history'[Len(history')].cas = cas[c] /\ Len(history') \in Nat \ {0}
      <3> DEFINE saved == [cas |-> cas[c], layout |-> "numbered"]
      <3>1. \/ history' = Append(history, saved)
            \/ history' = history /\ history[Len(history)] = saved
        <4>1. Stored(cas[c])
          BY Zenon, <2>1
        <4>2. QED
          BY Zenon, <4>1 DEF Stored, Current
      <3>2. saved \in Version /\ saved.cas = cas[c]
        BY Zenon, <1>0 DEF Version
      <3> HIDE DEF saved
      <3>3. history \in Seq(Version) /\ Len(history) \in Nat \ {0}
        BY SMTT(30), <1>0, <2>2
      <3>4. QED
        BY SMTT(30), <3>1, <3>2, <3>3
    <2>4. Succeeds(history', now, cas[c], Len(history))
      BY SMTT(30), <1>0, <2>2, SucceedsLater
    <2>5. Succeeds(history', now, cas[c], Len(history'))
      <3>1. history' \in Seq(Version) /\ Len(history') \in 1 .. Len(history')
        BY SMTT(30), <1>0, <2>3, ExtendsKeeps
      <3>2. Len(history') - 1 <= Len(history)
        BY SMTT(30), <1>0, <2>1 DEF Stored
      <3>3. Succeeds(history', now, cas[c], Len(history') - 1)
        BY <1>0, <2>3, <2>4, <3>2 DEF Succeeds
      <3>4. QED
        BY Zenon, <1>0, <2>3, <3>1, <3>3, SucceedsRead
    <2>6. QED
      BY Zenon, <2>1, <2>3, <2>5 DEF CallInv, Working
  <1>11. CASE UpdateConflicts(c)
    BY Zenon, <1>11 DEF UpdateConflicts, Goto, CallInv, Working, TypeOK
  <1>12. CASE SelectCA(c)
    <2>1. pc[c] = "select" /\ UNCHANGED <<now, history, base, cas, atAfter, checkedAt>>
      BY ZenonT(30), <1>12 DEF SelectCA, Goto
    <2>2. Unexpired(cas[c], atAfter[c]) = cas[c] /\ cas[c] # {}
      BY ZenonT(30), <2>1 DEF CallInv
    <2>3. pc'[c] = "sign"
      BY SMTT(30), <1>12, <2>2 DEF SelectCA, Goto, TypeOK
    <2>4. IsOldest(signer'[c], cas[c])
      BY <1>12, <2>2 DEF SelectCA, TypeOK
    <2>5. QED
      BY Zenon, <2>1, <2>3, <2>4 DEF CallInv, Working
  <1>13. QED
    BY Zenon, <1>1, <1>2, <1>4, <1>5, <1>6, <1>7, <1>8, <1>9, <1>10, <1>11, <1>12 DEF Step

\* What a call stores follows every version before it.
LEMMA StepWrites ==
  ASSUME TypeOK, NEW c \in Calls, CallInv(c), Step(c)
  PROVE  \/ history' = history
         \/ \E v \in Version :
              history' = Append(history, v) /\ Succeeds(history, now, v.cas, Current)
  <1>1. cas[c] \in SUBSET CA
    BY Zenon DEF TypeOK
  <1> DEFINE empty == [cas |-> {}, layout |-> "numbered"]
             saved == [cas |-> cas[c], layout |-> "numbered"]
             Goal == \/ history' = history
                     \/ \E v \in Version :
                          history' = Append(history, v) /\ Succeeds(history, now, v.cas, Current)
  <1>2. empty \in Version /\ saved \in Version
    BY Zenon, <1>1 DEF Version
  <1>3. CASE history = <<>> /\ history' = Append(history, empty)
    <2>0. Current = 0
      BY Zenon, <1>3 DEF Current
    <2>1. Succeeds(history, now, empty.cas, Current)
      BY SMTT(30), <2>0 DEF Succeeds
    <2>2. QED
      BY Zenon, <1>2, <1>3, <2>1
  <1>4. CASE /\ pc[c] = "update" /\ base[c] = Current
             /\ history' = Append(history, saved)
    <2>1. Succeeds(history, now, saved.cas, Current)
      BY Zenon, <1>4 DEF CallInv, Working
    <2>2. QED
      BY Zenon, <1>2, <1>4, <2>1
  <1> HIDE DEF Goal
  <1>5. CASE CreateSecret(c) \/ CreateSecretFails(c)
    <2>1. history' = history \/ (history = <<>> /\ history' = Append(history, empty))
      BY Zenon, <1>5 DEF CreateSecret, CreateSecretFails
    <2>2. QED
      BY Zenon, <1>3, <2>1 DEF Goal
  <1>6. CASE UpdateSecret(c) \/ UpdateSecretFails(c)
    <2>1. history' = history \/ (pc[c] = "update" /\ base[c] = Current /\ Stored(cas[c]))
      BY Zenon, <1>6 DEF UpdateSecret, UpdateSecretFails, Return, Goto
    <2>2. QED
      BY Zenon, <1>1, <1>4, <2>1, StoredExtends DEF Goal
  <1>7. CASE Sign(c)
    BY Zenon, <1>7 DEF Sign, Goal
  <1>8. QED
    BY Zenon, <1>5, <1>6, <1>7 DEF Step, Goal, LoadCAs, LoadCAsFails, RotateCA, SaveRefused,
       GetSecret, GetSecretFails, ReadClock, Lock, UpdateConflicts, SelectCA, SignFails, NameNodes

\* A call keeps the versions in succession.
LEMMA StepHistory ==
  ASSUME TypeOK, HistoryInv, NEW c \in Calls, CallInv(c), Step(c)
  PROVE  HistoryInv'
  <1>1. now' = now /\ now \in Int
    BY StepFrame DEF TypeOK
  <1>2. CASE history' = history
    BY <1>1, <1>2, HistoryLater
  <1>3. QED
    BY Zenon, <1>1, <1>2, StepWrites, HistoryAppend

\* What is known of a delivered certificate stays known.
LEMMA CertInvFrame ==
  ASSUME TypeOK, NEW cert, CertInv(cert), Extends(history', history)
  PROVE  CertInv(cert)'
  <1>0. history \in Seq(Version)
    BY Zenon DEF TypeOK
  <1>1. /\ Len(history) \in Nat /\ Len(history') \in Nat /\ Len(history) <= Len(history')
        /\ \A k \in 1 .. Len(history) : history'[k] = history[k]
    BY <1>0, ExtendsKeeps
  <1>2. QED
    BY <1>1 DEF CertInv, Current

\* A step delivers at most one certificate, from the bundle the call stored.
LEMMA StepCerts ==
  ASSUME TypeOK, NEW c \in Calls, CallInv(c), Step(c), \A cert \in issued : CertInv(cert)
  PROVE  \A cert \in issued' : CertInv(cert)'
  <1>1. Extends(history', history)
    BY Zenon, StepFrame
  <1>2. CASE Sign(c)
    <2>0. PICK notAfter \in Int, restartAt \in Int :
            issued' = issued \cup {CertificateOf(c, notAfter, restartAt)}
      BY Zenon, <1>2, SignEffect
    <2> DEFINE cert == CertificateOf(c, notAfter, restartAt)
    <2>1. /\ issued' = issued \cup {cert}
          /\ cert.signer = signer[c] /\ cert.anchors = cas[c]
          /\ cert.version = base[c] /\ cert.checkedAt = checkedAt[c]
      BY ZenonT(30), <2>0 DEF CertificateOf
    <2> HIDE DEF cert
    <2>2. pc[c] = "sign"
      BY Zenon, <1>2 DEF Sign, Return, Goto
    <2>3. base[c] \in 1 .. Current
      <3>1. base[c] # 0
        BY Zenon, <2>2 DEF CallInv
      <3>2. base[c] \in 0 .. Current /\ Current \in Nat
        BY DEF TypeOK, Current
      <3>3. QED
        BY <3>1, <3>2
    <2>4. CertInv(cert)
      BY Zenon, <2>1, <2>2, <2>3 DEF CallInv, CertInv
    <2>5. QED
      BY Zenon, <1>1, <2>1, <2>4, CertInvFrame
  <1>3. CASE issued' = issued
    BY Zenon, <1>1, <1>3, CertInvFrame
  <1>4. QED
    BY Zenon, <1>2, <1>3 DEF Step, GetSecret, GetSecretFails, ReadClock, Lock, LoadCAs,
       LoadCAsFails, RotateCA, SaveRefused, CreateSecret, CreateSecretFails, UpdateSecret,
       UpdateConflicts, UpdateSecretFails, SelectCA, SignFails, NameNodes

\* A step stamps what it makes with the present time.
LEMMA StepClock ==
  ASSUME TypeOK, ClockInv, NEW c \in Calls, CallInv(c), Step(c)
  PROVE  ClockInv'
  <1>1. now' = now /\ now \in Nat /\ 0 <= now
    BY StepFrame DEF TypeOK
  <1>2. checkedAt'[c] \in {checkedAt[c], now, 0}
    <2>1. CASE \E from, how : Return(c, from, how)
      BY Zenon, <2>1 DEF Return, Discard
    <2>2. CASE RotateCA(c)
      BY Zenon, <2>2 DEF RotateCA, TypeOK
    <2>3. CASE UNCHANGED checkedAt
      BY Zenon, <2>3
    <2>4. CASE \/ GetSecret(c) \/ ReadClock(c) \/ Lock(c) \/ LoadCAs(c) \/ CreateSecret(c)
               \/ UpdateSecret(c) \/ UpdateConflicts(c) \/ SelectCA(c)
      BY Zenon, <2>3, <2>4 DEF GetSecret, ReadClock, Lock, LoadCAs, CreateSecret, UpdateSecret,
         UpdateConflicts, SelectCA, local
    <2>5. CASE \/ GetSecretFails(c) \/ LoadCAsFails(c) \/ SaveRefused(c)
               \/ CreateSecretFails(c) \/ UpdateSecretFails(c)
               \/ Sign(c) \/ SignFails(c) \/ NameNodes(c)
      BY Zenon, <2>1, <2>5 DEF GetSecretFails, LoadCAsFails, SaveRefused, CreateSecretFails,
         UpdateSecretFails, Sign, SignFails, NameNodes
    <2>6. QED
      BY Zenon, <2>2, <2>4, <2>5 DEF Step
  <1>3. \A d \in Calls : checkedAt'[d] <= now'
    BY <1>1, <1>2, StepLocal DEF LocalSame, ClockInv
  <1>4. CASE issued' = issued
    BY Zenon, <1>3, <1>4 DEF ClockInv
  <1>5. CASE Sign(c)
    <2>1. PICK notAfter \in Int, restartAt \in Int :
            /\ issued' = issued \cup {CertificateOf(c, notAfter, restartAt)}
            /\ now <= restartAt
            /\ RestartBuffers \subseteq Nat => restartAt < notAfter
      BY Zenon, <1>5, SignEffect
    <2> DEFINE cert == CertificateOf(c, notAfter, restartAt)
    <2>2. /\ issued' = issued \cup {cert} /\ cert.checkedAt = checkedAt[c]
          /\ cert.notAfter = notAfter /\ cert.restartAt = restartAt
      BY ZenonT(30), <2>1 DEF CertificateOf
    <2> HIDE DEF cert
    <2>3. checkedAt[c] \in Int /\ checkedAt[c] <= now
      BY Zenon DEF TypeOK, ClockInv
    <2>4. cert.checkedAt <= cert.restartAt
      BY <1>1, <2>1, <2>2, <2>3
    <2>5. QED
      BY Zenon, <1>3, <2>1, <2>2, <2>4 DEF ClockInv
  <1>6. QED
    BY Zenon, <1>4, <1>5 DEF Step, GetSecret, GetSecretFails, ReadClock, Lock, LoadCAs,
       LoadCAsFails, RotateCA, SaveRefused, CreateSecret, CreateSecretFails, UpdateSecret,
       UpdateConflicts, UpdateSecretFails, SelectCA, SignFails, NameNodes

\* Only the calls write the Secret and deliver certificates.
LEMMA EnvironmentFrame ==
  ASSUME TypeOK, Environment
  PROVE  history' = history /\ issued' = issued /\ now \in Int /\ now' \in Int /\ now <= now'
  <1>1. now \in Nat
    BY Zenon DEF TypeOK
  <1>2. CASE Tick
    BY <1>1, <1>2 DEF Tick
  <1>3. CASE \E p \in Procs : SyncCache(p)
    BY SMTT(30), <1>1, <1>3 DEF SyncCache
  <1>4. CASE \E p \in Procs : \E culprit \in Calls \cup {None} : ProcessDies(p, culprit)
    <2>1. UNCHANGED <<now, history, issued>>
      BY Zenon, <1>4 DEF ProcessDies
    <2>2. QED
      BY <1>1, <2>1
  <1>5. QED
    BY Zenon, <1>2, <1>3, <1>4 DEF Environment

\* The environment leaves every call alone or ends it.
LEMMA EnvironmentCall ==
  ASSUME TypeOK, NEW d \in Calls, CallInv(d), Environment
  PROVE  CallInv(d)'
  <1>1. Extends(history', history) /\ now' \in Int /\ now <= now'
    BY Zenon, EnvironmentFrame DEF Extends
  <1>2. CASE LocalSame(d)
    BY Zenon, <1>1, <1>2, CallInvFrame
  <1>3. CASE pc'[d] \in {"failed", "panic"}
    BY Zenon, <1>3 DEF CallInv, Working
  <1>4. CASE Tick \/ \E p \in Procs : SyncCache(p)
    <2>1. LocalSame(d)
      BY Zenon, <1>4 DEF Tick, SyncCache, LocalSame, local
    <2>2. QED
      BY Zenon, <1>2, <2>1
  <1>5. ASSUME NEW p \in Procs, NEW culprit \in Calls \cup {None}, ProcessDies(p, culprit)
        PROVE  CallInv(d)'
    <2> DEFINE dead == {e \in Calls : ProcOf[e] = p /\ pc[e] \in Working}
    <2>1. CASE d \in dead \/ d = culprit
      <3>1. pc'[d] \in {"failed", "panic"}
        BY Zenon, <1>5, <2>1 DEF ProcessDies
      <3>2. QED
        BY Zenon, <1>3, <3>1
    <2>2. CASE d \notin dead /\ d # culprit
      <3>1. LocalSame(d)
        BY Zenon, <1>5, <2>2 DEF ProcessDies, Discard, LocalSame
      <3>2. QED
        BY Zenon, <1>2, <3>1
    <2>3. QED
      BY Zenon, <2>1, <2>2
  <1>6. QED
    BY Zenon, <1>4, <1>5 DEF Environment

\* The clock only moves forward.
LEMMA EnvironmentClock ==
  ASSUME TypeOK, ClockInv, Environment
  PROVE  ClockInv'
  <1>1. issued' = issued /\ now \in Nat /\ now' \in Int /\ now <= now'
    BY Zenon, EnvironmentFrame DEF TypeOK
  <1>2. \A d \in Calls : checkedAt'[d] \in {checkedAt[d], 0}
    BY Zenon DEF Environment, Tick, SyncCache, ProcessDies, Discard, local
  <1>3. \A d \in Calls : checkedAt[d] \in Int /\ checkedAt[d] <= now
    BY Zenon DEF TypeOK, ClockInv
  <1>4. \A d \in Calls : checkedAt'[d] <= now'
    BY <1>1, <1>2, <1>3
  <1>5. QED
    BY Zenon, <1>1, <1>4 DEF ClockInv

\* A stored version keeps its keys.
LEMMA NotRSAStays ==
  ASSUME TypeOK, Extends(history', history), \E version \in 1 .. Current : NotRSA(version)
  PROVE  \E version \in 1 .. Current' : NotRSA(version)'
  <1>1. PICK version \in 1 .. Current : NotRSA(version)
    OBVIOUS
  <1>2. /\ Len(history) \in Nat /\ Len(history') \in Nat /\ Len(history) <= Len(history')
        /\ \A k \in 1 .. Len(history) : history'[k] = history[k]
    BY ExtendsKeeps DEF TypeOK
  <1>3. version \in 1 .. Current' /\ history'[version] = history[version]
    BY <1>2 DEF Current
  <1>4. QED
    BY Zenon, <1>1, <1>3 DEF NotRSA

\* Only the type assertion on a key can panic: c.cas is not empty when the signer
\* is chosen, and holds nothing that DeleteFunc would delete.
LEMMA PanicSource ==
  ASSUME TypeOK, NEW c \in Calls, CallInv(c), Panicking(c)
  PROVE  pc[c] = "load" /\ \E version \in 1 .. Current : NotRSA(version)
  <1>1. CASE pc[c] = "load"
    <2>1. NotRSA(base[c])
      BY Zenon, <1>1 DEF Panicking
    <2>2. base[c] \in 1 .. Current
      <3>1. base[c] # 0
        BY Zenon, <2>1 DEF NotRSA
      <3>2. base[c] \in 0 .. Current /\ Current \in Nat
        BY DEF TypeOK, Current
      <3>3. QED
        BY <3>1, <3>2
    <2>3. QED
      BY Zenon, <1>1, <2>1, <2>2
  <1>2. CASE pc[c] \in {"select", "sign"}
    <2>1. cas[c] # {} /\ Unexpired(cas[c], atAfter[c]) = cas[c]
      BY Zenon, <1>2 DEF CallInv
    <2>2. QED
      BY Zenon, <1>2, <2>1 DEF Panicking, LeftNil
  <1>3. QED
    BY Zenon, <1>1, <1>2 DEF Panicking

\* The other steps of a call do not panic.
LEMMA StepPanics ==
  ASSUME TypeOK, NeverPanics, NEW c \in Calls, Step(c)
  PROVE  NeverPanics'
  <1>1. pc'[c] # "panic"
    <2> USE DEF Goto
    <2>1. CASE RotateCA(c)
      BY <2>1 DEF RotateCA, TypeOK
    <2>2. CASE GetSecret(c) \/ ReadClock(c) \/ Lock(c) \/ LoadCAs(c) \/ CreateSecret(c)
               \/ UpdateSecret(c) \/ UpdateConflicts(c) \/ SelectCA(c)
      BY Zenon, <2>2 DEF GetSecret, ReadClock, Lock, LoadCAs, CreateSecret, UpdateSecret,
         UpdateConflicts, SelectCA, TypeOK
    <2>3. ASSUME NEW from, NEW how \in {"failed", "refused", "done"}, Return(c, from, how)
          PROVE  pc'[c] # "panic"
      BY Zenon, <2>3 DEF Return, TypeOK
    <2>4. CASE \/ GetSecretFails(c) \/ LoadCAsFails(c) \/ SaveRefused(c)
               \/ CreateSecretFails(c) \/ UpdateSecretFails(c) \/ SignFails(c) \/ NameNodes(c)
      BY Zenon, <2>3, <2>4 DEF GetSecretFails, LoadCAsFails, SaveRefused, CreateSecretFails,
         UpdateSecretFails, SignFails, NameNodes
    <2>5. CASE Sign(c)
      BY Zenon, <2>3, <2>5 DEF Sign
    <2>6. QED
      BY Zenon, <2>1, <2>2, <2>4, <2>5 DEF Step
  <1>2. Extends(history', history)
    BY Zenon, StepFrame
  <1>3. \A d \in Calls : pc'[d] = "panic" => pc[d] = "panic"
    BY Zenon, <1>1, StepLocal DEF LocalSame
  <1>4. QED
    BY Zenon, <1>2, <1>3, NotRSAStays DEF NeverPanics

\* Of the other steps only a panic adds one.
LEMMA NextPanics ==
  ASSUME TypeOK, NeverPanics, \A c \in Calls : CallInv(c), Next
  PROVE  NeverPanics'
  <1>1. ASSUME Environment, \A d \in Calls : pc'[d] = "panic" => pc[d] = "panic"
        PROVE  NeverPanics'
    BY Zenon, <1>1, EnvironmentFrame, NotRSAStays DEF NeverPanics, Extends
  <1>2. CASE Tick \/ \E p \in Procs : SyncCache(p)
    <2>1. Environment /\ pc' = pc
      BY Zenon, <1>2 DEF Environment, Tick, SyncCache
    <2>2. QED
      BY Zenon, <1>1, <2>1
  <1>3. ASSUME NEW p \in Procs, Restart(p)
        PROVE  NeverPanics'
    <2>1. Environment
      BY Zenon, <1>3 DEF Restart, Environment
    <2>2. \A d \in Calls : pc'[d] = "panic" => pc[d] = "panic"
      BY Zenon, <1>3, ManagerAssumption DEF Restart, ProcessDies
    <2>3. QED
      BY Zenon, <1>1, <2>1, <2>2
  <1>4. ASSUME NEW c \in Calls, Panics(c)
        PROVE  NeverPanics'
    <2>1. \E version \in 1 .. Current : NotRSA(version)
      BY Zenon, <1>4, PanicSource DEF Panics
    <2>2. history' = history
      BY Zenon, <1>4 DEF Panics, ProcessDies
    <2>3. QED
      BY Zenon, <2>1, <2>2, NotRSAStays DEF NeverPanics, Extends
  <1>5. QED
    BY Zenon, <1>2, <1>3, <1>4, StepPanics DEF Next

\* The initial states satisfy the invariant.
LEMMA InitIInv == Init => IInv
  <1> SUFFICES ASSUME Init PROVE IInv
    OBVIOUS
  <1>1. history \in Seq(Version) /\ Len(history) \in {0, 1}
    <2>1. CASE history = <<>>
      BY <2>1
    <2>2. CASE \E v \in InitialVersions : history = <<v>>
      BY SMTT(30), <2>2, ManagerAssumption
    <2>3. QED
      BY Zenon, <2>1, <2>2 DEF Init
  <1>2. TypeOK
    BY <1>1, ManagerAssumption DEF Init, TypeOK, Current
  <1>3. HistoryInv
    BY <1>1 DEF HistoryInv, Succeeds, Current
  <1>4. \A c \in Calls : CallInv(c)
    BY Zenon DEF Init, CallInv, Working
  <1>5. ClockInv /\ NeverPanics
    BY DEF Init, ClockInv, NeverPanics
  <1>6. QED
    BY Zenon, <1>2, <1>3, <1>4, <1>5 DEF IInv, Init

\* Every step preserves the invariant.
LEMMA NextIInv == IInv /\ [Next]_vars => IInv'
  <1> SUFFICES ASSUME IInv, [Next]_vars PROVE IInv'
    OBVIOUS
  <1>1. ASSUME NEW c \in Calls, Step(c)
        PROVE  IInv'
    <2>1. TypeOK'
      BY Zenon, <1>1, StepType DEF IInv
    <2>2. HistoryInv'
      BY Zenon, <1>1, StepHistory DEF IInv
    <2>3. ASSUME NEW d \in Calls
          PROVE  CallInv(d)'
      <3>1. CASE d = c
        BY Zenon, <1>1, <2>1, <3>1, StepCall DEF IInv
      <3>2. CASE d # c
        <4>1. TypeOK /\ CallInv(d)
          BY Zenon DEF IInv
        <4>2. LocalSame(d) /\ Extends(history', history) /\ now' = now
          BY Zenon, <1>1, <3>2, <4>1, StepLocal, StepFrame
        <4>3. now' \in Int /\ now <= now'
          BY <4>1, <4>2 DEF TypeOK
        <4>4. QED
          BY Zenon, <4>1, <4>2, <4>3, CallInvFrame
      <3>3. QED
        BY Zenon, <3>1, <3>2
    <2>4. \A cert \in issued' : CertInv(cert)'
      BY Zenon, <1>1, StepCerts DEF IInv
    <2>5. ClockInv' /\ NeverPanics'
      BY Zenon, <1>1, StepClock, StepPanics DEF IInv
    <2>6. QED
      BY Zenon, <2>1, <2>2, <2>3, <2>4, <2>5 DEF IInv
  <1>2. CASE Next /\ Environment
    <2>1. history' = history /\ now' \in Int /\ now <= now' /\ issued' = issued
      BY Zenon, <1>2, EnvironmentFrame DEF IInv
    <2>2. TypeOK'
      BY Zenon, <1>2, EnvironmentType DEF IInv
    <2>3. HistoryInv'
      BY Zenon, <2>1, HistoryLater DEF IInv
    <2>4. \A d \in Calls : CallInv(d)'
      BY Zenon, <1>2, EnvironmentCall DEF IInv
    <2>5. \A cert \in issued' : CertInv(cert)'
      BY Zenon, <2>1, CertInvFrame DEF IInv, Extends
    <2>6. ClockInv' /\ NeverPanics'
      BY Zenon, <1>2, EnvironmentClock, NextPanics DEF IInv
    <2>7. QED
      BY Zenon, <2>2, <2>3, <2>4, <2>5, <2>6 DEF IInv
  <1>3. CASE UNCHANGED vars
    <2>1. UNCHANGED <<now, history, cache, mutex, pc, base, cas, atAfter, tries, checkedAt,
                      signer, issued>>
      BY Zenon, <1>3 DEF vars, local
    <2>2. TypeOK'
      BY Zenon, <2>1 DEF IInv, TypeOK, Current
    <2>3. now' \in Int /\ now <= now' /\ Extends(history', history)
      BY <2>1 DEF IInv, TypeOK, Extends
    <2>4. HistoryInv'
      BY SMTT(30), <2>1, <2>3, HistoryLater DEF IInv
    <2>5. \A d \in Calls : CallInv(d)'
      BY Zenon, <2>1, <2>3, CallInvFrame DEF IInv, LocalSame
    <2>6. \A cert \in issued' : CertInv(cert)'
      BY Zenon, <2>1, <2>3, CertInvFrame DEF IInv
    <2>7. ClockInv' /\ NeverPanics'
      BY Zenon, <2>1 DEF IInv, ClockInv, NeverPanics, NotRSA, Current
    <2>8. QED
      BY Zenon, <2>2, <2>4, <2>5, <2>6, <2>7 DEF IInv
  <1>4. QED
    BY Zenon, <1>1, <1>2, <1>3, NextSteps

\* IInv is an invariant.
THEOREM Inductive == Spec => []IInv
  BY InitIInv, NextIInv, PTL DEF Spec

\* The manager's variables always have their types.
THEOREM TypeCorrect == Spec => []TypeOK
  <1>1. IInv => TypeOK
    BY Zenon DEF IInv
  <1>2. QED
    BY <1>1, Inductive, PTL

\* No process ever drops a CA that has not expired from the Secret, and CAs
\* enter it in the order in which they expire: optimistic concurrency makes
\* the whole-data overwrite of updateCertificateAuthoritiesToSecret safe.
THEOREM Continuity == Spec => []BundleContinuity
  <1>1. IInv => BundleContinuity
    BY SMTT(30) DEF IInv, HistoryInv, Succeeds, BundleContinuity, TypeOK, Current
  <1>2. QED
    BY <1>1, Inductive, PTL

\* A self-signed CA never joins a CA that is still valid.
THEOREM OneRoot == Spec => []NoSecondRoot
  <1>1. IInv => NoSecondRoot
    BY Zenon DEF IInv, HistoryInv, Succeeds, NoSecondRoot, TypeOK, Current
  <1>2. QED
    BY <1>1, Inductive, PTL

\* Signers and trust anchors come from an accepted version of the Secret.
THEOREM StoredBeforeUse == Spec => []IssuedFromStoredBundle
  <1>1. IInv => IssuedFromStoredBundle
    BY Zenon DEF IInv, CertInv, IsOldest, IssuedFromStoredBundle
  <1>2. QED
    BY <1>1, Inductive, PTL

\* Only a key that is not RSA makes a call panic: slices.MinFunc and
\* GetTrustAnchors never do, however long the call waited for the mutex.
THEOREM PanicFree == Spec => []NeverPanics
  <1>1. IInv => NeverPanics
    BY Zenon DEF IInv
  <1>2. QED
    BY <1>1, Inductive, PTL

\* A pod is told to restart before its certificate expires, and not before the
\* certificate was made.
THEOREM TimelyRestart == Spec => []RestartInTime
  <1>1. IInv => RestartInTime
    BY Zenon DEF IInv, ClockInv, RestartInTime
  <1>2. QED
    BY <1>1, Inductive, PTL

\* Pods trust each other's certificates across rotations: signing with the
\* oldest valid CA gives every new CA half a lifetime to reach the trust
\* stores before it signs anything.
THEOREM MutualTrust == Spec => []TrustAcrossRotation
  <1>1. IInv => TrustAcrossRotation
    <2> SUFFICES ASSUME IInv, NEW mine \in issued, NEW theirs \in issued,
                        now <= mine.checkedAt + (CALifetime \div 2),
                        theirs.signer.notAfter >= now
                 PROVE  theirs.signer \in mine.anchors
      BY SMTT(30) DEF TrustAcrossRotation
    <2> DEFINE i == mine.version
               j == theirs.version
               half == CALifetime \div 2
    <2>1. /\ mine \in Certificate /\ theirs \in Certificate /\ now \in Int
          /\ history \in Seq(Version) /\ Len(history) \in Nat /\ half \in Int
      BY SMTT(30), ManagerAssumption DEF IInv, TypeOK
    <2>2. /\ i \in 1 .. Current /\ mine.anchors = history[i].cas
          /\ j \in 1 .. Current /\ IsOldest(theirs.signer, history[j].cas)
      BY Zenon DEF IInv, CertInv
    <2>3. PICK lasting \in history[i].cas : lasting.notAfter >= mine.checkedAt + half
      BY ZenonT(30), <2>2 DEF IInv, CertInv, Outlives
    <2>4. /\ theirs.signer.notAfter \in Int /\ lasting.notAfter \in Int
          /\ mine.checkedAt \in Int
      <3>1. theirs.signer \in CA /\ mine.checkedAt \in Int
        BY Zenon, <2>1 DEF Certificate
      <3>2. i \in 1 .. Len(history)
        BY Zenon, <2>2 DEF Current
      <3> HIDE DEF i
      <3>3. history[i].cas \in SUBSET CA
        BY <2>1, <3>2, VersionHoldsCAs
      <3>4. lasting \in CA
        BY Zenon, <3>3
      <3>5. QED
        BY Zenon, <3>1, <3>4 DEF CA
    <2>5. lasting.notAfter >= now
      BY SMTT(30), <2>1, <2>3, <2>4
    <2>6. CASE j < i
      \* A signer of an earlier version has expired, or is still in mine.
      <3>1. Succeeds(history, now, history[i].cas, i - 1) /\ j \in 1 .. i - 1
        BY SMTT(30), <2>1, <2>2, <2>6 DEF IInv, HistoryInv, Current
      <3>2. theirs.signer \in history[j].cas
        BY Zenon, <2>2 DEF IsOldest
      <3>3. theirs.signer \in history[i].cas \/ theirs.signer.notAfter < now
        BY SMTT(30), <3>1, <3>2 DEF Succeeds
      <3>4. QED
        BY SMTT(30), <2>1, <2>2, <2>4, <3>3
    <2>7. CASE i < j
      \* The later version still has lasting; an older signer was there before.
      <3>1. Succeeds(history, now, history[j].cas, j - 1) /\ i \in 1 .. j - 1
        BY SMTT(30), <2>1, <2>2, <2>7 DEF IInv, HistoryInv, Current
      <3>2. lasting \in history[j].cas
        BY SMTT(30), <2>1, <2>3, <2>4, <2>5, <3>1 DEF Succeeds
      <3>3. theirs.signer.notAfter <= lasting.notAfter
        BY Zenon, <2>2, <3>2 DEF IsOldest
      <3>4. QED
        BY SMTT(30), <2>2, <2>3, <2>4, <3>1, <3>3 DEF Succeeds, IsOldest
    <2>8. CASE i = j
      BY Zenon, <2>2, <2>8 DEF IsOldest
    <2>9. QED
      BY <2>1, <2>2, <2>6, <2>7, <2>8 DEF Current
  <1>2. QED
    BY <1>1, Inductive, PTL
=============================================================================
