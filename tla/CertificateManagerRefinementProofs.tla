----------------- MODULE CertificateManagerRefinementProofs -----------------
(***************************************************************************)
(* CertificateManager implements TrustBundle: every step of a call, of the  *)
(* clock, of an informer or of a dying process is a step of the one bundle, *)
(* or leaves it as it is.                                                   *)
(***************************************************************************)
EXTENDS CertificateManagerRefinement, CertificateManagerProofs

\* Where a call stands in the abstract specification.
LEMMA StatusOf ==
  ASSUME TypeOK, NEW c \in Calls
  PROVE  /\ pc[c] = "idle" => Status(c) = "idle"
         /\ pc[c] \in {"clock", "lock", "load", "rotate", "create", "update"} => Status(c) = "pending"
         /\ pc[c] \in {"select", "sign"} => Status(c) = "joined"
         /\ pc[c] = "done" => Status(c) = "answered"
         /\ pc[c] \in {"failed", "refused", "panic"} => Status(c) = "failed"
  BY Zenon DEF Status

\* The same after a step.
LEMMA StatusNext ==
  ASSUME TypeOK', NEW c \in Calls
  PROVE  /\ pc'[c] \in {"clock", "lock", "load", "rotate", "create", "update"} => Status(c)' = "pending"
         /\ pc'[c] \in {"select", "sign"} => Status(c)' = "joined"
         /\ pc'[c] = "done" => Status(c)' = "answered"
         /\ pc'[c] \in {"failed", "refused", "panic"} => Status(c)' = "failed"
  BY Zenon DEF Status

JoinedNext(c) == IF Status(c)' = "joined" THEN cas'[c] ELSE {}

\* A call's step moves that call only.
LEMMA StepBars ==
  ASSUME TypeOK, NEW c \in Calls, Step(c)
  PROVE  /\ statusBar' = [statusBar EXCEPT ![c] = Status(c)']
         /\ joinedBar' = [joinedBar EXCEPT ![c] = JoinedNext(c)]
  <1>1. \A d \in Calls : d # c => pc'[d] = pc[d] /\ cas'[d] = cas[d]
    BY Zenon, StepLocal DEF LocalSame
  <1>2. \A d \in Calls : d # c => Status(d)' = Status(d)
    BY Zenon, <1>1 DEF Status
  <1>3. statusBar' = [statusBar EXCEPT ![c] = Status(c)']
    BY Zenon, <1>2 DEF statusBar
  <1>4. joinedBar' = [joinedBar EXCEPT ![c] = JoinedNext(c)]
    BY Zenon, <1>1, <1>2 DEF joinedBar, JoinedNext
  <1>5. QED
    BY Zenon, <1>3, <1>4

\* Storing a version that follows all others extends the bundle lawfully.
LEMMA BundleExtends ==
  ASSUME TypeOK,
         \/ history' = history
         \/ \E v \in Version :
              history' = Append(history, v) /\ Succeeds(history, now, v.cas, Current)
  PROVE  Bundle!Extends
  <1>1. CASE history' = history
    BY Zenon, <1>1 DEF Bundle!Extends, CAsOf, Current
  <1>2. ASSUME NEW v \in Version, history' = Append(history, v),
               Succeeds(history, now, v.cas, Current)
        PROVE  Bundle!Extends
    <2>1. /\ history \in Seq(Version) /\ Len(history) \in Nat
          /\ Len(history') = Len(history) + 1 /\ history'[Len(history) + 1] = v
      BY <1>2 DEF TypeOK
    <2>2. CAsOf(Current)' = v.cas
      BY <2>1 DEF CAsOf, Current
    <2>3. CASE Len(history) = 0
      <3>1. CAsOf(Current) = {}
        BY Zenon, <2>3 DEF CAsOf, Current
      <3>2. QED
        BY Zenon, <3>1 DEF Bundle!Extends
    <2>4. CASE Len(history) # 0
      <3>1. CAsOf(Current) = history[Len(history)].cas /\ Len(history) \in 1 .. Current
        BY <2>1, <2>4 DEF CAsOf, Current
      <3>2. QED
        BY Zenon, <1>2, <2>2, <3>1 DEF Bundle!Extends, Succeeds
    <2>5. QED
      BY Zenon, <2>3, <2>4
  <1>3. QED
    BY Zenon, <1>1, <1>2
-----------------------------------------------------------------------------
\* A call that returns with an error, perhaps after its write took effect, is a
\* request that fails.
LEMMA StepFails ==
  ASSUME IInv, IInv', NEW c \in Calls, Step(c),
         pc[c] \in {"idle"} \cup Working, pc'[c] \in {"failed", "refused"}, UNCHANGED issued
  PROVE  Bundle!Fail
  <1>1. TypeOK /\ TypeOK' /\ CallInv(c)
    BY Zenon DEF IInv
  <1>2. /\ statusBar' = [statusBar EXCEPT ![c] = "failed"]
        /\ joinedBar' = [joinedBar EXCEPT ![c] = {}]
    BY Zenon, <1>1, StepBars, StatusNext DEF JoinedNext
  <1>3. statusBar[c] \in {"idle", "pending", "joined"}
    BY Zenon, <1>1, StatusOf DEF statusBar, Working
  <1>4. Bundle!Extends /\ now' = now
    BY Zenon, <1>1, StepWrites, BundleExtends, StepFrame
  <1>5. UNCHANGED deliveredBar
    BY Zenon DEF deliveredBar
  <1>6. /\ statusBar' = [r \in Calls |-> IF r \in {c} THEN "failed" ELSE statusBar[r]]
        /\ joinedBar' = [r \in Calls |-> IF r \in {c} THEN {} ELSE joinedBar[r]]
    BY Zenon, <1>2 DEF statusBar, joinedBar
  <1>7. {c} \in SUBSET {r \in Calls : statusBar[r] \in {"idle", "pending", "joined"}} /\ {c} # {}
    BY Zenon, <1>3
  <1>8. QED
    BY Zenon, <1>4, <1>5, <1>6, <1>7 DEF Bundle!Fail

\* A step that keeps a call pending or joined, and the content of the Secret,
\* is none of the bundle's.
LEMMA StepStutters ==
  ASSUME IInv, IInv', NEW c \in Calls, Step(c), UNCHANGED issued,
         CAsOf(Current)' = CAsOf(Current), Status(c)' = Status(c),
         Status(c) # "joined" \/ cas'[c] = cas[c]
  PROVE  UNCHANGED Bundle!vars
  <1>1. TypeOK
    BY Zenon DEF IInv
  <1>2. statusBar' = statusBar
    BY Zenon, <1>1, StepBars DEF statusBar
  <1>3. joinedBar' = joinedBar
    BY <1>1, StepBars DEF joinedBar, JoinedNext
  <1>4. now' = now /\ deliveredBar' = deliveredBar
    BY Zenon, <1>1, StepFrame DEF deliveredBar
  <1>5. QED
    BY Zenon, <1>2, <1>3, <1>4 DEF Bundle!vars

\* The accepted Update is the instant at which a call joins the bundle.
LEMMA UpdateJoins ==
  ASSUME IInv, IInv', NEW c \in Calls, Step(c), UpdateSecret(c)
  PROVE  Bundle!Join(c)
  <1>1. TypeOK /\ TypeOK' /\ CallInv(c) /\ CallInv(c)'
    BY Zenon DEF IInv
  <1>2. /\ pc[c] = "update" /\ pc'[c] = "select" /\ base'[c] = Len(history')
        /\ UNCHANGED issued
    BY Zenon, <1>1 DEF UpdateSecret, Goto, TypeOK
  <1>3. cas'[c] = CAsOf(Current)'
    BY Zenon, <1>1, <1>2 DEF CallInv, CAsOf, Current
  <1>4. /\ statusBar' = [statusBar EXCEPT ![c] = "joined"]
        /\ joinedBar' = [joinedBar EXCEPT ![c] = CAsOf(Current)']
    BY Zenon, <1>1, <1>2, <1>3, StepBars, StatusNext DEF JoinedNext
  <1>5. statusBar[c] = "pending"
    BY Zenon, <1>1, <1>2, StatusOf DEF statusBar
  <1>6. Bundle!Extends /\ now' = now /\ UNCHANGED deliveredBar
    BY Zenon, <1>1, <1>2, StepWrites, BundleExtends, StepFrame DEF deliveredBar
  <1>7. QED
    BY Zenon, <1>4, <1>5, <1>6 DEF Bundle!Join

\* The certificate of GetSecretData trusts the bundle that the call joined and
\* is signed by the oldest CA in it.
LEMMA SignAnswers ==
  ASSUME IInv, IInv', NEW c \in Publishes, Step(c), Sign(c)
  PROVE  Bundle!Answer(c)
  <1>1. TypeOK /\ TypeOK' /\ CallInv(c) /\ c \in Calls
    BY Zenon DEF IInv, Calls
  <1>2. Return(c, "sign", "done")
    BY Zenon, <1>1, SignEffect
  <1>3. pc[c] = "sign" /\ pc'[c] = "done" /\ history' = history /\ now' = now
    BY Zenon, <1>1, <1>2 DEF Return, Goto, TypeOK, Sign
  <1>4. /\ statusBar' = [statusBar EXCEPT ![c] = "answered"]
        /\ joinedBar' = [joinedBar EXCEPT ![c] = {}]
    BY Zenon, <1>1, <1>3, StepBars, StatusNext DEF JoinedNext
  <1>5. statusBar[c] = "joined" /\ joinedBar[c] = cas[c]
    BY Zenon, <1>1, <1>3, StatusOf DEF statusBar, joinedBar
  <1>6. IsOldest(signer[c], cas[c])
    BY Zenon, <1>1, <1>3 DEF CallInv
  <1>7. deliveredBar' = deliveredBar \cup {[call |-> c, signer |-> signer[c], anchors |-> cas[c]]}
    <2>1. PICK notAfter \in Int, restartAt \in Int :
            issued' = issued \cup {CertificateOf(c, notAfter, restartAt)}
      BY Zenon, <1>1, SignEffect
    <2> DEFINE cert == CertificateOf(c, notAfter, restartAt)
    <2>2. cert.call = c /\ cert.signer = signer[c] /\ cert.anchors = cas[c]
      BY Zenon DEF CertificateOf
    <2> HIDE DEF cert
    <2>3. issued' = issued \cup {cert}
      BY Zenon, <2>1 DEF cert
    <2>4. QED
      BY Zenon, <2>2, <2>3 DEF deliveredBar
  <1>8. UNCHANGED CAsOf(Current)
    BY Zenon, <1>3 DEF CAsOf, Current
  <1>9. QED
    BY Zenon, <1>3, <1>4, <1>5, <1>6, <1>7, <1>8 DEF Bundle!Answer, IsOldest

\* CreateVolume's call is answered without a certificate.
LEMMA NameNodesAnswers ==
  ASSUME IInv, IInv', NEW c \in Creates, Step(c), NameNodes(c)
  PROVE  Bundle!Answer(c)
  <1>1. TypeOK /\ TypeOK' /\ CallInv(c) /\ c \in Calls /\ c \notin Publishes
    BY Zenon, ManagerAssumption DEF IInv, Calls
  <1>2. pc[c] = "sign" /\ pc'[c] = "done" /\ UNCHANGED <<history, now, issued>>
    BY Zenon, <1>1 DEF NameNodes, Return, Goto, TypeOK
  <1>3. /\ statusBar' = [statusBar EXCEPT ![c] = "answered"]
        /\ joinedBar' = [joinedBar EXCEPT ![c] = {}]
    BY Zenon, <1>1, <1>2, StepBars, StatusNext DEF JoinedNext
  <1>4. statusBar[c] = "joined"
    BY Zenon, <1>1, <1>2, StatusOf DEF statusBar
  <1>5. UNCHANGED <<CAsOf(Current), deliveredBar>>
    BY Zenon, <1>2 DEF CAsOf, Current, deliveredBar
  <1>6. QED
    BY Zenon, <1>1, <1>2, <1>3, <1>4, <1>5 DEF Bundle!Answer

\* Every step of a call is a step of its request, or a stutter.
LEMMA StepRefines ==
  ASSUME IInv, IInv', NEW c \in Calls, Step(c)
  PROVE  Bundle!Next \/ UNCHANGED Bundle!vars
  <1>0. TypeOK /\ TypeOK' /\ CallInv(c) /\ CallInv(c)'
    BY Zenon DEF IInv
  <1>1. CASE GetSecret(c)
    <2>1. pc[c] = "idle" /\ pc'[c] = "clock" /\ UNCHANGED <<history, now, issued>>
      BY Zenon, <1>0, <1>1 DEF GetSecret, Goto, TypeOK
    <2>2. Status(c) = "idle" /\ Status(c)' = "pending"
      BY Zenon, <1>0, <2>1, StatusOf, StatusNext
    <2>3. statusBar' = [statusBar EXCEPT ![c] = "pending"] /\ statusBar[c] = "idle"
      BY Zenon, <1>0, <2>2, StepBars DEF statusBar
    <2>4. joinedBar' = joinedBar
      BY Zenon, <1>0, <2>2, StepBars DEF joinedBar, JoinedNext
    <2>5. UNCHANGED <<CAsOf(Current), deliveredBar>>
      BY Zenon, <2>1 DEF CAsOf, Current, deliveredBar
    <2>6. Bundle!Begin(c)
      BY Zenon, <2>1, <2>3, <2>4, <2>5 DEF Bundle!Begin
    <2>7. QED
      BY Zenon, <2>6 DEF Bundle!Next
  <1>2. CASE ReadClock(c) \/ Lock(c) \/ LoadCAs(c) \/ RotateCA(c) \/ UpdateConflicts(c)
    <2> DEFINE pending == {"clock", "lock", "load", "rotate", "create", "update"}
    <2>1. pc[c] \in pending /\ UNCHANGED <<history, issued>>
      BY Zenon, <1>2 DEF ReadClock, Lock, LoadCAs, RotateCA, UpdateConflicts, Goto
    <2>2. pc'[c] \in pending
      BY <1>0, <1>2 DEF ReadClock, Lock, LoadCAs, RotateCA, UpdateConflicts, Goto, TypeOK
    <2>3. Status(c) = "pending" /\ Status(c)' = "pending"
      BY Zenon, <1>0, <2>1, <2>2, StatusOf, StatusNext
    <2>4. CAsOf(Current)' = CAsOf(Current)
      BY Zenon, <2>1 DEF CAsOf, Current
    <2>5. QED
      BY Zenon, <2>1, <2>3, <2>4, StepStutters
  <1>3. CASE CreateSecret(c)
    <2>1. /\ pc[c] = "create" /\ pc'[c] = "update" /\ UNCHANGED issued
          /\ history = <<>> /\ history' = <<[cas |-> {}, layout |-> "numbered"]>>
      BY SMTT(30), <1>0, <1>3 DEF CreateSecret, Goto, TypeOK
    <2>2. Status(c) = "pending" /\ Status(c)' = "pending"
      BY Zenon, <1>0, <2>1, StatusOf, StatusNext
    <2>3. CAsOf(Current) = {} /\ CAsOf(Current)' = {}
      BY Zenon, <2>1 DEF CAsOf, Current
    <2>4. QED
      BY Zenon, <2>1, <2>2, <2>3, StepStutters
  <1>4. CASE SelectCA(c)
    <2>1. pc[c] = "select" /\ UNCHANGED <<history, issued, cas>>
      BY ZenonT(30), <1>4 DEF SelectCA, Goto
    <2>2. pc'[c] = "sign"
      BY Zenon, <1>0, <1>4 DEF SelectCA, Goto, TypeOK
    <2>3. Status(c) = "joined" /\ Status(c)' = "joined"
      BY Zenon, <1>0, <2>1, <2>2, StatusOf, StatusNext
    <2>4. CAsOf(Current)' = CAsOf(Current)
      BY Zenon, <2>1 DEF CAsOf, Current
    <2>5. QED
      BY Zenon, <2>1, <2>3, <2>4, StepStutters
  <1>5. CASE UpdateSecret(c)
    BY Zenon, <1>5, UpdateJoins DEF Bundle!Next
  <1>6. CASE c \in Publishes /\ Sign(c)
    BY Zenon, <1>6, SignAnswers DEF Bundle!Next
  <1>7. CASE c \in Creates /\ NameNodes(c)
    BY Zenon, <1>7, NameNodesAnswers DEF Bundle!Next
  <1>8. CASE \/ GetSecretFails(c) \/ LoadCAsFails(c) \/ SaveRefused(c)
             \/ CreateSecretFails(c) \/ UpdateSecretFails(c) \/ SignFails(c)
    <2>1. UNCHANGED issued
      BY Zenon, <1>8 DEF GetSecretFails, LoadCAsFails, SaveRefused, CreateSecretFails,
         UpdateSecretFails, SignFails
    <2>2. \E from \in {"idle"} \cup Working : \E how \in {"failed", "refused"} :
            Return(c, from, how)
      BY Zenon, <1>8 DEF GetSecretFails, LoadCAsFails, SaveRefused, CreateSecretFails,
         UpdateSecretFails, SignFails, Working
    <2>3. pc[c] \in {"idle"} \cup Working /\ pc'[c] \in {"failed", "refused"}
      BY Zenon, <1>0, <2>2 DEF Return, Goto, TypeOK
    <2>4. QED
      BY Zenon, <2>1, <2>3, StepFails DEF Bundle!Next
  <1>9. QED
    BY Zenon, <1>1, <1>2, <1>3, <1>4, <1>5, <1>6, <1>7, <1>8 DEF Step

\* A process that dies fails all its requests at once, also the one that
\* panicked.
LEMMA DeathRefines ==
  ASSUME IInv, IInv', NEW p \in Procs, NEW culprit \in Calls \cup {None},
         ProcessDies(p, culprit),
         culprit # None => ProcOf[culprit] = p /\ pc[culprit] \in Working
  PROVE  Bundle!Fail
  <1> DEFINE dead == {c \in Calls : ProcOf[c] = p /\ pc[c] \in Working}
  <1>0. TypeOK /\ TypeOK'
    BY Zenon DEF IInv
  <1>1. /\ \A c \in dead : pc'[c] \in {"failed", "panic"}
        /\ \A c \in Calls \ dead : pc'[c] = pc[c] /\ cas'[c] = cas[c]
        /\ dead # {} /\ UNCHANGED <<now, history, issued>>
    BY Zenon, ManagerAssumption DEF ProcessDies, Discard
  <1>2. \A c \in dead : statusBar[c] \in {"idle", "pending", "joined"}
    BY Zenon, <1>0, StatusOf DEF Working, statusBar
  <1>3. dead \subseteq Calls
    OBVIOUS
  <1> HIDE DEF dead
  <1>4. \A c \in dead : Status(c)' = "failed"
    BY Zenon, <1>0, <1>1, <1>3, StatusNext
  <1>5. \A c \in Calls \ dead : Status(c)' = Status(c)
    BY Zenon, <1>1 DEF Status
  <1>6. statusBar' = [r \in Calls |-> IF r \in dead THEN "failed" ELSE statusBar[r]]
    BY Zenon, <1>4, <1>5 DEF statusBar
  <1>7. joinedBar' = [r \in Calls |-> IF r \in dead THEN {} ELSE joinedBar[r]]
    BY Zenon, <1>1, <1>4, <1>5 DEF joinedBar
  <1>8. Bundle!Extends /\ UNCHANGED <<now, deliveredBar>>
    BY Zenon, <1>0, <1>1, BundleExtends DEF deliveredBar
  <1>9. dead \in SUBSET {r \in Calls : statusBar[r] \in {"idle", "pending", "joined"}}
    BY Zenon, <1>2, <1>3
  <1>10. QED
    BY Zenon, <1>1, <1>6, <1>7, <1>8, <1>9 DEF Bundle!Fail

\* The CA Secret that many processes read through stale caches and overwrite
\* as a whole (getCertificateAuthority) behaves like one bundle that every call
\* extends at one instant, its accepted Update.
THEOREM Refinement == Spec => ImplementsBundle
  <1>1. Init => Bundle!Init
    <2> SUFFICES ASSUME Init PROVE Bundle!Init
      OBVIOUS
    <2>1. \A c \in Calls : Status(c) = "idle"
      BY Zenon DEF Init, Status
    <2>2. /\ statusBar = [r \in Calls |-> "idle"]
          /\ joinedBar = [r \in Calls |-> {}]
      BY Zenon, <2>1 DEF statusBar, joinedBar
    <2>3. now = 0 /\ deliveredBar = {}
      BY Zenon DEF Init, deliveredBar
    <2>4. QED
      BY Zenon, <2>2, <2>3 DEF Bundle!Init
  <1>2. IInv /\ [Next]_vars => [Bundle!Next]_(Bundle!vars)
    <2> SUFFICES ASSUME IInv, [Next]_vars
                 PROVE  Bundle!Next \/ UNCHANGED Bundle!vars
      OBVIOUS
    <2>0. IInv'
      BY Zenon, NextIInv
    <2>1. ASSUME NEW c \in Calls, Step(c)
          PROVE  Bundle!Next \/ UNCHANGED Bundle!vars
      BY Zenon, <2>0, <2>1, StepRefines
    <2>2. ASSUME NEW p \in Procs, Restart(p)
          PROVE  Bundle!Next
      BY Zenon, <2>0, <2>2, DeathRefines DEF Restart, Bundle!Next
    <2>3. ASSUME NEW c \in Calls, Panics(c)
          PROVE  Bundle!Next
      <3>1. pc[c] \in Working /\ ProcOf[c] \in Procs
        BY Zenon, <2>3, PanicSource, ManagerAssumption DEF Panics, IInv, Working
      <3>2. QED
        BY Zenon, <2>0, <2>3, <3>1, DeathRefines DEF Panics, Bundle!Next
    <2>4. CASE Tick
      <3>1. now' = now + 1 /\ UNCHANGED <<history, pc, cas, issued>>
        BY Zenon, <2>4 DEF Tick, local
      <3>2. UNCHANGED <<CAsOf(Current), statusBar, joinedBar, deliveredBar>>
        BY <3>1 DEF CAsOf, Current, statusBar, joinedBar, deliveredBar, Status
      <3>3. QED
        BY Zenon, <3>1, <3>2 DEF Bundle!Next, Bundle!Tick
    <2>5. CASE (\E p \in Procs : SyncCache(p)) \/ UNCHANGED vars
      <3>1. UNCHANGED <<now, history, pc, cas, issued>>
        BY Zenon, <2>5 DEF SyncCache, vars, local
      <3>2. UNCHANGED <<CAsOf(Current), statusBar, joinedBar, deliveredBar>>
        BY <3>1 DEF CAsOf, Current, statusBar, joinedBar, deliveredBar, Status
      <3>3. QED
        BY Zenon, <3>1, <3>2 DEF Bundle!vars
    <2>6. QED
      BY Zenon, <2>1, <2>2, <2>3, <2>4, <2>5 DEF Next
  <1>3. QED
    BY <1>1, <1>2, Inductive, PTL DEF Spec, ImplementsBundle, Bundle!Safe
=============================================================================
