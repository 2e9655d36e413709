------------------------ MODULE KerberosKeytabProofs ------------------------
(***************************************************************************)
(* Proofs about KerberosKeytab, for every set of calls, processes and       *)
(* principals, and whichever processes have full disks.                     *)
(***************************************************************************)
EXTENDS KerberosKeytab, TLAPS

\* A call that adds a principal holds its process's mutex from StartQuery on;
\* one that extracts keys has got through AddPrincipal before, which needed a
\* complete krb5.conf.  So only the holder of the mutex writes the file.
ConfInv(c) ==
  /\ pc[c] \in Working \ {"query"} /\ Adding(c) => mutex[ProcOf[c]] = c
  /\ pc[c] \in Working /\ ~Adding(c) => conf[ProcOf[c]] = "complete"
  /\ pc[c] = "create" => Adding(c) /\ conf[ProcOf[c]] = "absent"
  /\ pc[c] = "fill" => Adding(c) /\ conf[ProcOf[c]] = "partial"
  /\ pc[c] \in {"adminKeytab", "kadmin"} /\ ProcOf[c] \notin FullDisks =>
       conf[ProcOf[c]] = "complete"

\* A file written in part is being written, unless a write may fail.
PartialInv(p) ==
  conf[p] = "partial" /\ p \notin FullDisks => mutex[p] # None /\ pc[mutex[p]] = "fill"

\* The principals that a running call has got past are in the KDC.
AddedInv(c) ==
  pc[c] \in Working =>
    \A p \in ToSet(PrincipalsOf[c]) : kdc[p] # None \/ p \in ToSet(left[c])

IInv ==
  /\ TypeOK
  /\ \A c \in Calls : ConfInv(c) /\ AddedInv(c)
  /\ \A p \in Procs : PartialInv(p)
  /\ KeytabsStayValid
  /\ AdminKeytabRemoved
-----------------------------------------------------------------------------
(***************************************************************************)
(* Lemmas about sequences of principals and about keys.                    *)
(***************************************************************************)

\* The first principal and the others are all of them.
LEMMA ToSetHeadTail ==
  ASSUME NEW S, NEW s \in Seq(S), s # <<>>
  PROVE  /\ Head(s) \in S /\ Tail(s) \in Seq(S)
         /\ ToSet(s) \subseteq {Head(s)} \cup ToSet(Tail(s))
  <1>1. Head(s) \in S /\ Tail(s) \in Seq(S) /\ Len(Tail(s)) = Len(s) - 1 /\ Len(s) \in Nat \ {0}
    OBVIOUS
  <1>2. ASSUME NEW i \in 1 .. Len(s), i # 1
        PROVE  s[i] \in ToSet(Tail(s))
    <2>1. i - 1 \in 1 .. Len(Tail(s)) /\ (i - 1) + 1 = i
      BY <1>1, <1>2
    <2>2. Tail(s)[i - 1] = s[i]
      BY <1>1, <2>1
    <2>3. DOMAIN Tail(s) = 1 .. Len(Tail(s))
      BY <1>1
    <2>4. QED
      BY Zenon, <2>1, <2>2, <2>3 DEF ToSet
  <1>3. QED
    BY <1>1, <1>2 DEF ToSet

\* The principals of a call are principals.
LEMMA AskedType ==
  ASSUME NEW c \in Calls
  PROVE  ToSet(PrincipalsOf[c]) \subseteq Principals
  BY KerberosAssumption DEF ToSet

\* kdc2 holds every key of kdc, and perhaps more.
KeepsKeys(kdc2) == \A p \in Principals : kdc[p] # None => kdc2[p] = kdc[p]

\* addprinc keeps the keys and makes the principal known.
LEMMA AddprincKeeps ==
  ASSUME TypeOK, NEW c \in Calls, NEW p \in Principals, Addprinc(c, p)
  PROVE  /\ kdc' \in [Principals -> Calls \cup {None}]
         /\ KeepsKeys(kdc')
         /\ kdc'[p] # None
  BY Zenon, KerberosAssumption DEF TypeOK, Addprinc, KeepsKeys

\* What is known of the principals of a call survives every step that leaves
\* the call and the keys alone.
LEMMA AddedFrame ==
  ASSUME TypeOK, NEW d \in Calls, AddedInv(d), KeepsKeys(kdc'),
         pc'[d] \in Working => pc[d] \in Working /\ left'[d] = left[d]
  PROVE  AddedInv(d)'
  BY Zenon, AskedType DEF AddedInv, KeepsKeys

\* A delivered keytab stays valid as long as keys are kept.
LEMMA KeytabFrame ==
  ASSUME TypeOK, NEW d \in Calls, KeytabsStayValid, KeepsKeys(kdc'),
         pc[d] = "done", keytab'[d] = keytab[d]
  PROVE  \A p \in ToSet(PrincipalsOf[d]) : keytab'[d][p] = kdc'[p] /\ kdc'[p] # None
  BY Zenon, AskedType DEF KeytabsStayValid, KeepsKeys
-----------------------------------------------------------------------------
(***************************************************************************)
(* Steps of a call.                                                        *)
(***************************************************************************)

\* Every step leaves the other calls and the other processes alone, keeps the
\* keys, and takes the mutex from nobody.
Frame(c) ==
  /\ \A d \in Calls \ {c} : pc'[d] = pc[d] /\ left'[d] = left[d] /\ keytab'[d] = keytab[d]
  /\ \A p \in Procs \ {ProcOf[c]} : conf'[p] = conf[p] /\ mutex'[p] = mutex[p]
  /\ mutex[ProcOf[c]] \notin {None, c} => mutex'[ProcOf[c]] = mutex[ProcOf[c]]
  /\ KeepsKeys(kdc')

\* Every step of a call is such a step.
LEMMA StepFrame ==
  ASSUME TypeOK, NEW c \in Calls, ConfInv(c), Begin(c) \/ BeginFails(c) \/ Step(c)
  PROVE  Frame(c)
  <1> USE KerberosAssumption DEF Frame, TypeOK, Goto
  <1>1. CASE UNCHANGED kdc
    <2>1. KeepsKeys(kdc')
      BY Zenon, <1>1 DEF KeepsKeys
    <2>2. CASE Begin(c) \/ BeginFails(c)
      BY Zenon, <2>1, <2>2 DEF Begin, BeginFails
    <2>3. CASE StartQuery(c) \/ StatConf(c) \/ CreateConf(c) \/ FillConf(c)
      BY <2>1, <2>3 DEF StartQuery, StatConf, CreateConf, FillConf
    <2>4. CASE FillConfFails(c)
      BY Zenon, <2>1, <2>4 DEF FillConfFails, GiveUp, Unlock
    <2>5. CASE WriteAdminKeytab(c) \/ WriteAdminKeytabFails(c)
      BY <2>1, <2>5 DEF WriteAdminKeytab, WriteAdminKeytabFails, GiveUp, Unlock
    <2>6. CASE Kadmin(c)
      BY <2>1, <2>6 DEF Kadmin, KtaddNorandkey, Unlock
    <2>7. CASE KadminFails(c)
      BY Zenon, <2>1, <2>7 DEF KadminFails, GiveUp, Unlock
    <2>8. QED
      BY Zenon, <2>2, <2>3, <2>4, <2>5, <2>6, <2>7 DEF Step
  <1>2. CASE Adding(c) /\ Addprinc(c, Head(left[c]))
    <2>1. KeepsKeys(kdc')
      BY Zenon, <1>2, AddprincKeeps, ToSetHeadTail DEF Adding
    <2>2. CASE Kadmin(c)
      BY Zenon, <1>2, <2>1, <2>2 DEF Kadmin, Unlock
    <2>3. CASE KadminFails(c)
      BY Zenon, <2>1, <2>3 DEF KadminFails, GiveUp, Unlock
    <2>4. CASE UNCHANGED kdc
      BY Zenon, <1>1, <2>4
    <2>5. QED
      BY Zenon, <2>2, <2>3, <2>4 DEF Begin, BeginFails, Step, StartQuery, StatConf, CreateConf, FillConf,
         FillConfFails, WriteAdminKeytab, WriteAdminKeytabFails
  <1>3. QED
    BY Zenon, <1>1, <1>2 DEF Begin, BeginFails, Step, StartQuery, StatConf, CreateConf, FillConf,
       FillConfFails, WriteAdminKeytab, WriteAdminKeytabFails, Kadmin, KadminFails, KtaddNorandkey

\* The mutex is held by a call that is adding a principal.
HolderInv(p) ==
  mutex[p] # None => ProcOf[mutex[p]] = p /\ pc[mutex[p]] \in Working /\ Adding(mutex[p])

\* A step of a call leaves the mutex free or with a call that is adding.
LEMMA StepHolder ==
  ASSUME TypeOK, NEW c \in Calls, ConfInv(c), Begin(c) \/ BeginFails(c) \/ Step(c),
         NEW p \in Procs
  PROVE  HolderInv(p)'
  <1>1. Frame(c) /\ HolderInv(p) /\ mutex[p] \in Calls \cup {None}
    BY Zenon, StepFrame DEF TypeOK, HolderInv
  <1>2. CASE mutex'[p] = mutex[p] /\ mutex[p] # c
    BY <1>1, <1>2 DEF Frame, HolderInv, Adding
  <1>3. CASE mutex'[p] = None
    BY Zenon, <1>3 DEF HolderInv
  <1>4. CASE mutex'[p] = c /\ ProcOf[c] = p /\ pc'[c] \in Working /\ Adding(c)'
    BY Zenon, <1>4 DEF HolderInv
  <1>5. CASE Begin(c) \/ BeginFails(c)
    BY Zenon, <1>1, <1>2, <1>3, <1>5 DEF Begin, BeginFails, Goto, HolderInv, Working
  <1>6. CASE StartQuery(c)
    <2>1. UNCHANGED left /\ pc'[c] = "stat" /\ pc[c] = "query"
      BY Zenon, <1>6 DEF StartQuery, Goto, TypeOK
    <2>2. mutex'[p] = mutex[p] \/ (Adding(c) /\ mutex'[p] = c /\ ProcOf[c] = p)
      BY Zenon, <1>6, KerberosAssumption DEF StartQuery, TypeOK
    <2>3. QED
      BY <1>1, <1>2, <1>3, <1>4, <2>1, <2>2 DEF HolderInv, Adding, Working
  <1>7. CASE StatConf(c) \/ CreateConf(c) \/ FillConf(c) \/ WriteAdminKeytab(c)
    <2>1. UNCHANGED <<mutex, left>> /\ pc'[c] \in Working
      BY <1>7 DEF StatConf, CreateConf, FillConf, WriteAdminKeytab, Goto, TypeOK, Working
    <2>2. QED
      BY Zenon, <1>1, <1>2, <1>3, <1>4, <2>1 DEF HolderInv, Adding
  <1>8. CASE \/ FillConfFails(c) \/ WriteAdminKeytabFails(c) \/ Kadmin(c) \/ KadminFails(c)
    <2>1. Unlock(c)
      BY Zenon, <1>8 DEF FillConfFails, WriteAdminKeytabFails, Kadmin, KadminFails
    <2>2. (mutex'[p] = mutex[p] /\ mutex[p] # c) \/ mutex'[p] = None
      BY Zenon, <1>1, <2>1, KerberosAssumption DEF Unlock, TypeOK, HolderInv
    <2>3. QED
      BY Zenon, <1>2, <1>3, <2>2
  <1>9. QED
    BY Zenon, <1>5, <1>6, <1>7, <1>8 DEF Step

\* A step of a call keeps the types.
LEMMA StepType ==
  ASSUME TypeOK, NEW c \in Calls, ConfInv(c), Begin(c) \/ BeginFails(c) \/ Step(c)
  PROVE  TypeOK'
  <1>1. \A p \in Procs : HolderInv(p)'
    BY Zenon, StepHolder
  <1>2. left[c] \in Seq(Principals) /\ PrincipalsOf[c] \in Seq(Principals)
        /\ (Adding(c) => Tail(left[c]) \in Seq(Principals) /\ Head(left[c]) \in Principals)
    BY Zenon, KerberosAssumption, ToSetHeadTail DEF TypeOK, Adding
  <1>3. left' \in [Calls -> Seq(Principals)]
    <2>1. \E new \in Seq(Principals) : left' = [left EXCEPT ![c] = new]
      <3>1. left = [left EXCEPT ![c] = left[c]]
        BY Zenon DEF TypeOK
      <3>2. <<>> \in Seq(Principals)
        OBVIOUS
      <3>3. QED
        BY Zenon, <1>2, <3>1, <3>2 DEF Begin, BeginFails, Step, StartQuery, StatConf, CreateConf, FillConf,
           FillConfFails, WriteAdminKeytab, WriteAdminKeytabFails, Kadmin, KadminFails, GiveUp
    <2>2. QED
      BY Zenon, <2>1 DEF TypeOK
  <1>4. pc' \in [Calls -> {"idle"} \cup Working \cup Ended]
    <2>1. \E to \in Working \cup Ended : pc' = [pc EXCEPT ![c] = to]
      BY Zenon DEF Begin, BeginFails, Step, StartQuery, StatConf, CreateConf, FillConf,
         FillConfFails, WriteAdminKeytab, WriteAdminKeytabFails, Kadmin, KadminFails, GiveUp,
         Goto, Working, Ended
    <2>2. QED
      BY Zenon, <2>1 DEF TypeOK
  <1>5. mutex' \in [Procs -> Calls \cup {None}]
    BY DEF Begin, BeginFails, Step, StartQuery, StatConf, CreateConf, FillConf,
       FillConfFails, WriteAdminKeytab, WriteAdminKeytabFails, Kadmin, KadminFails, Unlock, TypeOK
  <1>6. conf' \in [Procs -> {"absent", "partial", "complete"}] /\ adminFiles' \subseteq Calls
    BY Zenon DEF Begin, BeginFails, Step, StartQuery, StatConf, CreateConf, FillConf,
       FillConfFails, WriteAdminKeytab, WriteAdminKeytabFails, Kadmin, KadminFails, TypeOK
  <1>7. kdc' \in [Principals -> Calls \cup {None}]
    BY Zenon, <1>2, AddprincKeeps DEF Begin, BeginFails, Step, StartQuery, StatConf, CreateConf, FillConf,
       FillConfFails, WriteAdminKeytab, WriteAdminKeytabFails, Kadmin, KadminFails, KtaddNorandkey,
       TypeOK
  <1>8. keytab' \in [Calls -> [Principals -> Calls \cup {None}]]
    <2>1. CASE KtaddNorandkey(c)
      <3>1. [p \in Principals |-> IF p \in ToSet(PrincipalsOf[c]) THEN kdc[p] ELSE None]
              \in [Principals -> Calls \cup {None}]
        BY Zenon DEF TypeOK
      <3>2. QED
        BY Zenon, <2>1, <3>1 DEF KtaddNorandkey, TypeOK
    <2>2. CASE UNCHANGED keytab
      BY Zenon, <2>2 DEF TypeOK
    <2>3. QED
      BY Zenon, <2>1, <2>2 DEF Begin, BeginFails, Step, StartQuery, StatConf, CreateConf, FillConf,
         FillConfFails, WriteAdminKeytab, WriteAdminKeytabFails, Kadmin, KadminFails
  <1>9. QED
    BY Zenon, <1>1, <1>3, <1>4, <1>5, <1>6, <1>7, <1>8 DEF TypeOK, HolderInv

\* Only the holder of the mutex touches krb5.conf, so what a call knows of the
\* file survives the steps of the other calls.
LEMMA StepOtherConf ==
  ASSUME TypeOK, NEW c \in Calls, ConfInv(c), NEW d \in Calls, d # c, ConfInv(d),
         Begin(c) \/ BeginFails(c) \/ Step(c)
  PROVE  ConfInv(d)'
  <1>1. Frame(c)
    BY Zenon, StepFrame
  <1>2. CASE ProcOf[d] # ProcOf[c]
    BY Zenon, <1>1, <1>2, KerberosAssumption DEF Frame, ConfInv, Adding
  <1>3. CASE ProcOf[d] = ProcOf[c]
    <2>1. mutex[ProcOf[d]] = d => mutex'[ProcOf[d]] = d
      BY <1>1, <1>3, KerberosAssumption DEF Frame
    <2>2. \/ conf'[ProcOf[d]] = conf[ProcOf[d]]
          \/ mutex[ProcOf[d]] = c /\ conf[ProcOf[d]] # "complete"
      <3>1. CASE CreateConf(c) \/ FillConf(c)
        <4>1. pc[c] \in {"create", "fill"}
          BY Zenon, <3>1 DEF CreateConf, FillConf, Goto
        <4>2. Adding(c) /\ conf[ProcOf[c]] \in {"absent", "partial"}
          BY Zenon, <4>1 DEF ConfInv
        <4>3. mutex[ProcOf[c]] = c
          BY Zenon, <4>1, <4>2 DEF ConfInv, Working
        <4>4. QED
          BY Zenon, <1>3, <4>2, <4>3
      <3>2. CASE UNCHANGED conf
        BY Zenon, <3>2
      <3>3. QED
        BY Zenon, <3>1, <3>2 DEF Step, Begin, BeginFails, StartQuery, StatConf, FillConfFails,
           WriteAdminKeytab, WriteAdminKeytabFails, Kadmin, KadminFails
    <2>3. QED
      BY Zenon, <1>1, <2>1, <2>2 DEF Frame, ConfInv, Adding, Working
  <1>4. QED
    BY Zenon, <1>2, <1>3

\* The steps of a call establish what its next steps rely on.
LEMMA StepOwnConf ==
  ASSUME TypeOK, NEW c \in Calls, ConfInv(c), PartialInv(ProcOf[c]),
         Begin(c) \/ BeginFails(c) \/ Step(c)
  PROVE  ConfInv(c)'
  <1> USE KerberosAssumption DEF TypeOK, ConfInv, Goto, Working, Ended, Adding
  <1>1. CASE Begin(c) \/ BeginFails(c)
    BY <1>1 DEF Begin, BeginFails
  <1>2. CASE StartQuery(c)
    BY <1>2 DEF StartQuery
  <1>3. CASE StatConf(c)
    BY <1>3 DEF StatConf, PartialInv
  <1>4. CASE CreateConf(c)
    BY <1>4 DEF CreateConf
  <1>5. CASE FillConf(c)
    BY <1>5 DEF FillConf
  <1>6. CASE WriteAdminKeytab(c)
    BY Zenon, <1>6 DEF WriteAdminKeytab
  <1>7. CASE Kadmin(c)
    BY <1>7 DEF Kadmin
  <1>8. CASE FillConfFails(c) \/ WriteAdminKeytabFails(c) \/ KadminFails(c)
    BY <1>8 DEF FillConfFails, WriteAdminKeytabFails, KadminFails, GiveUp
  <1>9. QED
    BY <1>1, <1>2, <1>3, <1>4, <1>5, <1>6, <1>7, <1>8 DEF Step

\* A krb5.conf in part is being filled by the holder of the mutex.
LEMMA StepPartial ==
  ASSUME TypeOK, NEW c \in Calls, ConfInv(c), NEW p \in Procs, PartialInv(p),
         Begin(c) \/ BeginFails(c) \/ Step(c)
  PROVE  PartialInv(p)'
  <1>1. Frame(c) /\ mutex[p] \in Calls \cup {None}
    BY Zenon, StepFrame DEF TypeOK
  <1>2. CASE ProcOf[c] # p
    BY <1>1, <1>2 DEF Frame, PartialInv, TypeOK
  <1>3. CASE ProcOf[c] = p
    <2>1. CASE CreateConf(c)
      <3>1. pc[c] = "create" /\ pc'[c] = "fill" /\ UNCHANGED mutex
        BY Zenon, <2>1 DEF CreateConf, Goto, TypeOK
      <3>2. mutex[p] = c
        BY Zenon, <1>3, <3>1 DEF ConfInv, Working
      <3>3. QED
        BY Zenon, <3>1, <3>2, KerberosAssumption DEF PartialInv
    <2>2. CASE FillConf(c)
      BY Zenon, <1>3, <2>2 DEF FillConf, PartialInv, TypeOK
    <2>3. CASE UNCHANGED conf /\ pc[c] # "fill"
      BY <1>1, <1>3, <2>3 DEF Frame, PartialInv
    <2>4. CASE FillConfFails(c)
      BY Zenon, <1>3, <2>4 DEF FillConfFails, PartialInv
    <2>5. QED
      BY Zenon, <2>1, <2>2, <2>3, <2>4 DEF Step, Begin, BeginFails, StartQuery, StatConf,
         WriteAdminKeytab, WriteAdminKeytabFails, Kadmin, KadminFails, Goto
  <1>4. QED
    BY Zenon, <1>2, <1>3

\* A call gets past a principal when it is in the KDC.
LEMMA StepAdded ==
  ASSUME TypeOK, NEW c \in Calls, ConfInv(c), AddedInv(c), Begin(c) \/ BeginFails(c) \/ Step(c)
  PROVE  AddedInv(c)'
  <1>1. KeepsKeys(kdc')
    BY Zenon, StepFrame DEF Frame
  <1>2. CASE Begin(c)
    BY Zenon, <1>2 DEF Begin, AddedInv, TypeOK
  <1>3. CASE Kadmin(c) /\ Adding(c)
    <2>1. /\ Addprinc(c, Head(left[c])) /\ left'[c] = Tail(left[c])
          /\ pc[c] = "kadmin" /\ left[c] \in Seq(Principals) /\ left[c] # <<>>
      BY Zenon, <1>3 DEF Kadmin, Goto, TypeOK, Adding
    <2>2. /\ Head(left[c]) \in Principals /\ kdc'[Head(left[c])] # None
          /\ ToSet(left[c]) \subseteq {Head(left[c])} \cup ToSet(left'[c])
      BY Zenon, <2>1, ToSetHeadTail, AddprincKeeps
    <2>3. \A p \in ToSet(PrincipalsOf[c]) : kdc[p] # None \/ p \in ToSet(left[c])
      BY Zenon, <2>1 DEF AddedInv, Working
    <2>4. QED
      BY Zenon, <1>1, <2>2, <2>3, AskedType DEF AddedInv, KeepsKeys
  <1>4. CASE pc'[c] \in Working => pc[c] \in Working /\ left'[c] = left[c]
    BY Zenon, <1>1, <1>4, AddedFrame
  <1>5. CASE \/ BeginFails(c) \/ FillConfFails(c) \/ WriteAdminKeytabFails(c) \/ KadminFails(c)
             \/ (Kadmin(c) /\ ~Adding(c))
    <2>1. pc'[c] \in {"failed", "done"}
      BY Zenon, <1>5 DEF BeginFails, FillConfFails, WriteAdminKeytabFails, KadminFails, Kadmin, GiveUp,
         Goto, TypeOK
    <2>2. QED
      BY Zenon, <2>1 DEF AddedInv, Working
  <1>6. CASE StartQuery(c) \/ StatConf(c) \/ CreateConf(c) \/ FillConf(c) \/ WriteAdminKeytab(c)
    <2>1. pc[c] \in Working /\ left' = left
      BY Zenon, <1>6 DEF StartQuery, StatConf, CreateConf, FillConf, WriteAdminKeytab, Goto, Working
    <2>2. QED
      BY Zenon, <1>4, <2>1
  <1>7. QED
    BY Zenon, <1>2, <1>3, <1>5, <1>6 DEF Step

\* ktadd copies keys that the KDC holds, and no later step changes those.
LEMMA StepKeytabs ==
  ASSUME TypeOK, KeytabsStayValid, NEW c \in Calls, ConfInv(c), AddedInv(c),
         Begin(c) \/ BeginFails(c) \/ Step(c)
  PROVE  KeytabsStayValid'
  <1> SUFFICES ASSUME NEW d \in Calls, pc'[d] = "done"
               PROVE  \A p \in ToSet(PrincipalsOf[d]) : keytab'[d][p] = kdc'[p] /\ kdc'[p] # None
    BY Zenon DEF KeytabsStayValid
  <1>1. Frame(c)
    BY Zenon, StepFrame
  <1>2. CASE d # c
    BY Zenon, <1>1, <1>2, KeytabFrame DEF Frame
  <1>3. CASE d = c
    <2>1. Kadmin(c) /\ ~Adding(c)
      BY Zenon, <1>3 DEF Step, Begin, BeginFails, StartQuery, StatConf, CreateConf, FillConf, FillConfFails,
         WriteAdminKeytab, WriteAdminKeytabFails, Kadmin, KadminFails, GiveUp, Goto, TypeOK
    <2>2. pc[c] = "kadmin" /\ UNCHANGED kdc /\ left[c] = <<>> /\ KtaddNorandkey(c)
      BY Zenon, <2>1 DEF Kadmin, KtaddNorandkey, Adding
    <2>3. \A p \in ToSet(PrincipalsOf[c]) : kdc[p] # None
      BY <2>2 DEF AddedInv, Working, ToSet
    <2>4. \A p \in ToSet(PrincipalsOf[c]) : keytab'[c][p] = kdc[p]
      BY Zenon, <2>2, AskedType DEF KtaddNorandkey, TypeOK
    <2>5. QED
      BY <1>3, <2>2, <2>3, <2>4
  <1>4. QED
    BY Zenon, <1>2, <1>3

\* Every way out of kadmin removes the admin keytab.
LEMMA StepAdmin ==
  ASSUME TypeOK, AdminKeytabRemoved, NEW c \in Calls, ConfInv(c),
         Begin(c) \/ BeginFails(c) \/ Step(c)
  PROVE  AdminKeytabRemoved'
  <1> SUFFICES ASSUME NEW d \in adminFiles', ProcOf[d] \notin FullDisks
               PROVE  pc'[d] = "kadmin"
    BY Zenon DEF AdminKeytabRemoved
  <1>1. d \in Calls /\ Frame(c)
    BY Zenon, StepType, StepFrame DEF TypeOK
  <1>2. CASE d # c
    <2>1. d \in adminFiles
      BY Zenon, <1>2 DEF Step, Begin, BeginFails, StartQuery, StatConf, CreateConf, FillConf, FillConfFails,
         WriteAdminKeytab, WriteAdminKeytabFails, Kadmin, KadminFails
    <2>2. QED
      BY Zenon, <1>1, <1>2, <2>1 DEF Frame, AdminKeytabRemoved
  <1>3. CASE d = c /\ pc[c] = "kadmin"
    <2>1. Kadmin(c) \/ KadminFails(c)
      BY Zenon, <1>3 DEF Step, Begin, BeginFails, StartQuery, StatConf, CreateConf, FillConf, FillConfFails,
         WriteAdminKeytab, WriteAdminKeytabFails, Goto
    <2>2. QED
      BY Zenon, <1>3, <2>1 DEF Kadmin, KadminFails
  <1>4. CASE d = c /\ pc[c] # "kadmin"
    <2>1. WriteAdminKeytab(c) \/ c \in adminFiles
      BY Zenon, <1>4 DEF Step, Begin, BeginFails, StartQuery, StatConf, CreateConf, FillConf, FillConfFails,
         WriteAdminKeytabFails, Kadmin, KadminFails
    <2>2. QED
      BY Zenon, <1>4, <2>1 DEF WriteAdminKeytab, Goto, TypeOK, AdminKeytabRemoved
  <1>5. QED
    BY Zenon, <1>2, <1>3, <1>4
-----------------------------------------------------------------------------
(***************************************************************************)
(* The inductive invariant.                                                *)
(***************************************************************************)

\* A process that dies takes its calls, its mutex and its files with it, and
\* leaves the KDC and the delivered keytabs.
LEMMA RestartInv ==
  ASSUME IInv, NEW p \in Procs, Restart(p)
  PROVE  IInv'
  <1> DEFINE dead == {c \in Calls : ProcOf[c] = p /\ pc[c] \in Working}
  <1>1. /\ \A c \in dead : pc'[c] = "failed" /\ left'[c] = <<>>
        /\ \A c \in Calls \ dead : pc'[c] = pc[c] /\ left'[c] = left[c]
        /\ conf' = [conf EXCEPT ![p] = "absent"] /\ mutex' = [mutex EXCEPT ![p] = None]
        /\ adminFiles' = {c \in adminFiles : ProcOf[c] # p}
        /\ UNCHANGED <<kdc, keytab>>
    BY Zenon DEF Restart
  <1>2. /\ pc' \in [Calls -> {"idle"} \cup Working \cup Ended]
        /\ left' \in [Calls -> Seq(Principals)]
    BY DEF Restart, IInv, TypeOK, Ended
  <1> HIDE DEF dead
  <1>3. \A c \in Calls : c \in dead <=> ProcOf[c] = p /\ pc[c] \in Working
    BY Zenon DEF dead
  <1>4. TypeOK
    BY Zenon DEF IInv
  <1>5. TypeOK'
    <2>1. \A q \in Procs : HolderInv(q)'
      <3> SUFFICES ASSUME NEW q \in Procs PROVE HolderInv(q)'
        OBVIOUS
      <3>1. HolderInv(q) /\ mutex[q] \in Calls \cup {None}
        BY Zenon, <1>4 DEF TypeOK, HolderInv
      <3>2. CASE q = p
        BY Zenon, <1>1, <1>4, <3>2 DEF HolderInv, TypeOK
      <3>3. CASE q # p
        BY <1>1, <1>3, <1>4, <3>1, <3>3 DEF HolderInv, TypeOK, Adding
      <3>4. QED
        BY Zenon, <3>2, <3>3
    <2>2. QED
      BY Zenon, <1>1, <1>2, <1>4, <2>1 DEF TypeOK, HolderInv
  <1>6. ASSUME NEW c \in Calls
        PROVE  ConfInv(c)' /\ AddedInv(c)'
    <2>1. ConfInv(c) /\ AddedInv(c) /\ ProcOf[c] \in Procs
      BY Zenon, KerberosAssumption DEF IInv
    <2>2. CASE pc'[c] \in Working
      <3>1. pc'[c] = pc[c] /\ left'[c] = left[c] /\ ProcOf[c] # p
        BY Zenon, <1>1, <1>3, <2>2 DEF Working
      <3>2. conf'[ProcOf[c]] = conf[ProcOf[c]] /\ mutex'[ProcOf[c]] = mutex[ProcOf[c]]
        BY <1>1, <1>4, <2>1, <3>1 DEF TypeOK
      <3>3. QED
        BY <1>1, <2>1, <3>1, <3>2 DEF ConfInv, AddedInv, Adding
    <2>3. CASE pc'[c] \notin Working
      BY Zenon, <2>3 DEF ConfInv, AddedInv, Working
    <2>4. QED
      BY Zenon, <2>2, <2>3
  <1>7. ASSUME NEW q \in Procs
        PROVE  PartialInv(q)'
    <2>1. PartialInv(q) /\ HolderInv(q) /\ mutex[q] \in Calls \cup {None}
      BY Zenon DEF IInv, TypeOK, HolderInv
    <2>2. CASE q = p
      BY Zenon, <1>1, <1>4, <2>2 DEF PartialInv, TypeOK
    <2>3. CASE q # p
      BY <1>1, <1>3, <1>4, <2>1, <2>3 DEF PartialInv, HolderInv, TypeOK
    <2>4. QED
      BY Zenon, <2>2, <2>3
  <1>8. KeytabsStayValid'
    BY Zenon, <1>1, <1>3 DEF IInv, KeytabsStayValid
  <1>9. AdminKeytabRemoved'
    BY Zenon, <1>1, <1>3, <1>4 DEF IInv, AdminKeytabRemoved, TypeOK
  <1>10. QED
    BY <1>5, <1>6, <1>7, <1>8, <1>9 DEF IInv

\* The initial states satisfy the invariant.
LEMMA InitIInv == Init => IInv
  <1> SUFFICES ASSUME Init PROVE IInv
    OBVIOUS
  <1>1. TypeOK
    BY DEF Init, TypeOK, NoKeys
  <1>2. ASSUME NEW c \in Calls
        PROVE  pc[c] = "idle"
    BY Zenon DEF Init
  <1>3. \A c \in Calls : ConfInv(c) /\ AddedInv(c)
    BY Zenon, <1>2 DEF ConfInv, AddedInv, Working
  <1>4. \A p \in Procs : PartialInv(p)
    BY Zenon DEF Init, PartialInv
  <1>5. KeytabsStayValid /\ AdminKeytabRemoved
    BY Zenon, <1>2 DEF Init, KeytabsStayValid, AdminKeytabRemoved
  <1>6. QED
    BY <1>1, <1>3, <1>4, <1>5 DEF IInv

\* Every step preserves the invariant.
LEMMA NextIInv == IInv /\ [Next]_vars => IInv'
  <1> SUFFICES ASSUME IInv, [Next]_vars PROVE IInv'
    OBVIOUS
  <1>1. ASSUME NEW c \in Calls, Begin(c) \/ BeginFails(c) \/ Step(c)
        PROVE  IInv'
    <2>1. TypeOK /\ KeytabsStayValid /\ AdminKeytabRemoved /\ ConfInv(c) /\ AddedInv(c)
          /\ \A p \in Procs : PartialInv(p)
      BY Zenon DEF IInv
    <2>2. TypeOK' /\ KeytabsStayValid' /\ AdminKeytabRemoved'
      BY <1>1, <2>1, StepType, StepKeytabs, StepAdmin
    <2>3. ASSUME NEW d \in Calls
          PROVE  ConfInv(d)' /\ AddedInv(d)'
      <3>1. ConfInv(d) /\ AddedInv(d)
        BY Zenon DEF IInv
      <3>2. CASE d = c
        BY <1>1, <2>1, <3>2, StepOwnConf, StepAdded, KerberosAssumption
      <3>3. CASE d # c
        <4>1. Frame(c)
          BY Zenon, <1>1, <2>1, StepFrame
        <4>2. AddedInv(d)'
          BY <2>1, <3>1, <3>3, <4>1, AddedFrame DEF Frame
        <4>3. QED
          BY <1>1, <2>1, <3>1, <3>3, <4>2, StepOtherConf
      <3>4. QED
        BY Zenon, <3>2, <3>3
    <2>4. \A p \in Procs : PartialInv(p)'
      BY Zenon, <1>1, <2>1, StepPartial
    <2>5. QED
      BY Zenon, <2>2, <2>3, <2>4 DEF IInv
  <1>2. CASE UNCHANGED vars
    BY <1>2 DEF vars, IInv, TypeOK, ConfInv, AddedInv, PartialInv, Adding, KeytabsStayValid,
       AdminKeytabRemoved
  <1>3. QED
    BY Zenon, <1>1, <1>2, RestartInv DEF Next

\* IInv is an invariant.
THEOREM Inductive == Spec => []IInv
  BY InitIInv, NextIInv, PTL DEF Spec

\* The variables always have their types, and the mutex of a process is only
\* held by a running AddPrincipal of that process.
THEOREM TypeCorrect == Spec => []TypeOK
  <1>1. IInv => TypeOK
    BY Zenon DEF IInv
  <1>2. QED
    BY <1>1, Inductive, PTL

\* Keytabs stay valid whatever calls on any node add and extract later.
THEOREM ValidKeytabs == Spec => []KeytabsStayValid
  <1>1. IInv => KeytabsStayValid
    BY Zenon DEF IInv
  <1>2. QED
    BY <1>1, Inductive, PTL

\* kadmin runs with a complete krb5.conf, although the file is shared and Ktadd
\* takes no mutex: a call only gets to Ktadd after an AddPrincipal.
THEOREM CompleteConf == Spec => []ConfCompleteWhenUsed
  <1>1. IInv => ConfCompleteWhenUsed
    BY Zenon DEF IInv, ConfInv, ConfCompleteWhenUsed
  <1>2. QED
    BY <1>1, Inductive, PTL

\* No path of Query leaves the admin keytab behind.
THEOREM NoAdminKeytabLeft == Spec => []AdminKeytabRemoved
  <1>1. IInv => AdminKeytabRemoved
    BY Zenon DEF IInv
  <1>2. QED
    BY <1>1, Inductive, PTL
=============================================================================
