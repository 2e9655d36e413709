--------------------------- MODULE KerberosKeytab ---------------------------
(***************************************************************************)
(* The Kerberos backend (internal/csi/backend/kerberos.go) and the kadmin   *)
(* wrapper (pkg/kerberos): a publish adds its principals to the KDC one by  *)
(* one and then extracts their keys into a keytab.  Every query of kadmin   *)
(* needs a krb5.conf, shared by all calls of a plugin process with the same *)
(* SecretClass, and a temporary file with the admin keytab.                 *)
(***************************************************************************)
EXTENDS Sequences, SequencesExt

CONSTANTS
  Calls,        \* GetSecretData calls
  Procs,        \* plugin processes
  ProcOf,       \* the process that serves a call
  Principals,
  PrincipalsOf, \* what getPrincipals returns to a call
  None,
  FullDisks     \* processes where writing a temporary file may fail half way

ASSUME KerberosAssumption ==
  /\ ProcOf \in [Calls -> Procs]
  /\ PrincipalsOf \in [Calls -> Seq(Principals)]
  /\ None \notin Calls
  /\ FullDisks \subseteq Procs

VARIABLES
  kdc,        \* the key of a principal, named by the call that drew it; None: no principal
  conf,       \* krb5-<checksum>.conf of a process
  mutex,      \* pkg/kerberos's mutex in a process: the call that holds it, or None
  pc,         \* where a call is, or how it ended
  left,       \* principals the call has still to add
  adminFiles, \* calls whose temporary admin keytab is on disk
  keytab      \* the keytab returned by a call: the key of each principal in it

vars == <<kdc, conf, mutex, pc, left, adminFiles, keytab>>

Working == {"query", "stat", "create", "fill", "adminKeytab", "kadmin"}
Ended == {"done", "failed"}

\* The query a call is about to make or is making.
Adding(c) == left[c] # <<>>

TypeOK ==
  /\ kdc \in [Principals -> Calls \cup {None}]
  /\ conf \in [Procs -> {"absent", "partial", "complete"}]
  /\ mutex \in [Procs -> Calls \cup {None}]
  /\ pc \in [Calls -> {"idle"} \cup Working \cup Ended]
  /\ left \in [Calls -> Seq(Principals)]
  /\ adminFiles \subseteq Calls
  /\ keytab \in [Calls -> [Principals -> Calls \cup {None}]]
  \* The mutex is held by a running AddPrincipal of the same process.
  /\ \A p \in Procs : mutex[p] # None =>
       ProcOf[mutex[p]] = p /\ pc[mutex[p]] \in Working /\ Adding(mutex[p])

NoKeys == [p \in Principals |-> None]

Init ==
  /\ kdc = NoKeys
  /\ conf = [p \in Procs |-> "absent"]
  /\ mutex = [p \in Procs |-> None]
  /\ pc = [c \in Calls |-> "idle"]
  /\ left = [c \in Calls |-> <<>>]
  /\ adminFiles = {}
  /\ keytab = [c \in Calls |-> NoKeys]

Goto(c, from, to) ==
  /\ pc[c] = from
  /\ pc' = [pc EXCEPT ![c] = to]

\* AddPrincipal's deferred Unlock.
Unlock(c) ==
  mutex' = [mutex EXCEPT ![ProcOf[c]] = IF @ = c THEN None ELSE @]

\* The query failed, and with it GetSecretData.
GiveUp(c) ==
  /\ pc' = [pc EXCEPT ![c] = "failed"]
  /\ left' = [left EXCEPT ![c] = <<>>]
-----------------------------------------------------------------------------
\* provisionKeytab up to its loop: the admin keytab is read, the principals
\* are worked out.
Begin(c) ==
  /\ PrincipalsOf[c] # <<>>
  /\ Goto(c, "idle", "query")
  /\ left' = [left EXCEPT ![c] = PrincipalsOf[c]]
  /\ UNCHANGED <<kdc, conf, mutex, adminFiles, keytab>>

\* The Secret or the pod's addresses cannot be read, or no principal is left.
BeginFails(c) ==
  /\ Goto(c, "idle", "failed")
  /\ UNCHANGED <<kdc, conf, mutex, left, adminFiles, keytab>>

\* Slip: AddPrincipal without the mutex.
StartUnlocked(c) ==
  /\ Goto(c, "query", "stat")
  /\ UNCHANGED <<kdc, conf, mutex, left, adminFiles, keytab>>

\* AddPrincipal takes the mutex, Ktadd does not.
StartQuery(c) ==
  /\ Goto(c, "query", "stat")
  /\ \/ Adding(c) /\ mutex[ProcOf[c]] = None /\ mutex' = [mutex EXCEPT ![ProcOf[c]] = c]
     \/ ~Adding(c) /\ UNCHANGED mutex
  /\ UNCHANGED <<kdc, conf, left, adminFiles, keytab>>

\* GetTempPath: a file that exists is used as it is.
StatConf(c) ==
  /\ Goto(c, "stat", IF conf[ProcOf[c]] = "absent" THEN "create" ELSE "adminKeytab")
  /\ UNCHANGED <<kdc, conf, mutex, left, adminFiles, keytab>>

\* Save: os.WriteFile truncates or creates the file, then writes it.
CreateConf(c) ==
  /\ Goto(c, "create", "fill")
  /\ conf' = [conf EXCEPT ![ProcOf[c]] = "partial"]
  /\ UNCHANGED <<kdc, mutex, left, adminFiles, keytab>>

FillConf(c) ==
  /\ Goto(c, "fill", "adminKeytab")
  /\ conf' = [conf EXCEPT ![ProcOf[c]] = "complete"]
  /\ UNCHANGED <<kdc, mutex, left, adminFiles, keytab>>

FillConfFails(c) ==
  /\ ProcOf[c] \in FullDisks /\ pc[c] = "fill"
  /\ GiveUp(c) /\ Unlock(c)
  /\ UNCHANGED <<kdc, conf, adminFiles, keytab>>

\* GetAdminKeytabPath: a temporary file, or the same name again later on.
WriteAdminKeytab(c) ==
  /\ Goto(c, "adminKeytab", "kadmin")
  /\ adminFiles' = adminFiles \cup {c}
  /\ UNCHANGED <<kdc, conf, mutex, left, keytab>>

\* When the write fails no path is returned, and the deferred RemoveAll
\* removes nothing.
WriteAdminKeytabFails(c) ==
  /\ ProcOf[c] \in FullDisks /\ pc[c] = "adminKeytab"
  /\ GiveUp(c) /\ Unlock(c)
  /\ adminFiles' = adminFiles \cup {c}
  /\ UNCHANGED <<kdc, conf, keytab>>

\* addprinc -randkey leaves a principal that exists alone, and succeeds.
Addprinc(c, p) == kdc' = [kdc EXCEPT ![p] = IF @ = None THEN c ELSE @]

\* Slip: ktadd without -norandkey.
KtaddRandkey(c) ==
  LET asked == ToSet(PrincipalsOf[c]) IN
  /\ kdc' = [p \in Principals |-> IF p \in asked THEN c ELSE kdc[p]]
  /\ keytab' = [keytab EXCEPT ![c] = [p \in Principals |-> IF p \in asked THEN c ELSE None]]

\* ktadd -norandkey copies the current keys.
KtaddNorandkey(c) ==
  LET asked == ToSet(PrincipalsOf[c]) IN
  /\ keytab' = [keytab EXCEPT ![c] = [p \in Principals |-> IF p \in asked THEN kdc[p] ELSE None]]
  /\ UNCHANGED kdc

\* kadmin ran; the admin keytab is removed, AddPrincipal or Ktadd returns.  The
\* code goes by the exit status alone: 0 is taken to mean that the principals
\* exist, created or found, or that the keytab has all their keys.
Kadmin(c) ==
  /\ pc[c] = "kadmin" /\ conf[ProcOf[c]] = "complete"
  /\ \/ /\ Adding(c)
        /\ Addprinc(c, Head(left[c]))
        /\ left' = [left EXCEPT ![c] = Tail(@)]
        /\ Goto(c, "kadmin", "query")
        /\ UNCHANGED keytab
     \/ /\ ~Adding(c)
        /\ KtaddNorandkey(c)
        /\ Goto(c, "kadmin", "done")
        /\ UNCHANGED left
  /\ adminFiles' = adminFiles \ {c}
  /\ Unlock(c)
  /\ UNCHANGED conf

\* Slip: the error path returns before the file is removed and the mutex freed.
KadminFailsEarly(c) ==
  /\ pc[c] = "kadmin"
  /\ GiveUp(c)
  /\ UNCHANGED <<kdc, conf, mutex, adminFiles, keytab>>

\* kadmin exits with an error, perhaps after the KDC did what was asked; with
\* a krb5.conf that is not complete it does nothing else.
KadminFails(c) ==
  /\ pc[c] = "kadmin"
  /\ \/ UNCHANGED kdc
     \/ Adding(c) /\ conf[ProcOf[c]] = "complete" /\ Addprinc(c, Head(left[c]))
  /\ GiveUp(c) /\ Unlock(c)
  /\ adminFiles' = adminFiles \ {c}
  /\ UNCHANGED <<conf, keytab>>

\* The container is replaced: its calls are lost and /tmp is new.
Restart(p) ==
  LET dead == {c \in Calls : ProcOf[c] = p /\ pc[c] \in Working} IN
  /\ dead # {}
  /\ pc' = [c \in Calls |-> IF c \in dead THEN "failed" ELSE pc[c]]
  /\ left' = [c \in Calls |-> IF c \in dead THEN <<>> ELSE left[c]]
  /\ conf' = [conf EXCEPT ![p] = "absent"]
  /\ mutex' = [mutex EXCEPT ![p] = None]
  /\ adminFiles' = {c \in adminFiles : ProcOf[c] # p}
  /\ UNCHANGED <<kdc, keytab>>

Step(c) ==
  \/ StartQuery(c) \/ StatConf(c) \/ CreateConf(c) \/ FillConf(c) \/ FillConfFails(c)
  \/ WriteAdminKeytab(c) \/ WriteAdminKeytabFails(c) \/ Kadmin(c) \/ KadminFails(c)

Next ==
  \/ \E c \in Calls : Begin(c) \/ BeginFails(c) \/ Step(c)
  \/ \E p \in Procs : Restart(p)

Spec == Init /\ [][Next]_vars

\* Goroutines are scheduled, the mutex is not withheld from a waiter forever,
\* and kadmin exits.
FairSpec == Spec /\ \A c \in Calls : WF_vars(Step(c) /\ pc[c] # "query")
                                  /\ SF_vars(StartQuery(c))
-----------------------------------------------------------------------------
(***************************************************************************)
(* Properties.                                                             *)
(***************************************************************************)

\* A keytab that was delivered holds the KDC's key of every principal of the
\* volume, and keeps doing so whatever other calls, on this node or others,
\* add or extract later (addprinc of an existing principal, ktadd -norandkey).
KeytabsStayValid ==
  \A c \in Calls : pc[c] = "done" =>
    \A p \in ToSet(PrincipalsOf[c]) : keytab[c][p] = kdc[p] /\ kdc[p] # None

\* kadmin never runs with a krb5.conf that another call has only begun to
\* write, although Ktadd does not take the mutex and GetTempPath checks for
\* existence only (no write fails half way).
ConfCompleteWhenUsed ==
  \A c \in Calls : pc[c] = "kadmin" /\ ProcOf[c] \notin FullDisks => conf[ProcOf[c]] = "complete"

\* No call leaves the admin keytab in /tmp, on no path of Query (no write
\* fails half way).
AdminKeytabRemoved ==
  \A c \in adminFiles : pc[c] = "kadmin" \/ ProcOf[c] \in FullDisks

\* Every call that was begun ends: Query's failures release the mutex that
\* AddPrincipal holds.
EveryProvisionEnds == \A c \in Calls : pc[c] \in Working ~> pc[c] \in Ended
=============================================================================
