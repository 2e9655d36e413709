---------------------------- MODULE TrustBundle -----------------------------
(***************************************************************************)
(* What the CA manager promises, without its Secret, caches, mutexes and    *)
(* processes: there is one bundle of CAs.  It only grows at its young end   *)
(* and only loses what has expired.  A request joins the bundle at one      *)
(* instant between its beginning and its end, perhaps extending it; its     *)
(* answer trusts the bundle of that instant and is signed by the oldest CA  *)
(* in it.  A request that fails may have extended the bundle all the same.  *)
(***************************************************************************)
EXTENDS Integers

CONSTANTS
  Requests,
  Signed    \* the requests that are answered with a certificate

VARIABLES
  now,
  bundle,    \* the CAs that pods are told to trust
  status,    \* of a request
  joined,    \* the bundle a request has joined
  delivered  \* certificates: the request, its signer and its trust anchors

vars == <<now, bundle, status, joined, delivered>>

Init ==
  /\ now = 0
  /\ status = [r \in Requests |-> "idle"]
  /\ joined = [r \in Requests |-> {}]
  /\ delivered = {}

\* bundle' is a legal successor of bundle: it keeps what is valid, adds
\* younger CAs, and a new root only when nothing valid is left.
Extends ==
  /\ \A ca \in bundle \ bundle' : ca.notAfter < now
  /\ \A new \in bundle' \ bundle, old \in bundle :
       /\ old.notAfter < new.notAfter
       /\ new.selfSigned => old.notAfter < now

Begin(r) ==
  /\ status[r] = "idle"
  /\ status' = [status EXCEPT ![r] = "pending"]
  /\ UNCHANGED <<now, bundle, joined, delivered>>

Join(r) ==
  /\ status[r] = "pending"
  /\ Extends
  /\ status' = [status EXCEPT ![r] = "joined"]
  /\ joined' = [joined EXCEPT ![r] = bundle']
  /\ UNCHANGED <<now, delivered>>

\* A certificate, or for a request without one just the answer.
Answer(r) ==
  /\ status[r] = "joined"
  /\ status' = [status EXCEPT ![r] = "answered"]
  /\ joined' = [joined EXCEPT ![r] = {}]
  /\ \/ /\ r \in Signed
        /\ \E oldest \in joined[r] :
             /\ \A ca \in joined[r] : oldest.notAfter <= ca.notAfter
             /\ delivered' = delivered \cup {[call |-> r, signer |-> oldest, anchors |-> joined[r]]}
     \/ r \notin Signed /\ UNCHANGED delivered
  /\ UNCHANGED <<now, bundle>>

\* Requests fail, all those of a process at once when it dies.
Fail ==
  \E failing \in SUBSET {r \in Requests : status[r] \in {"idle", "pending", "joined"}} :
    /\ failing # {}
    /\ Extends
    /\ status' = [r \in Requests |-> IF r \in failing THEN "failed" ELSE status[r]]
    /\ joined' = [r \in Requests |-> IF r \in failing THEN {} ELSE joined[r]]
    /\ UNCHANGED <<now, delivered>>

Tick ==
  /\ now' = now + 1
  /\ UNCHANGED <<bundle, status, joined, delivered>>

Next ==
  \/ \E r \in Requests : Begin(r) \/ Join(r) \/ Answer(r)
  \/ Fail \/ Tick

Safe == Init /\ [][Next]_vars

\* No request waits forever.
Live == \A r \in Requests : status[r] \in {"pending", "joined"} ~> status[r] \in {"answered", "failed"}

Spec == Safe /\ Live
=============================================================================
