-------------------- MODULE CertificateManagerRefinement --------------------
(***************************************************************************)
(* CertificateManager implements TrustBundle.  A call joins the bundle when *)
(* the API server accepts its Update; until then it is pending, whatever    *)
(* locks, conflicts and retries it goes through.                            *)
(***************************************************************************)
EXTENDS CertificateManager

Status(c) ==
  CASE pc[c] = "idle" -> "idle"
    [] pc[c] \in {"clock", "lock", "load", "rotate", "create", "update"} -> "pending"
    [] pc[c] \in {"select", "sign"} -> "joined"
    [] pc[c] = "done" -> "answered"
    [] pc[c] \in {"failed", "refused", "panic"} -> "failed"

statusBar == [c \in Calls |-> Status(c)]
joinedBar == [c \in Calls |-> IF Status(c) = "joined" THEN cas[c] ELSE {}]
deliveredBar ==
  {[call |-> cert.call, signer |-> cert.signer, anchors |-> cert.anchors] : cert \in issued}

Bundle == INSTANCE TrustBundle WITH
  Requests <- Calls, Signed <- Publishes,
  bundle <- CAsOf(Current), status <- statusBar, joined <- joinedBar, delivered <- deliveredBar

\* The CA Secret that several processes read through stale caches and overwrite
\* as a whole behaves like one bundle that every call extends atomically
\* (getCertificateAuthority, updateCertificateAuthoritiesToSecret): the
\* successful Update is the instant at which a call takes effect.
ImplementsBundle == Bundle!Safe

\* The same, and every call that was begun is answered or fails: caMutex is
\* released on every path, also by calls that fail or whose process dies, and
\* conflicts are not retried forever.
ImplementsLiveBundle == Bundle!Spec
=============================================================================
