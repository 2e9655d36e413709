------------------------ MODULE MCCertificateManager ------------------------
(* Instances of CertificateManager for TLC. *)
EXTENDS CertificateManagerRefinement

CONSTANTS c1, c2, c3, n1, n2

\* c1 and c2 share a process, c3 runs in another one.
MCProcOf == [c \in Calls |-> IF c = c3 THEN n2 ELSE n1]

AdminCA(notAfter) == [by |-> Admin, notAfter |-> notAfter, selfSigned |-> TRUE]

\* An administrator's CA near its end, one that has expired beside a good
\* one, a Secret without CAs, one that cannot be parsed, and one with a key
\* that is not RSA.
MCInitialVersions ==
  {[cas |-> {AdminCA(1)}, layout |-> "other"],
   [cas |-> {AdminCA(-1), AdminCA(3)}, layout |-> "numbered"],
   [cas |-> {}, layout |-> "other"],
   [cas |-> {}, layout |-> "malformed"],
   [cas |-> {AdminCA(3)}, layout |-> "notRSA"]}

ValidAdminCA == {[cas |-> {AdminCA(3)}, layout |-> "other"]}
=============================================================================
