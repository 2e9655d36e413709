-------------------------- MODULE MCKerberosKeytab --------------------------
(* Instances of KerberosKeytab for TLC. *)
EXTENDS KerberosKeytab

CONSTANTS c1, c2, c3, n1, n2, http, nn

\* c1 and c2 share a process, c3 runs in another one.
MCProcOf == [c \in Calls |-> IF c = c3 THEN n2 ELSE n1]

\* Two overlapping sets of principals, in different orders.
MCPrincipalsOf == [c \in Calls |-> IF c = c1 THEN <<http, nn>> ELSE IF c = c2 THEN <<nn>> ELSE <<nn, http>>]
=============================================================================
