-------------------------- MODULE MCVolumeBinding ---------------------------
(* Instances of VolumeBinding for TLC. *)
EXTENDS VolumeBinding

CONSTANTS n1, n2, app, shared, system, svc, lv1, lv2, l1, l2

\* l1 has the service type NodePort.
MCListenerOf == [v \in {lv1, lv2} |-> IF v = lv1 THEN l1 ELSE l2]

Plain(kind) == [kind |-> kind, name |-> None]
Named(kind, name) == [kind |-> kind, name |-> name]

\* The node and pod scopes; a listener volume that the pod does not have; a
\* NodePort Listener for a pod with a node.
MCClaims ==
  {[scope |-> <<Plain("pod"), Plain("node")>>, volumes |-> {}, preset |-> None, subdomain |-> TRUE],
   [scope |-> <<Named("listener-volume", lv2), Named("service", svc), Named("listener-volume", lv1)>>,
    volumes |-> {lv2}, preset |-> None, subdomain |-> FALSE],
   [scope |-> <<Named("listener-volume", lv2), Named("listener-volume", lv1)>>,
    volumes |-> {lv1, lv2}, preset |-> n1, subdomain |-> FALSE]}

Search(where, allowed) ==
  [backends |-> {"K8sSearch"}, refs |-> {}, search |-> where, allowed |-> allowed]

Generate(backends, where) ==
  [backends |-> backends, refs |-> {where}, search |-> "pod", allowed |-> {where}]

\* k8sSearch in the pod's and in an allowed namespace; autoTls, which has
\* precedence over k8sSearch, with its CA in an allowed and in a system
\* namespace; kerberosKeytab.
MCClasses ==
  {Search("pod", {}), Search(shared, {shared}),
   Generate({"AutoTls", "K8sSearch"}, shared), Generate({"AutoTls"}, system),
   Generate({"KerberosKeytab"}, shared)}

Labels == {<<"pod">>, <<"service", <<svc>>>>, <<"listener", 1, l2>>, <<"listener", 2, l1>>}

\* Secrets for both nodes in the pod's namespace and for n1 in the shared one,
\* one of them with the annotation.
MCSecretPool ==
  {[ns |-> app, labels |-> Labels \cup {<<"node", n1>>}, annotation |-> n1],
   [ns |-> app, labels |-> Labels \cup {<<"node", n2>>}, annotation |-> None],
   [ns |-> shared, labels |-> Labels \cup {<<"node", n1>>}, annotation |-> None]}
=============================================================================
