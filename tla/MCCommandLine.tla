---------------------------- MODULE MCCommandLine ----------------------------
(***************************************************************************)
(* A small instance of CommandLine for TLC: two clusters that are          *)
(* supported and two that are not, two namespaces, two addresses.          *)
(***************************************************************************)
EXTENDS CommandLine

CONSTANTS c1, c2, c3, c4, default, n2, ip1, ip2, gceMulti, gce

V(major, minor, patch) == [major |-> major, minor |-> minor, patch |-> patch]

\* The versions at the borders of what is supported.
MCVersion == [c \in Clusters |-> CASE c = c1 -> V(1, 8, 1) [] c = c2 -> V(2, 0, 0)
                                   [] c = c3 -> V(1, 10, 0) [] c = c4 -> V(1, 8, 0)]

File(ns, class, ip) == [ns |-> ns, class |-> class, ip |-> ip]
MCFiles == {File(None, None, None), File(default, gceMulti, ip2), File(None, gce, ip1)}

MCKubeconfigs == {{c1, c2}, {c1, c3}, {c2, c4}}

Invocation(op, ns, ip, kubecontexts, force, validate) ==
  [op |-> op, args |-> 1, ingress |-> TRUE, kubeconfig |-> TRUE, project |-> TRUE,
   ns |-> ns, ip |-> ip, kubecontexts |-> kubecontexts, force |-> force,
   validate |-> validate]
Invalid == {[Invocation("create", None, ip1, {}, FALSE, TRUE) EXCEPT !.args = 2],
            [Invocation("delete", None, None, {}, FALSE, FALSE) EXCEPT !.project = FALSE]}

\* Without validation only into c1, so that c3 and c4 stay empty.
MCInvocations ==
  {Invocation("create", ns, ip, kc, force, kc = {}) :
     ns \in {None, n2}, ip \in {None, ip1}, kc \in {{}, {c1}}, force \in BOOLEAN}
  \cup {Invocation("delete", ns, None, kc, force, FALSE) :
          ns \in {None, n2}, kc \in {{}, {c1}}, force \in BOOLEAN}
  \cup {Invocation("remove", None, None, {c2}, force, FALSE) : force \in BOOLEAN}
  \cup Invalid
=============================================================================
