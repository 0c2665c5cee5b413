------------------------------ MODULE MCKubemci ------------------------------
(***************************************************************************)
(* Small instances of Kubemci for TLC.                                     *)
(***************************************************************************)
EXTENDS KubemciRefinement, StatusCommands, TLC

CONSTANTS c1, c2, s1, s2, p1, p2, g1, g2, t1, t2, ip1, ip2, d1, d2, shared, root, healthz

\* Two clusters with one instance group and one network tag each.
TwoIGs == c1 :> {g1} @@ c2 :> {g2}
TwoTags == c1 :> t1 @@ c2 :> t2

\* One cluster with two instance groups.
OneIGs == c1 :> {g1, g2}
OneTag == c1 :> t1

\* One cluster with one instance group.
SingleIG == c1 :> {g1}

\* Pods without readiness probes; pods that have one in the second cluster only.
NoProbes == [c \in Clusters |-> [s \in Services |-> None]]
SomeProbes == [c \in Clusters |-> [s \in Services |-> IF c = c2 THEN healthz ELSE None]]

Site(default, paths, http, tls, ip, orders) ==
  [default |-> default, paths |-> paths, http |-> http, tls |-> tls,
   ip |-> ip, orders |-> orders]

Cmds(ops, specs, clusters, validate) ==
  [op : ops, spec : specs, clusters : clusters, force : BOOLEAN,
   validate : validate]

-----------------------------------------------------------------------------
(***************************************************************************)
(* Membership: one HTTP service; two clusters join and leave.  The load    *)
(* balancer may have been made by an old kubemci, with its status on the   *)
(* forwarding rule.                                                        *)
(***************************************************************************)
HTTPSite == Site(s1, {}, TRUE, None, ip1, 1)
HTTPSites == {HTTPSite}
OnePort == {[c \in Clusters |-> [s \in Services |-> p1]]}

MembershipCommands ==
  Cmds({"create"}, HTTPSites, {{c1}, {c1, c2}}, {FALSE})
  \cup Cmds({"create"}, HTTPSites, {{c2}}, {TRUE})
  \cup Cmds({"remove"}, HTTPSites, SUBSET {c1, c2}, {FALSE})
  \cup Cmds({"delete"}, HTTPSites, {{c1, c2}}, {FALSE})

OldLB ==
  [hc |-> p1 :> [svc |-> s1, path |-> healthz],
   be |-> p1 :> [svc |-> s1, igs |-> {g1, g2}],
   um |-> [default |-> p1, rules |-> s1 :> None, order |-> 1, st |-> None],
   tp |-> "http" :> [cert |-> None] @@ "https" :> None,
   fr |-> "http" :> [ip |-> ip1, st |-> [clusters |-> {c1, c2}, ip |-> ip1]]
          @@ "https" :> None,
   cert |-> None,
   fw |-> [ports |-> {p1}, tags |-> {t1, t2}],
   ing |-> c1 :> [spec |-> HTTPSite, igs |-> {g1}]
           @@ c2 :> [spec |-> HTTPSite, igs |-> {g2}]]
OldLBs == {OldLB}

-----------------------------------------------------------------------------
(***************************************************************************)
(* Frontend: one cluster, and an ingress whose protocols, certificates and *)
(* address change.  The last site has no default backend, the one before   *)
(* an address that does not exist.                                         *)
(***************************************************************************)
FrontendSites == {Site(s1, {}, TRUE, None, ip1, 1),
                  Site(s1, {}, TRUE, d1, ip2, 1),
                  Site(s1, {}, FALSE, d2, ip1, 1),
                  Site(s1, {}, FALSE, shared, ip1, 1),
                  Site(s1, {}, TRUE, None, None, 1),
                  Site(None, {s1}, TRUE, None, ip1, 1)}

FrontendCommands ==
  Cmds({"create"}, FrontendSites, {{c1}}, {FALSE})
  \cup Cmds({"delete"}, {HTTPSite}, {{c1}, {}}, {FALSE})

-----------------------------------------------------------------------------
(***************************************************************************)
(* Services: one cluster and two services, that exchange their node ports, *)
(* disappear and come back while the commands run.                         *)
(***************************************************************************)
TwoServices == Site(s1, {s2}, TRUE, None, ip1, 1)
ServiceSites == {TwoServices, Site(s2, {}, TRUE, None, ip1, 1)}

MovingPorts == {c1 :> (s1 :> p1 @@ s2 :> p2), c1 :> (s1 :> p2 @@ s2 :> None)}

ServiceCommands ==
  Cmds({"create"}, ServiceSites, {{c1}}, {FALSE})
  \cup {c \in Cmds({"delete", "remove"}, {TwoServices}, {{c1}}, {FALSE}) :
          c.force <=> c.op = "remove"}
=============================================================================
