---------------------------- MODULE KubemciTypes ----------------------------
(***************************************************************************)
(* The parameters of the model: the clusters, the user's services and      *)
(* ingress specifications, and the commands that are run.  Data is         *)
(* abstracted to what the syncers compare or copy.                         *)
(***************************************************************************)
EXTENDS CloudAPI, Naturals, FiniteSets

CONSTANTS
  Clusters,         \* kubeconfig contexts
  Services,         \* names of Kubernetes services an ingress can refer to
  NodePorts,        \* node ports
  InstanceGroups,   \* links to instance groups
  IGsOf,            \* [Clusters -> SUBSET InstanceGroups]
  Tags,             \* network tags
  TagOf,            \* [Clusters -> Tags \cup {None}]: first tag of an instance
  Paths,            \* health check paths
  RootPath,         \* the path "/"
  Probe,            \* [Clusters -> [Services -> Paths \cup {None}]]: readiness probes
  Supported,        \* clusters with a supported Kubernetes version
  IPs,              \* reserved addresses
  CertData,         \* contents of TLS secrets
  PreSharedCerts,   \* certificates uploaded by the user
  OwnCert,          \* the name of the certificate kubemci creates
  Specs,            \* ingress specifications
  Commands,         \* kubemci invocations
  PortMaps,         \* node ports the services can have
  MaxFaults         \* bound on failed calls and crashes

Protocols == {"http", "https"}

(***************************************************************************)
(* What the syncers read of an ingress.  tls is the content of the secret, *)
(* the name of a pre-shared certificate, or None; ip is the address behind *)
(* the static-ip annotation, None if there is no such address; orders is   *)
(* the number of orders in which Go's map iteration can list its rules.    *)
(***************************************************************************)
SpecType == [default : Services \cup {None}, paths : SUBSET Services,
             http : BOOLEAN, tls : CertData \cup PreSharedCerts \cup {None},
             ip : IPs \cup {None}, orders : Nat \ {0}]

CommandType == [op : {"create", "delete", "remove"}, spec : Specs,
                clusters : SUBSET Clusters, force : BOOLEAN,
                validate : BOOLEAN]

ServicesOf(spec) == (spec.paths \cup {spec.default}) \ {None}

\* What the description of a url map or a forwarding rule says of the load
\* balancer (LoadBalancerStatus); a description that is not one is None.
Status == [clusters : SUBSET Clusters, ip : IPs]

(***************************************************************************)
(* RemoveClusters: a description that cannot be parsed is left as it is.   *)
(***************************************************************************)
RemoveClusters(st, removed) ==
  IF st = None THEN None ELSE [st EXCEPT !.clusters = @ \ removed]

\* Seeded fault: only the exact list of all clusters is refused.
hasSomeOtherClusters(clusters, removed) == clusters # removed

\* Whether the clusters of a status are not all among the removed ones.
hasSomeRemainingClusters(clusters, removed) == ~(clusters \subseteq removed)

ASSUME ConfigAssumption ==
  /\ IGsOf \in [Clusters -> SUBSET InstanceGroups]
  /\ TagOf \in [Clusters -> Tags \cup {None}]
  /\ RootPath \in Paths
  /\ Probe \in [Clusters -> [Services -> Paths \cup {None}]]
  /\ Supported \subseteq Clusters
  /\ Specs \subseteq SpecType
  /\ Commands \subseteq CommandType
  /\ MaxFaults \in Nat

\* None is different from everything it stands beside, and the certificate
\* kubemci creates has a name of its own.
ASSUME NoneAssumption ==
  /\ None \notin Services \cup NodePorts \cup Tags \cup Paths \cup IPs
  /\ None \notin CertData \cup PreSharedCerts \cup {OwnCert}
  /\ None \notin Commands \cup Status
  /\ OwnCert \notin PreSharedCerts
  /\ CertData \cap PreSharedCerts = {}

\* In one cluster a node port belongs to one service.
ASSUME PortMapsAssumption ==
  /\ PortMaps \subseteq [Clusters -> [Services -> NodePorts \cup {None}]]
  /\ \A m \in PortMaps, c \in Clusters, s, t \in Services :
        m[c][s] = m[c][t] /\ m[c][s] # None => s = t
=============================================================================
