---------------------------- MODULE URLMapSyncer ----------------------------
(***************************************************************************)
(* pkg/gcp/urlmap and pkg/gcp/status: the url map routes the paths of the  *)
(* ingress to backend services, and its description holds the status of    *)
(* the load balancer.                                                      *)
(***************************************************************************)
EXTENDS KubemciTypes

VARIABLE um         \* the url map

(***************************************************************************)
(* default and rules[s] are the ports of the backend services used; order  *)
(* is the order in which the host and path rules are listed, which counts  *)
(* when url maps are compared; st is None when the description is not a    *)
(* status.                                                                 *)
(***************************************************************************)
URLMaps == [default : NodePorts, rules : [Services -> NodePorts \cup {None}],
            order : Nat, st : Status \cup {None}]

ASSUME NoneOfURLMaps == None \notin URLMaps

URLMapTypeOK == um \in URLMaps \cup {None}

\* ingToURLMap fails on a rule or a default without a backend service.
ingToURLMapFails(spec, bes) ==
  \/ spec.default = None
  \/ \E s \in ServicesOf(spec) : bes[s] = None

desiredURLMap(spec, clusters, bes, order) ==
  [default |-> bes[spec.default],
   rules |-> [s \in Services |-> IF s \in spec.paths THEN bes[s] ELSE None],
   order |-> order,
   st |-> [clusters |-> clusters, ip |-> spec.ip]]

\* Host rules and path rules are compared as lists, their order included.
urlMapMatches(desired, existing) == existing = desired

\* Go iterates over the map of hosts and paths in any order.
EnsureURLMap(spec, clusters, bes, force) ==
  IF ingToURLMapFails(spec, bes)
    THEN {Refused(um)}
    ELSE UNION {LET desired == desiredURLMap(spec, clusters, bes, order)
                IN  Ensure(um, Create(um, desired), urlMapMatches(desired, um), force,
                           Call(um, desired)) : order \in 1..spec.orders}

DeleteURLMap(inUse) == Delete(um, inUse)

desiredURLMapWithoutClusters(existing, clusters) ==
  [existing EXCEPT !.st = RemoveClusters(@, clusters)]

URLMapRemoveClustersFromStatus(clusters) ==
  IF um = None
    THEN {Refused(None)} \cup Faulty({None})
    ELSE Call(um, desiredURLMapWithoutClusters(um, clusters))

\* The backend services that the url map points to.
BackendServicesInUse ==
  IF um = None
    THEN {}
    ELSE {p \in NodePorts : p = um.default \/ \E s \in Services : p = um.rules[s]}
=============================================================================
