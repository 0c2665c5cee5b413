---------------------------- MODULE IngressSyncer ----------------------------
(***************************************************************************)
(* pkg/ingress, pkg/kubeutils and pkg/validations: the state kept in the   *)
(* clusters.  The ingress-gce controller of a cluster (external) writes    *)
(* the instance groups of the cluster into an annotation of the ingress.   *)
(***************************************************************************)
EXTENDS KubemciTypes

VARIABLES
  ing,              \* cluster -> ingress resource
  nodePort          \* cluster -> service -> node port, None if there is none

\* igs = {} stands for a missing or empty annotation.
Ingresses == [spec : Specs, igs : SUBSET InstanceGroups]

ASSUME NoneOfIngresses == None \notin Ingresses

IngressTypeOK == /\ ing \in [Clusters -> Ingresses \cup {None}]
                 /\ nodePort \in PortMaps

desiredIngress(spec) == [spec |-> spec, igs |-> {}]

\* Seeded fault: the annotation of the controller is compared too.
ingressMatchesAnnotated(existing, spec) == existing = desiredIngress(spec)

\* ObjectMetaAndSpecEquivalent, ignoring the annotation of the controller.
ingressMatches(existing, spec) == existing.spec = spec

\* The update replaces the annotations, that of the controller included.
ensureIngressInCluster(c, spec, force) ==
  Ensure(ing[c], Create(None, desiredIngress(spec)),
         ingressMatches(ing[c], spec), force,
         Call(ing[c], desiredIngress(spec)))

EnsureIngress(spec, clients, force) ==
  Choices([c \in Clusters |->
    IF c \in clients THEN ensureIngressInCluster(c, spec, force)
                     ELSE {Ok(ing[c])}])

DeleteIngress(clients) ==
  Choices([c \in Clusters |->
    IF c \in clients THEN Delete(ing[c], FALSE) ELSE {Ok(ing[c])}])

(***************************************************************************)
(* ingToNodePorts: a service that does not exist, or that the API server   *)
(* does not return, is left out and the error is ignored.  ports maps a    *)
(* node port to the service that listens on it.                            *)
(***************************************************************************)
ingToNodePorts(spec, client) ==
  LET known == {s \in ServicesOf(spec) : nodePort[client][s] # None}
      portsOf(S) == [p \in NodePorts |->
                       IF \E s \in S : nodePort[client][s] = p
                         THEN CHOOSE s \in S : nodePort[client][s] = p
                         ELSE None]
  IN  {[ports |-> portsOf(S), fault |-> S # known] : S \in SUBSET known}

\* Every cluster has the service, and on the same port.
nodePortSameInAllClusters(s, clients) ==
  \A c, d \in clients : /\ nodePort[c][s] # None
                        /\ nodePort[c][s] = nodePort[d][s]

serverVersionsNewEnough(clients) == clients \subseteq Supported

\* The errors of the path services are dropped; only the default counts.
servicesNodePortsSame(clients, spec) ==
  /\ spec.default # None
  /\ nodePortSameInAllClusters(spec.default, clients)

\* A call to a cluster may fail; that is an error for the versions and for
\* the default service.
Validate(clients, spec) ==
  Faulty({None}) \cup
  {IF serverVersionsNewEnough(clients) /\ servicesNodePortsSame(clients, spec)
     THEN Ok(None) ELSE Refused(None)}
=============================================================================
