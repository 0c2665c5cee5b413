------------------------- MODULE LoadBalancerSyncer -------------------------
(***************************************************************************)
(* pkg/gcp/loadbalancer: CreateLoadBalancer, DeleteLoadBalancer and        *)
(* RemoveFromClusters run the syncers of the seven resources one after the *)
(* other.  Each call of a syncer is one action; pc names the call that     *)
(* comes next.  Errors are collected in err and do not stop a command,     *)
(* except where the code returns early.                                    *)
(***************************************************************************)
EXTENDS HealthCheckSyncer, BackendServiceSyncer, URLMapSyncer,
        TargetProxySyncer, ForwardingRuleSyncer, SSLCertSyncer,
        FirewallRuleSyncer, IngressSyncer

VARIABLES
  pc,               \* next step of the running command, or "idle"
  cmd,              \* the running command, None when idle
  err,              \* the command has collected an error
  fault,            \* a call of the command has failed
  faults,           \* number of faults so far (ghost, bounded by MaxFaults)
  loc               \* local variables of the command

cloud == <<hc, be, um, tp, fr, cert, fw>>

(***************************************************************************)
(* ports: the services found, by node port (ServicePort list);             *)
(* todo, igs: the clusters getIGs has still to ask, and the links it got;  *)
(* hcs, nps: ports with an ensured health check, with a named port;        *)
(* bes: the backend services ensured, by service name;                     *)
(* um, tp: a link to the url map, to the last proxy was returned;          *)
(* cert: the link that EnsureSSLCert returned.                             *)
(***************************************************************************)
Locals == [ports : [NodePorts -> Services \cup {None}],
           todo : SUBSET Clusters,
           igs : [Clusters -> SUBSET InstanceGroups],
           hcs : SUBSET NodePorts, nps : SUBSET NodePorts,
           bes : [Services -> NodePorts \cup {None}],
           um : BOOLEAN, tp : BOOLEAN, cert : CertLinks \cup {None}]

NoLocals == [ports |-> [p \in NodePorts |-> None],
             todo |-> {}, igs |-> [c \in Clusters |-> {}],
             hcs |-> {}, nps |-> {}, bes |-> [s \in Services |-> None],
             um |-> FALSE, tp |-> FALSE, cert |-> None]

CreateSteps == {"nodePorts", "healthCheck", "getIGs",
                "backendService", "urlMap", "httpProxy", "httpRule", "sslCert",
                "httpsProxy", "httpsRule", "firewall"}
DeleteSteps == {"delFirewall", "delRules", "delProxies", "delCert",
                "delURLMap", "delPorts", "delBackends", "delHealthChecks"}
RemoveSteps == {"rmStatusCheck", "rmNodePorts", "rmIGs", "rmFirewall",
                "rmBackends", "rmStatus"}

\* A step ends with an error e and a fault f.
Record(e, f) ==
  /\ f => faults < MaxFaults
  /\ err' = (err \/ e)
  /\ fault' = (fault \/ f)
  /\ faults' = IF f THEN faults + 1 ELSE faults
  /\ UNCHANGED cmd

\* Seeded fault: the ingress is deleted after an error even without --force.
AfterSyncerAlways(e) ==
  IF cmd.op = "create" THEN "done" ELSE "delIngress"

\* Where a load balancer method returns to.  create ends with it; the other
\* commands go on to delete the ingress, after an error only under --force.
AfterSyncer(e) ==
  IF cmd.op = "create" \/ (e /\ ~cmd.force) THEN "done" ELSE "delIngress"

KnownClusters == {c \in Clusters : loc.igs[c] # {}}
\* Seeded fault: the instance groups of one cluster replace those of the others.
AllIGsOfLast ==
  IF KnownClusters = {} THEN {} ELSE loc.igs[CHOOSE c \in KnownClusters : TRUE]

AllIGs == UNION {loc.igs[c] : c \in Clusters}

-----------------------------------------------------------------------------
(***************************************************************************)
(* Steps that only read.                                                   *)
(***************************************************************************)

\* getAnyClient and ingToNodePorts, at any client; create also looks up the
\* address (getIPAddress).
readNodePorts(here, next) ==
  /\ pc = here
  /\ UNCHANGED <<cloud, ing, nodePort>>
  /\ \/ /\ cmd.clusters = {}
        /\ pc' = AfterSyncer(TRUE)
        /\ UNCHANGED loc
        /\ Record(TRUE, FALSE)
     \/ \E c \in cmd.clusters : \E r \in ingToNodePorts(cmd.spec, c) :
          /\ pc' = next
          /\ loc' = [loc EXCEPT !.ports = r.ports]
          /\ Record(FALSE, r.fault)

\* Seeded fault: an address that cannot be found is not noticed.
createNodePortsUnaddressed == readNodePorts("nodePorts", "healthCheck")

createNodePorts ==
  /\ pc = "nodePorts" /\ cmd.spec.ip # None
  /\ readNodePorts("nodePorts", "healthCheck")

\* The address cannot be found: CreateLoadBalancer returns.
noIPAddress ==
  /\ pc = "nodePorts"
  /\ pc' = "done"
  /\ Record(TRUE, cmd.spec.ip # None)
  /\ UNCHANGED <<cloud, ing, nodePort, loc>>

\* Seeded fault: a missing ingress is polled for as well.
getIGsForClusterPolling(c) ==
  \/ /\ ing[c] # None /\ ing[c].igs # {}
     /\ loc' = [loc EXCEPT !.igs[c] = ing[c].igs, !.todo = @ \ {c}]
     /\ Record(FALSE, FALSE)
  \/ /\ ing[c] # None
     /\ loc' = [loc EXCEPT !.todo = @ \ {c}]
     /\ Record(TRUE, TRUE)

(***************************************************************************)
(* getIGs asks the clusters in any order.  getIGsForCluster keeps polling  *)
(* while the ingress has no annotation, and fails without an ingress.      *)
(***************************************************************************)
getIGsForCluster(c) ==
  \/ /\ ing[c] # None /\ ing[c].igs # {}
     /\ loc' = [loc EXCEPT !.igs[c] = ing[c].igs, !.todo = @ \ {c}]
     /\ Record(FALSE, FALSE)
  \/ /\ loc' = [loc EXCEPT !.todo = @ \ {c}]
     /\ Record(TRUE, ing[c] # None)

getIGs(here) ==
  /\ pc = here
  /\ \E c \in loc.todo : getIGsForCluster(c)
  /\ UNCHANGED <<cloud, ing, nodePort, pc>>

(***************************************************************************)
(* getNamedPorts reads one instance group of any cluster.  The controller  *)
(* of the cluster names the node ports of its services on it (external).   *)
(* CreateLoadBalancer returns without instance groups or named ports.      *)
(***************************************************************************)
getNamedPorts ==
  /\ pc = "getIGs" /\ loc.todo = {}
  /\ \/ /\ KnownClusters = {}
        /\ pc' = "done"
        /\ UNCHANGED loc
        /\ Record(TRUE, FALSE)
     \/ \E c \in KnownClusters :
          LET nps == {nodePort[c][s] : s \in Services} \ {None}
          IN  /\ loc' = [loc EXCEPT !.nps = nps]
              /\ pc' = IF nps = {} THEN "done" ELSE "backendService"
              /\ Record(nps = {}, FALSE)
     \/ /\ KnownClusters # {}
        /\ pc' = "done"
        /\ UNCHANGED loc
        /\ Record(TRUE, TRUE)
  /\ UNCHANGED <<cloud, ing, nodePort>>

-----------------------------------------------------------------------------
(***************************************************************************)
(* CreateLoadBalancer.                                                     *)
(***************************************************************************)

createHealthChecks ==
  /\ pc = "healthCheck"
  /\ pc' = "getIGs"
  /\ \E o \in EnsureHealthCheck(loc.ports, cmd.clusters, cmd.force) :
       /\ hc' = Results(o)
       /\ loc' = [loc EXCEPT !.hcs = {p \in NodePorts :
                                        loc.ports[p] # None /\ ~o[p].err}]
       /\ Record(AnyErr(o), AnyFault(o))
  /\ UNCHANGED <<be, um, tp, fr, cert, fw, ing, nodePort>>

\* The backend services that were ensured, keyed by the name of the service.
ensuredBackendServices(ports, o) ==
  [s \in Services |->
    IF \E p \in NodePorts : ports[p] = s /\ ~o[p].err
      THEN CHOOSE p \in NodePorts : ports[p] = s /\ ~o[p].err
      ELSE None]

createBackendServices ==
  /\ pc = "backendService"
  /\ pc' = "urlMap"
  /\ \E o \in EnsureBackendService(loc.ports, loc.hcs, loc.nps, AllIGs, cmd.force) :
       /\ be' = Results(o)
       /\ loc' = [loc EXCEPT !.bes = ensuredBackendServices(loc.ports, o)]
       /\ Record(AnyErr(o), AnyFault(o))
  /\ UNCHANGED <<hc, um, tp, fr, cert, fw, ing, nodePort>>

\* HTTPS is configured if the ingress has a secret or a pre-shared certificate.
AfterHTTP == IF cmd.spec.tls # None THEN "sslCert" ELSE "firewall"

createURLMap ==
  /\ pc = "urlMap"
  /\ pc' = IF cmd.spec.http THEN "httpProxy" ELSE AfterHTTP
  /\ \E o \in EnsureURLMap(cmd.spec, cmd.clusters, loc.bes, cmd.force) :
       /\ um' = o.res
       /\ loc' = [loc EXCEPT !.um = ~o.err]
       /\ Record(o.err, o.fault)
  /\ UNCHANGED <<hc, be, tp, fr, cert, fw, ing, nodePort>>

createHTTPProxy ==
  /\ pc = "httpProxy"
  /\ pc' = "httpRule"
  /\ \E o \in ensureHTTPProxy(loc.um, cmd.force) :
       /\ tp' = [tp EXCEPT !["http"] = o.res]
       /\ loc' = [loc EXCEPT !.tp = ~o.err]
       /\ Record(o.err, o.fault)
  /\ UNCHANGED <<hc, be, um, fr, cert, fw, ing, nodePort>>

createRule(here, q, next) ==
  /\ pc = here
  /\ pc' = next
  /\ \E o \in ensureForwardingRule(q, cmd.spec.ip, loc.tp, cmd.force) :
       /\ fr' = [fr EXCEPT ![q] = o.res]
       /\ Record(o.err, o.fault)
  /\ UNCHANGED <<hc, be, um, tp, cert, fw, ing, nodePort, loc>>

createSSLCert ==
  /\ pc = "sslCert"
  /\ pc' = "httpsProxy"
  /\ \E o \in EnsureSSLCert(cmd.spec.tls, OwnCertInUse, cmd.force) :
       /\ cert' = o.res
       /\ loc' = [loc EXCEPT !.cert = IF o.err THEN None ELSE certLink(cmd.spec.tls)]
       /\ Record(o.err, o.fault)
  /\ UNCHANGED <<hc, be, um, tp, fr, fw, ing, nodePort>>

createHTTPSProxy ==
  /\ pc = "httpsProxy"
  /\ pc' = "httpsRule"
  /\ \E o \in ensureHTTPSProxy(loc.um, loc.cert, cmd.force) :
       /\ tp' = [tp EXCEPT !["https"] = o.res]
       /\ loc' = [loc EXCEPT !.tp = ~o.err]
       /\ Record(o.err, o.fault)
  /\ UNCHANGED <<hc, be, um, fr, cert, fw, ing, nodePort>>

createFirewall ==
  /\ pc = "firewall"
  /\ pc' = "done"
  /\ \E o \in EnsureFirewallRule(loc.ports, KnownClusters, cmd.force) :
       /\ fw' = o.res
       /\ Record(o.err, o.fault)
  /\ UNCHANGED <<hc, be, um, tp, fr, cert, ing, nodePort, loc>>

CreateLoadBalancer ==
  \/ createNodePorts
  \/ noIPAddress
  \/ createHealthChecks
  \/ getIGs("getIGs")
  \/ getNamedPorts
  \/ createBackendServices
  \/ createURLMap
  \/ createHTTPProxy
  \/ createRule("httpRule", "http", AfterHTTP)
  \/ createSSLCert
  \/ createHTTPSProxy
  \/ createRule("httpsRule", "https", "firewall")
  \/ createFirewall

-----------------------------------------------------------------------------
(***************************************************************************)
(* DeleteLoadBalancer.                                                     *)
(***************************************************************************)

\* Without a client the backend services and health checks stay, and the
\* command only goes on under --force.
deleteFirewall ==
  /\ pc = "delFirewall"
  /\ \/ /\ cmd.clusters = {} /\ ~cmd.force
        /\ pc' = "done"
        /\ UNCHANGED fw
        /\ Record(TRUE, FALSE)
     \/ /\ cmd.clusters # {} \/ cmd.force
        /\ pc' = "delRules"
        /\ \E o \in DeleteFirewallRules :
             /\ fw' = o.res
             /\ Record(o.err \/ cmd.clusters = {}, o.fault)
  /\ UNCHANGED <<hc, be, um, tp, fr, cert, ing, nodePort, loc>>

\* Seeded fault: the call of DeleteTargetProxies is missing.
deleteRulesOnly ==
  /\ pc = "delRules"
  /\ pc' = "delCert"
  /\ \E o \in DeleteForwardingRules :
       /\ fr' = Results(o)
       /\ Record(AnyErr(o), AnyFault(o))
  /\ UNCHANGED <<hc, be, um, tp, cert, fw, ing, nodePort, loc>>

deleteRules ==
  /\ pc = "delRules"
  /\ pc' = "delProxies"
  /\ \E o \in DeleteForwardingRules :
       /\ fr' = Results(o)
       /\ Record(AnyErr(o), AnyFault(o))
  /\ UNCHANGED <<hc, be, um, tp, cert, fw, ing, nodePort, loc>>

deleteProxies ==
  /\ pc = "delProxies"
  /\ pc' = "delCert"
  /\ \E o \in DeleteTargetProxies(TargetProxiesInUse) :
       /\ tp' = Results(o)
       /\ Record(AnyErr(o), AnyFault(o))
  /\ UNCHANGED <<hc, be, um, fr, cert, fw, ing, nodePort, loc>>

\* Seeded fault: the error of the delete is lost.
deleteCertSilently ==
  /\ pc = "delCert"
  /\ pc' = "delURLMap"
  /\ \E o \in DeleteSSLCert(OwnCertInUse) :
       /\ cert' = o.res
       /\ Record(FALSE, o.fault)
  /\ UNCHANGED <<hc, be, um, tp, fr, fw, ing, nodePort, loc>>

deleteCert ==
  /\ pc = "delCert"
  /\ pc' = "delURLMap"
  /\ \E o \in DeleteSSLCert(OwnCertInUse) :
       /\ cert' = o.res
       /\ Record(o.err, o.fault)
  /\ UNCHANGED <<hc, be, um, tp, fr, fw, ing, nodePort, loc>>

deleteURLMap ==
  /\ pc = "delURLMap"
  /\ \E o \in DeleteURLMap(URLMapInUse) :
       /\ um' = o.res
       /\ pc' = IF cmd.clusters = {} THEN AfterSyncer(TRUE) ELSE "delPorts"
       /\ Record(o.err, o.fault)
  /\ UNCHANGED <<hc, be, tp, fr, cert, fw, ing, nodePort, loc>>

\* Seeded fault: the call of DeleteBackendServices is missing.
deletePortsOnly == readNodePorts("delPorts", "delHealthChecks")

deletePorts == readNodePorts("delPorts", "delBackends")

deleteBackends ==
  /\ pc = "delBackends"
  /\ pc' = "delHealthChecks"
  /\ \E o \in DeleteBackendServices(loc.ports, BackendServicesInUse) :
       /\ be' = Results(o)
       /\ Record(AnyErr(o), AnyFault(o))
  /\ UNCHANGED <<hc, um, tp, fr, cert, fw, ing, nodePort, loc>>

\* Seeded fault: the errors of the deletes are lost.
deleteHealthChecksSilently ==
  /\ pc = "delHealthChecks"
  /\ \E o \in DeleteHealthChecks(loc.ports, HealthChecksInUse) :
       /\ hc' = Results(o)
       /\ pc' = AfterSyncer(err)
       /\ Record(FALSE, AnyFault(o))
  /\ UNCHANGED <<be, um, tp, fr, cert, fw, ing, nodePort, loc>>

deleteHealthChecks ==
  /\ pc = "delHealthChecks"
  /\ \E o \in DeleteHealthChecks(loc.ports, HealthChecksInUse) :
       /\ hc' = Results(o)
       /\ pc' = AfterSyncer(err \/ AnyErr(o))
       /\ Record(AnyErr(o), AnyFault(o))
  /\ UNCHANGED <<be, um, tp, fr, cert, fw, ing, nodePort, loc>>

DeleteLoadBalancer ==
  \/ deleteFirewall
  \/ deleteRules
  \/ deleteProxies
  \/ deleteCert
  \/ deleteURLMap
  \/ deletePorts
  \/ deleteBackends
  \/ deleteHealthChecks

-----------------------------------------------------------------------------
(***************************************************************************)
(* RemoveFromClusters.                                                     *)
(***************************************************************************)

\* The first forwarding rule that exists, the HTTP one before the other.
RuleForStatus ==
  IF fr["http"] # None THEN fr["http"] ELSE fr["https"]

\* getLoadBalancerStatus: of the url map, else of the forwarding rule; None
\* stands for an error.
getLoadBalancerStatus ==
  IF um = None THEN None
  ELSE IF um.st # None THEN um.st
  ELSE IF RuleForStatus = None THEN None ELSE RuleForStatus.st

\* What the command may learn of the status.  If the url map or the HTTP rule
\* cannot be read, the status on (another) rule is taken for it.
StatusReads ==
  {[st |-> getLoadBalancerStatus, fault |-> FALSE], [st |-> None, fault |-> TRUE]}
  \cup {[st |-> fr[q].st, fault |-> TRUE] : q \in {r \in Protocols : fr[r] # None}}

\* The status tells whether some cluster would remain.
removeStatusCheck ==
  /\ pc = "rmStatusCheck"
  /\ \E r \in StatusReads :
       LET goOn == /\ r.st # None
                   /\ \/ hasSomeRemainingClusters(r.st.clusters, cmd.clusters)
                      \/ cmd.force
       IN  /\ pc' = IF goOn THEN "rmNodePorts" ELSE AfterSyncer(TRUE)
           /\ Record(~goOn, r.fault)
  /\ UNCHANGED <<cloud, ing, nodePort, loc>>

removeNodePorts == readNodePorts("rmNodePorts", "rmIGs")

\* Without all the instance groups nothing but the status is updated, and
\* that only under --force.
afterRemoveIGs ==
  /\ pc = "rmIGs" /\ loc.todo = {}
  /\ pc' = IF ~err THEN "rmFirewall"
           ELSE IF cmd.force THEN "rmStatus" ELSE "done"
  /\ Record(FALSE, FALSE)
  /\ UNCHANGED <<cloud, ing, nodePort, loc>>

removeFromFirewall ==
  /\ pc = "rmFirewall"
  /\ pc' = "rmBackends"
  /\ \E o \in FirewallRemoveFromClusters(KnownClusters) :
       /\ fw' = o.res
       /\ Record(o.err, o.fault)
  /\ UNCHANGED <<hc, be, um, tp, fr, cert, ing, nodePort, loc>>

\* Seeded fault: the errors of the updates are lost.
removeFromBackendsSilently ==
  /\ pc = "rmBackends"
  /\ pc' = "rmStatus"
  /\ \E o \in RemoveFromClusters(loc.ports, AllIGs) :
       /\ be' = Results(o)
       /\ Record(FALSE, AnyFault(o))
  /\ UNCHANGED <<hc, um, tp, fr, cert, fw, ing, nodePort, loc>>

removeFromBackends ==
  /\ pc = "rmBackends"
  /\ pc' = "rmStatus"
  /\ \E o \in RemoveFromClusters(loc.ports, AllIGs) :
       /\ be' = Results(o)
       /\ Record(AnyErr(o), AnyFault(o))
  /\ UNCHANGED <<hc, um, tp, fr, cert, fw, ing, nodePort, loc>>

\* removeClustersFromStatus: first on the forwarding rules, then on the url
\* map; a missing url map, or no rule at all, is an error.
removeFromStatus ==
  /\ pc = "rmStatus"
  /\ \E o \in ForwardingRuleRemoveClustersFromStatus(cmd.clusters),
        u \in URLMapRemoveClustersFromStatus(cmd.clusters) :
       LET e == AnyErr(o) \/ NoForwardingRule \/ u.err
       IN  /\ fr' = Results(o)
           /\ um' = u.res
           /\ pc' = AfterSyncer(err \/ e)
           /\ Record(e, AnyFault(o) \/ u.fault)
  /\ UNCHANGED <<hc, be, tp, cert, fw, ing, nodePort, loc>>

RemoveLoadBalancerFromClusters ==
  \/ removeStatusCheck
  \/ removeNodePorts
  \/ getIGs("rmIGs")
  \/ afterRemoveIGs
  \/ removeFromFirewall
  \/ removeFromBackends
  \/ removeFromStatus
=============================================================================
