---------------------------- MODULE KubemciProofs ----------------------------
(***************************************************************************)
(* The properties of kubemci, for every number of clusters, services,      *)
(* ports, commands and faults, in six parts: types and references; delete  *)
(* and remove-clusters; create; a create that is repeated; the refinement  *)
(* of MultiClusterIngress; and what a create --force does to the traffic.  *)
(* Each part uses the ones before it.                                      *)
(***************************************************************************)
EXTENDS KubemciRefinement, StatusCommands, SyncerProofs

-----------------------------------------------------------------------------
(***************************************************************************)
(* PART 1: type correctness, and then References.                          *)
(***************************************************************************)

\* What TypeOK says of the running command.
CommandTypeOK ==
  /\ pc \in Steps \cup {"idle"}
  /\ cmd \in Commands \cup {None}
  /\ pc = "idle" <=> cmd = None
  /\ err \in BOOLEAN /\ fault \in BOOLEAN
  /\ faults \in 0..MaxFaults
  /\ loc \in Locals
  /\ stable \in Commands \cup {None}

(***************************************************************************)
(* What a step knows of its command.  CreateLoadBalancer has an address    *)
(* once it is past the lookup, and asks for a certificate only if the      *)
(* ingress has one; its steps belong to create commands.                   *)
(***************************************************************************)
StepKnows ==
  /\ pc \in CreateSteps \ {"nodePorts"} => cmd.spec.ip # None
  /\ pc = "sslCert" => cmd.spec.tls # None

\* TypeOK is inductive together with StepKnows.
TypeInv == TypeOK /\ StepKnows

-----------------------------------------------------------------------------
(***************************************************************************)
(* The fields of a running command.                                        *)
(***************************************************************************)
LEMMA RunningCommand ==
  ASSUME TypeOK, pc # "idle"
  PROVE  /\ cmd \in Commands /\ cmd # None
         /\ cmd.spec \in Specs /\ cmd.spec \in SpecType
         /\ cmd.clusters \in SUBSET Clusters
         /\ cmd.force \in BOOLEAN /\ cmd.validate \in BOOLEAN
         /\ cmd.op \in {"create", "delete", "remove"}
<1>1. cmd \in Commands /\ cmd # None
  BY DEF TypeOK
<1>2. cmd \in CommandType
  BY <1>1, ConfigAssumption
<1> QED BY <1>1, <1>2, ConfigAssumption DEF CommandType

(***************************************************************************)
(* A step that records its errors and goes on to another step keeps the    *)
(* types of the command's variables.                                       *)
(***************************************************************************)
LEMMA StepType ==
  ASSUME TypeOK, pc # "idle", NEW e \in BOOLEAN, NEW f \in BOOLEAN,
         Record(e, f), pc' \in Steps, loc' \in Locals, stable' = stable
  PROVE  CommandTypeOK' /\ cmd' = cmd
<1>1. cmd \in Commands /\ cmd # None
  BY RunningCommand
<1>2. cmd' = cmd
  BY DEF Record
<1>3. pc' # "idle"
  BY DEF Steps, CreateSteps, DeleteSteps, RemoveSteps
<1>4. err' \in BOOLEAN /\ fault' \in BOOLEAN
  BY DEF Record, TypeOK
<1>5. faults' \in 0..MaxFaults
  <2>1. faults \in 0..MaxFaults /\ MaxFaults \in Nat
    BY ConfigAssumption DEF TypeOK
  <2>2. CASE f
    BY <2>1, <2>2 DEF Record
  <2>3. CASE ~f
    BY <2>1, <2>3 DEF Record
  <2> QED BY <2>2, <2>3
<1> QED BY <1>1, <1>2, <1>3, <1>4, <1>5 DEF TypeOK, CommandTypeOK

(***************************************************************************)
(* Where a load balancer method returns to.                                *)
(***************************************************************************)
LEMMA AfterSyncerType ==
  ASSUME NEW e
  PROVE  AfterSyncer(e) \in {"done", "delIngress"}
BY DEF AfterSyncer

(***************************************************************************)
(* The instance groups found are instance groups.                          *)
(***************************************************************************)
LEMMA AllIGsType ==
  ASSUME TypeOK
  PROVE  AllIGs \in SUBSET InstanceGroups /\ KnownClusters \in SUBSET Clusters
<1>1. loc.igs \in [Clusters -> SUBSET InstanceGroups]
  BY DEF TypeOK, Locals
<1> QED BY <1>1 DEF AllIGs, KnownClusters

-----------------------------------------------------------------------------
(***************************************************************************)
(* The steps that only read.                                               *)
(***************************************************************************)
LEMMA readNodePortsType ==
  ASSUME TypeInv, NEW here \in Steps, NEW next \in Steps \ {"sslCert"},
         next \in CreateSteps => cmd.spec.ip # None,
         readNodePorts(here, next), stable' = stable
  PROVE  TypeInv'
<1>1. pc # "idle" /\ pc = here
  BY DEF readNodePorts, Steps, CreateSteps, DeleteSteps, RemoveSteps
<1>2. CommandTypeOK' /\ cmd' = cmd /\ pc' \in {next, "done", "delIngress"}
  <2>1. CASE /\ pc' = AfterSyncer(TRUE)
             /\ UNCHANGED loc
             /\ Record(TRUE, FALSE)
    <3>1. pc' \in {"done", "delIngress"}
      BY <2>1, AfterSyncerType
    <3>2. pc' \in Steps /\ loc' \in Locals
      BY <2>1, <3>1 DEF Steps, TypeInv, TypeOK
    <3> QED BY <1>1, <2>1, <3>1, <3>2, StepType DEF TypeInv
  <2>2. ASSUME NEW c \in cmd.clusters, NEW r \in ingToNodePorts(cmd.spec, c),
               pc' = next, loc' = [loc EXCEPT !.ports = r.ports],
               Record(FALSE, r.fault)
        PROVE  CommandTypeOK' /\ cmd' = cmd /\ pc' = next
    <3>1. r.ports \in [NodePorts -> Services \cup {None}] /\ r.fault \in BOOLEAN
      BY <1>1, ingToNodePortsType, RunningCommand DEF TypeInv, TypeOK
    <3>2. pc' \in Steps /\ loc' \in Locals
      BY <2>2, <3>1 DEF TypeInv, TypeOK, Locals
    <3> QED BY <1>1, <2>2, <3>1, <3>2, StepType DEF TypeInv
  <2> QED BY <2>1, <2>2 DEF readNodePorts
<1>3. StepKnows'
  BY <1>2 DEF StepKnows, CreateSteps
<1> QED BY <1>2, <1>3 DEF TypeInv, TypeOK, CommandTypeOK, readNodePorts, cloud,
      HealthCheckTypeOK, BackendServiceTypeOK, URLMapTypeOK, TargetProxyTypeOK,
      ForwardingRuleTypeOK, SSLCertTypeOK, FirewallRuleTypeOK, IngressTypeOK

(***************************************************************************)
(* getIGs stores instance groups that an annotation names.                 *)
(***************************************************************************)
LEMMA getIGsType ==
  ASSUME TypeInv, NEW here \in Steps, getIGs(here), stable' = stable
  PROVE  TypeInv'
<1>1. pc # "idle" /\ pc' = pc /\ pc \in Steps
  BY DEF getIGs, Steps, CreateSteps, DeleteSteps, RemoveSteps
<1>2. PICK c \in loc.todo : getIGsForCluster(c)
  BY DEF getIGs
<1>3. c \in Clusters /\ loc \in Locals
  BY DEF TypeInv, TypeOK, Locals
<1>4. CommandTypeOK' /\ cmd' = cmd
  <2>1. CASE /\ ing[c] # None
             /\ loc' = [loc EXCEPT !.igs[c] = ing[c].igs, !.todo = @ \ {c}]
             /\ Record(FALSE, FALSE)
    <3>1. ing[c].igs \in SUBSET InstanceGroups
      BY <1>3, <2>1 DEF TypeInv, TypeOK, IngressTypeOK, Ingresses
    <3>2. loc' \in Locals
      BY <1>3, <2>1, <3>1 DEF Locals
    <3> QED BY <1>1, <2>1, <3>2, StepType DEF TypeInv
  <2>2. CASE /\ loc' = [loc EXCEPT !.todo = @ \ {c}]
             /\ Record(TRUE, ing[c] # None)
    <3>1. loc' \in Locals
      BY <1>3, <2>2 DEF Locals
    <3>2. \E f \in BOOLEAN : Record(TRUE, f)
      BY <2>2, Zenon
    <3> QED BY <1>1, <3>1, <3>2, StepType DEF TypeInv
  <2> QED BY <1>2, <2>1, <2>2 DEF getIGsForCluster
<1> QED BY <1>1, <1>4 DEF TypeInv, TypeOK, CommandTypeOK, StepKnows, getIGs, cloud,
      HealthCheckTypeOK, BackendServiceTypeOK, URLMapTypeOK, TargetProxyTypeOK,
      ForwardingRuleTypeOK, SSLCertTypeOK, FirewallRuleTypeOK, IngressTypeOK

(***************************************************************************)
(* getNamedPorts stores node ports of services.                            *)
(***************************************************************************)
LEMMA getNamedPortsType ==
  ASSUME TypeInv, getNamedPorts, stable' = stable
  PROVE  TypeInv'
<1>1. pc # "idle" /\ pc = "getIGs" /\ loc \in Locals
  BY DEF getNamedPorts, TypeInv, TypeOK
<1>2. CommandTypeOK' /\ cmd' = cmd /\ pc' \in {"done", "backendService"}
  <2>1. ASSUME pc' = "done", UNCHANGED loc, NEW f \in BOOLEAN, Record(TRUE, f)
        PROVE  CommandTypeOK' /\ cmd' = cmd
    <3>1. pc' \in Steps /\ loc' \in Locals
      BY <1>1, <2>1 DEF Steps
    <3> QED BY <1>1, <2>1, <3>1, StepType DEF TypeInv
  <2>2. ASSUME NEW c \in KnownClusters, NEW nps,
               nps = {nodePort[c][s] : s \in Services} \ {None},
               loc' = [loc EXCEPT !.nps = nps],
               pc' = IF nps = {} THEN "done" ELSE "backendService",
               Record(nps = {}, FALSE)
        PROVE  CommandTypeOK' /\ cmd' = cmd
    <3>1. nps \subseteq NodePorts
      <4>1. nodePort \in [Clusters -> [Services -> NodePorts \cup {None}]]
        BY PortMapsAssumption DEF TypeInv, TypeOK, IngressTypeOK
      <4> QED BY <2>2, <4>1 DEF KnownClusters
    <3>2. pc' \in Steps /\ loc' \in Locals
      BY <1>1, <2>2, <3>1 DEF Locals, Steps, CreateSteps
    <3>3. \E e \in BOOLEAN : Record(e, FALSE)
      BY <2>2, Zenon
    <3> QED BY <1>1, <3>2, <3>3, StepType DEF TypeInv
  <2> QED BY <2>1, <2>2 DEF getNamedPorts
<1> QED BY <1>1, <1>2 DEF TypeInv, TypeOK, CommandTypeOK, StepKnows, getNamedPorts,
      CreateSteps, cloud,
      HealthCheckTypeOK, BackendServiceTypeOK, URLMapTypeOK, TargetProxyTypeOK,
      ForwardingRuleTypeOK, SSLCertTypeOK, FirewallRuleTypeOK, IngressTypeOK

-----------------------------------------------------------------------------
(***************************************************************************)
(* createHealthChecks: EnsureHealthCheck.                                  *)
(***************************************************************************)
LEMMA createHealthChecksType ==
  ASSUME TypeInv, createHealthChecks, stable' = stable
  PROVE  TypeInv'
<1>1. pc # "idle" /\ pc = "healthCheck" /\ pc' = "getIGs" /\ loc \in Locals
  BY DEF createHealthChecks, TypeInv, TypeOK
<1>2. PICK o \in EnsureHealthCheck(loc.ports, cmd.clusters, cmd.force) :
        /\ hc' = Results(o)
        /\ loc' = [loc EXCEPT !.hcs = {p \in NodePorts :
                                         loc.ports[p] # None /\ ~o[p].err}]
        /\ Record(AnyErr(o), AnyFault(o))
  BY DEF createHealthChecks
<1>3. /\ Results(o) \in [NodePorts -> HCs]
      /\ AnyErr(o) \in BOOLEAN /\ AnyFault(o) \in BOOLEAN
  BY <1>1, EnsureHealthCheckOutcome, RunningCommand DEF TypeInv, TypeOK, Locals
<1>4. pc' \in Steps /\ loc' \in Locals
  BY <1>1, <1>2 DEF Locals, Steps, CreateSteps
<1>5. CommandTypeOK' /\ cmd' = cmd
  BY <1>1, <1>2, <1>3, <1>4, StepType DEF TypeInv
<1> QED BY <1>1, <1>2, <1>3, <1>5 DEF TypeInv, TypeOK, CommandTypeOK, StepKnows,
      createHealthChecks, CreateSteps, HCs,
      HealthCheckTypeOK, BackendServiceTypeOK, URLMapTypeOK, TargetProxyTypeOK,
      ForwardingRuleTypeOK, SSLCertTypeOK, FirewallRuleTypeOK, IngressTypeOK

(***************************************************************************)
(* createBackendServices: EnsureBackendService.                            *)
(***************************************************************************)
LEMMA createBackendServicesType ==
  ASSUME TypeInv, createBackendServices, stable' = stable
  PROVE  TypeInv'
<1>1. pc # "idle" /\ pc = "backendService" /\ pc' = "urlMap" /\ loc \in Locals
  BY DEF createBackendServices, TypeInv, TypeOK
<1>2. PICK o \in EnsureBackendService(loc.ports, loc.hcs, loc.nps, AllIGs, cmd.force) :
        /\ be' = Results(o)
        /\ loc' = [loc EXCEPT !.bes = ensuredBackendServices(loc.ports, o)]
        /\ Record(AnyErr(o), AnyFault(o))
  BY DEF createBackendServices
<1>3. /\ Results(o) \in [NodePorts -> BEs]
      /\ AnyErr(o) \in BOOLEAN /\ AnyFault(o) \in BOOLEAN
  <2>1. BackendServiceTypeOK /\ loc.ports \in [NodePorts -> Services \cup {None}]
    BY <1>1 DEF TypeInv, TypeOK, Locals
  <2>2. AllIGs \in SUBSET InstanceGroups /\ cmd.force \in BOOLEAN
    BY <1>1, RunningCommand, AllIGsType DEF TypeInv
  <2> QED BY ONLY <1>2, <2>1, <2>2, EnsureBackendServiceOutcome
<1>4. ensuredBackendServices(loc.ports, o) \in [Services -> NodePorts \cup {None}]
  <2> SUFFICES ASSUME NEW s \in Services
               PROVE  ensuredBackendServices(loc.ports, o)[s] \in NodePorts \cup {None}
    BY DEF ensuredBackendServices
  <2> DEFINE Q(p) == loc.ports[p] = s /\ ~o[p].err
  <2>1. (\E p \in NodePorts : Q(p)) => (CHOOSE p \in NodePorts : Q(p)) \in NodePorts
    BY Zenon
  <2> QED BY <2>1 DEF ensuredBackendServices
<1>5. pc' \in Steps /\ loc' \in Locals
  BY <1>1, <1>2, <1>4 DEF Locals, Steps, CreateSteps
<1>6. CommandTypeOK' /\ cmd' = cmd
  BY <1>1, <1>2, <1>3, <1>5, StepType DEF TypeInv
<1> QED BY <1>1, <1>2, <1>3, <1>6 DEF TypeInv, TypeOK, CommandTypeOK, StepKnows,
      createBackendServices, CreateSteps, BEs,
      HealthCheckTypeOK, BackendServiceTypeOK, URLMapTypeOK, TargetProxyTypeOK,
      ForwardingRuleTypeOK, SSLCertTypeOK, FirewallRuleTypeOK, IngressTypeOK

(***************************************************************************)
(* createURLMap: EnsureURLMap.                                             *)
(***************************************************************************)
LEMMA createURLMapType ==
  ASSUME TypeInv, createURLMap, stable' = stable
  PROVE  TypeInv'
<1>1. /\ pc # "idle" /\ pc = "urlMap" /\ loc \in Locals /\ cmd.spec.ip # None
      /\ pc' \in {"httpProxy", "sslCert", "firewall"}
      /\ pc' = "sslCert" => cmd.spec.tls # None
  BY DEF createURLMap, AfterHTTP, TypeInv, TypeOK, StepKnows, CreateSteps
<1>2. PICK o \in EnsureURLMap(cmd.spec, cmd.clusters, loc.bes, cmd.force) :
        /\ um' = o.res
        /\ loc' = [loc EXCEPT !.um = ~o.err]
        /\ Record(o.err, o.fault)
  BY DEF createURLMap
<1>3. o \in Outcomes(UMs)
  BY <1>1, EnsureURLMapOutcome, RunningCommand DEF TypeInv, TypeOK, Locals
<1>4. o.res \in UMs /\ o.err \in BOOLEAN /\ o.fault \in BOOLEAN
  BY <1>3 DEF Outcomes
<1>5. pc' \in Steps /\ loc' \in Locals
  BY <1>1, <1>2, <1>4 DEF Locals, Steps, CreateSteps
<1>6. CommandTypeOK' /\ cmd' = cmd
  BY <1>1, <1>2, <1>4, <1>5, StepType DEF TypeInv
<1> QED BY <1>1, <1>2, <1>4, <1>6 DEF TypeInv, TypeOK, CommandTypeOK, StepKnows,
      createURLMap, UMs,
      HealthCheckTypeOK, BackendServiceTypeOK, URLMapTypeOK, TargetProxyTypeOK,
      ForwardingRuleTypeOK, SSLCertTypeOK, FirewallRuleTypeOK, IngressTypeOK

(***************************************************************************)
(* createHTTPProxy: EnsureHTTPTargetProxy.                                 *)
(***************************************************************************)
LEMMA createHTTPProxyType ==
  ASSUME TypeInv, createHTTPProxy, stable' = stable
  PROVE  TypeInv'
<1>1. /\ pc # "idle" /\ pc = "httpProxy" /\ pc' = "httpRule"
      /\ loc \in Locals /\ cmd.spec.ip # None
  BY DEF createHTTPProxy, TypeInv, TypeOK, StepKnows, CreateSteps
<1>2. PICK o \in ensureHTTPProxy(loc.um, cmd.force) :
        /\ tp' = [tp EXCEPT !["http"] = o.res]
        /\ loc' = [loc EXCEPT !.tp = ~o.err]
        /\ Record(o.err, o.fault)
  BY DEF createHTTPProxy
<1>3. o \in Outcomes(TPs)
  BY <1>1, ensureHTTPProxyOutcome, RunningCommand DEF TypeInv, TypeOK, Locals
<1>4. o.res \in TPs /\ o.err \in BOOLEAN /\ o.fault \in BOOLEAN
  BY <1>3 DEF Outcomes
<1>5. pc' \in Steps /\ loc' \in Locals
  BY <1>1, <1>2, <1>4 DEF Locals, Steps, CreateSteps
<1>6. CommandTypeOK' /\ cmd' = cmd
  BY <1>1, <1>2, <1>4, <1>5, StepType DEF TypeInv
<1> QED BY <1>1, <1>2, <1>4, <1>6 DEF TypeInv, TypeOK, CommandTypeOK, StepKnows,
      createHTTPProxy, TPs, Protocols,
      HealthCheckTypeOK, BackendServiceTypeOK, URLMapTypeOK, TargetProxyTypeOK,
      ForwardingRuleTypeOK, SSLCertTypeOK, FirewallRuleTypeOK, IngressTypeOK

(***************************************************************************)
(* createRule: EnsureHTTPForwardingRule, EnsureHTTPSForwardingRule.        *)
(***************************************************************************)
LEMMA createRuleType ==
  ASSUME TypeInv, NEW q \in Protocols, NEW here \in CreateSteps \ {"nodePorts"},
         NEW next \in {"sslCert", "firewall"},
         next = "sslCert" => cmd.spec.tls # None,
         createRule(here, q, next), stable' = stable
  PROVE  TypeInv'
<1>1. /\ pc # "idle" /\ pc = here /\ pc' = next
      /\ loc \in Locals /\ cmd.spec.ip # None
  BY DEF createRule, TypeInv, TypeOK, StepKnows, CreateSteps
<1>2. PICK o \in ensureForwardingRule(q, cmd.spec.ip, loc.tp, cmd.force) :
        /\ fr' = [fr EXCEPT ![q] = o.res]
        /\ Record(o.err, o.fault)
  BY DEF createRule
<1>3. o \in Outcomes(FRs)
  <2>1. cmd.spec.ip \in IPs
    BY <1>1, RunningCommand DEF TypeInv, SpecType
  <2> QED BY <1>1, <2>1, ensureForwardingRuleOutcome, RunningCommand
          DEF TypeInv, TypeOK, Locals
<1>4. o.res \in FRs /\ o.err \in BOOLEAN /\ o.fault \in BOOLEAN
  BY <1>3 DEF Outcomes
<1>5. pc' \in Steps /\ loc' \in Locals
  BY <1>1 DEF createRule, Steps, CreateSteps
<1>6. CommandTypeOK' /\ cmd' = cmd
  BY <1>1, <1>2, <1>4, <1>5, StepType DEF TypeInv
<1> QED BY <1>1, <1>2, <1>4, <1>6 DEF TypeInv, TypeOK, CommandTypeOK, StepKnows,
      createRule, FRs,
      HealthCheckTypeOK, BackendServiceTypeOK, URLMapTypeOK, TargetProxyTypeOK,
      ForwardingRuleTypeOK, SSLCertTypeOK, FirewallRuleTypeOK, IngressTypeOK

(***************************************************************************)
(* createSSLCert: EnsureSSLCert.                                           *)
(***************************************************************************)
LEMMA createSSLCertType ==
  ASSUME TypeInv, createSSLCert, stable' = stable
  PROVE  TypeInv'
<1>1. /\ pc # "idle" /\ pc = "sslCert" /\ pc' = "httpsProxy"
      /\ loc \in Locals /\ cmd.spec.ip # None
  BY DEF createSSLCert, TypeInv, TypeOK, StepKnows, CreateSteps
<1>2. PICK o \in EnsureSSLCert(cmd.spec.tls, OwnCertInUse, cmd.force) :
        /\ cert' = o.res
        /\ loc' = [loc EXCEPT !.cert = IF o.err THEN None ELSE certLink(cmd.spec.tls)]
        /\ Record(o.err, o.fault)
  BY DEF createSSLCert
<1>3. cmd.spec.tls \in CertData \cup PreSharedCerts
  BY <1>1, RunningCommand DEF TypeInv, StepKnows, SpecType
<1>4. o \in Outcomes(Certs)
  BY <1>1, <1>3, EnsureSSLCertOutcome, RunningCommand DEF TypeInv, TypeOK
<1>5. o.res \in Certs /\ o.err \in BOOLEAN /\ o.fault \in BOOLEAN
  BY <1>4 DEF Outcomes
<1>6. certLink(cmd.spec.tls) \in CertLinks
  BY DEF certLink, CertLinks
<1>7. pc' \in Steps /\ loc' \in Locals
  BY <1>1, <1>2, <1>5, <1>6 DEF Locals, Steps, CreateSteps
<1>8. CommandTypeOK' /\ cmd' = cmd
  BY <1>1, <1>2, <1>5, <1>7, StepType DEF TypeInv
<1> QED BY <1>1, <1>2, <1>5, <1>8 DEF TypeInv, TypeOK, CommandTypeOK, StepKnows,
      createSSLCert, Certs,
      HealthCheckTypeOK, BackendServiceTypeOK, URLMapTypeOK, TargetProxyTypeOK,
      ForwardingRuleTypeOK, SSLCertTypeOK, FirewallRuleTypeOK, IngressTypeOK

(***************************************************************************)
(* createHTTPSProxy: EnsureHTTPSTargetProxy.                               *)
(***************************************************************************)
LEMMA createHTTPSProxyType ==
  ASSUME TypeInv, createHTTPSProxy, stable' = stable
  PROVE  TypeInv'
<1>1. /\ pc # "idle" /\ pc = "httpsProxy" /\ pc' = "httpsRule"
      /\ loc \in Locals /\ cmd.spec.ip # None
  BY DEF createHTTPSProxy, TypeInv, TypeOK, StepKnows, CreateSteps
<1>2. PICK o \in ensureHTTPSProxy(loc.um, loc.cert, cmd.force) :
        /\ tp' = [tp EXCEPT !["https"] = o.res]
        /\ loc' = [loc EXCEPT !.tp = ~o.err]
        /\ Record(o.err, o.fault)
  BY DEF createHTTPSProxy
<1>3. o \in Outcomes(TPs)
  BY <1>1, ensureHTTPSProxyOutcome, RunningCommand DEF TypeInv, TypeOK, Locals
<1>4. o.res \in TPs /\ o.err \in BOOLEAN /\ o.fault \in BOOLEAN
  BY <1>3 DEF Outcomes
<1>5. pc' \in Steps /\ loc' \in Locals
  BY <1>1, <1>2, <1>4 DEF Locals, Steps, CreateSteps
<1>6. CommandTypeOK' /\ cmd' = cmd
  BY <1>1, <1>2, <1>4, <1>5, StepType DEF TypeInv
<1> QED BY <1>1, <1>2, <1>4, <1>6 DEF TypeInv, TypeOK, CommandTypeOK, StepKnows,
      createHTTPSProxy, TPs, Protocols,
      HealthCheckTypeOK, BackendServiceTypeOK, URLMapTypeOK, TargetProxyTypeOK,
      ForwardingRuleTypeOK, SSLCertTypeOK, FirewallRuleTypeOK, IngressTypeOK

(***************************************************************************)
(* createFirewall: EnsureFirewallRule.                                     *)
(***************************************************************************)
LEMMA createFirewallType ==
  ASSUME TypeInv, createFirewall, stable' = stable
  PROVE  TypeInv'
<1>1. pc # "idle" /\ pc = "firewall" /\ pc' = "done" /\ loc \in Locals
  BY DEF createFirewall, TypeInv, TypeOK
<1>2. PICK o \in EnsureFirewallRule(loc.ports, KnownClusters, cmd.force) :
        /\ fw' = o.res
        /\ Record(o.err, o.fault)
  BY DEF createFirewall
<1>3. o \in Outcomes(FWs)
  BY <1>1, EnsureFirewallRuleOutcome, RunningCommand, AllIGsType DEF TypeInv, TypeOK
<1>4. o.res \in FWs /\ o.err \in BOOLEAN /\ o.fault \in BOOLEAN
  BY <1>3 DEF Outcomes
<1>5. pc' \in Steps /\ loc' \in Locals
  BY <1>1 DEF createFirewall, Steps
<1>6. CommandTypeOK' /\ cmd' = cmd
  BY <1>1, <1>2, <1>4, <1>5, StepType DEF TypeInv
<1> QED BY <1>1, <1>2, <1>4, <1>6 DEF TypeInv, TypeOK, CommandTypeOK, StepKnows,
      createFirewall, CreateSteps, FWs,
      HealthCheckTypeOK, BackendServiceTypeOK, URLMapTypeOK, TargetProxyTypeOK,
      ForwardingRuleTypeOK, SSLCertTypeOK, FirewallRuleTypeOK, IngressTypeOK

-----------------------------------------------------------------------------
(***************************************************************************)
(* deleteFirewall: without a client it stops or, under --force, goes on    *)
(* with an error.                                                          *)
(***************************************************************************)
LEMMA deleteFirewallType ==
  ASSUME TypeInv, deleteFirewall, stable' = stable
  PROVE  TypeInv'
<1>1. pc # "idle" /\ pc = "delFirewall" /\ loc' = loc /\ loc \in Locals
  BY DEF deleteFirewall, TypeInv, TypeOK
<1>2. CASE pc' = "done" /\ UNCHANGED fw /\ Record(TRUE, FALSE)
  <2>1. pc' \in Steps /\ loc' \in Locals
    BY <1>1, <1>2 DEF Steps
  <2>2. CommandTypeOK' /\ cmd' = cmd
    BY <1>1, <1>2, <2>1, StepType DEF TypeInv
  <2> QED BY <1>1, <1>2, <2>2 DEF TypeInv, TypeOK, CommandTypeOK, StepKnows,
      deleteFirewall, CreateSteps,
      HealthCheckTypeOK, BackendServiceTypeOK, URLMapTypeOK, TargetProxyTypeOK,
      ForwardingRuleTypeOK, SSLCertTypeOK, FirewallRuleTypeOK, IngressTypeOK
<1>3. CASE /\ pc' = "delRules"
           /\ \E o \in DeleteFirewallRules :
                /\ fw' = o.res
                /\ Record(o.err \/ cmd.clusters = {}, o.fault)
  <2>1. PICK o \in DeleteFirewallRules :
          fw' = o.res /\ Record(o.err \/ cmd.clusters = {}, o.fault)
    BY <1>3
  <2>2. o \in Outcomes(FWs)
    BY DeleteFirewallRulesOutcome DEF TypeInv, TypeOK
  <2>3. o.res \in FWs /\ o.fault \in BOOLEAN
    BY <2>2 DEF Outcomes
  <2>4. \E e \in BOOLEAN : Record(e, o.fault)
    BY <2>1, Zenon
  <2>5. pc' \in Steps /\ loc' \in Locals
    BY <1>1, <1>3 DEF Steps, DeleteSteps
  <2>6. CommandTypeOK' /\ cmd' = cmd
    BY <1>1, <2>3, <2>4, <2>5, StepType DEF TypeInv
  <2> QED BY <1>1, <1>3, <2>1, <2>3, <2>6 DEF TypeInv, TypeOK, CommandTypeOK, StepKnows,
      deleteFirewall, CreateSteps, FWs,
      HealthCheckTypeOK, BackendServiceTypeOK, URLMapTypeOK, TargetProxyTypeOK,
      ForwardingRuleTypeOK, SSLCertTypeOK, FirewallRuleTypeOK, IngressTypeOK
<1> QED BY <1>2, <1>3 DEF deleteFirewall

(***************************************************************************)
(* deleteRules: DeleteForwardingRules.                                     *)
(***************************************************************************)
LEMMA deleteRulesType ==
  ASSUME TypeInv, deleteRules, stable' = stable
  PROVE  TypeInv'
<1>1. pc # "idle" /\ pc = "delRules" /\ pc' = "delProxies" /\ loc \in Locals
  BY DEF deleteRules, TypeInv, TypeOK
<1>2. PICK o \in DeleteForwardingRules :
        fr' = Results(o) /\ Record(AnyErr(o), AnyFault(o))
  BY DEF deleteRules
<1>3. /\ Results(o) \in [Protocols -> FRs]
      /\ AnyErr(o) \in BOOLEAN /\ AnyFault(o) \in BOOLEAN
  BY DeleteForwardingRulesOutcome DEF TypeInv, TypeOK
<1>4. pc' \in Steps /\ loc' \in Locals
  BY <1>1 DEF deleteRules, Steps, DeleteSteps, RemoveSteps
<1>5. CommandTypeOK' /\ cmd' = cmd
  BY <1>1, <1>2, <1>3, <1>4, StepType DEF TypeInv
<1> QED BY <1>1, <1>2, <1>3, <1>5 DEF TypeInv, TypeOK, CommandTypeOK, StepKnows,
      deleteRules, CreateSteps, FRs,
      HealthCheckTypeOK, BackendServiceTypeOK, URLMapTypeOK, TargetProxyTypeOK,
      ForwardingRuleTypeOK, SSLCertTypeOK, FirewallRuleTypeOK, IngressTypeOK

(***************************************************************************)
(* deleteProxies: DeleteTargetProxies.                                     *)
(***************************************************************************)
LEMMA deleteProxiesType ==
  ASSUME TypeInv, deleteProxies, stable' = stable
  PROVE  TypeInv'
<1>1. pc # "idle" /\ pc = "delProxies" /\ pc' = "delCert" /\ loc \in Locals
  BY DEF deleteProxies, TypeInv, TypeOK
<1>2. PICK o \in DeleteTargetProxies(TargetProxiesInUse) :
        tp' = Results(o) /\ Record(AnyErr(o), AnyFault(o))
  BY DEF deleteProxies
<1>3. /\ Results(o) \in [Protocols -> TPs]
      /\ AnyErr(o) \in BOOLEAN /\ AnyFault(o) \in BOOLEAN
  BY DeleteTargetProxiesOutcome DEF TypeInv, TypeOK
<1>4. pc' \in Steps /\ loc' \in Locals
  BY <1>1 DEF deleteProxies, Steps, DeleteSteps, RemoveSteps
<1>5. CommandTypeOK' /\ cmd' = cmd
  BY <1>1, <1>2, <1>3, <1>4, StepType DEF TypeInv
<1> QED BY <1>1, <1>2, <1>3, <1>5 DEF TypeInv, TypeOK, CommandTypeOK, StepKnows,
      deleteProxies, CreateSteps, TPs,
      HealthCheckTypeOK, BackendServiceTypeOK, URLMapTypeOK, TargetProxyTypeOK,
      ForwardingRuleTypeOK, SSLCertTypeOK, FirewallRuleTypeOK, IngressTypeOK

(***************************************************************************)
(* deleteCert: DeleteSSLCert.                                              *)
(***************************************************************************)
LEMMA deleteCertType ==
  ASSUME TypeInv, deleteCert, stable' = stable
  PROVE  TypeInv'
<1>1. pc # "idle" /\ pc = "delCert" /\ pc' = "delURLMap" /\ loc \in Locals
  BY DEF deleteCert, TypeInv, TypeOK
<1>2. PICK o \in DeleteSSLCert(OwnCertInUse) : cert' = o.res /\ Record(o.err, o.fault)
  BY DEF deleteCert
<1>3. o \in Outcomes(Certs)
  BY DeleteSSLCertOutcome DEF TypeInv, TypeOK
<1>4. o.res \in Certs /\ o.err \in BOOLEAN /\ o.fault \in BOOLEAN
  BY <1>3 DEF Outcomes
<1>5. pc' \in Steps /\ loc' \in Locals
  BY <1>1 DEF deleteCert, Steps, DeleteSteps, RemoveSteps
<1>6. CommandTypeOK' /\ cmd' = cmd
  BY <1>1, <1>2, <1>4, <1>5, StepType DEF TypeInv
<1> QED BY <1>1, <1>2, <1>4, <1>6 DEF TypeInv, TypeOK, CommandTypeOK, StepKnows,
      deleteCert, CreateSteps, Certs,
      HealthCheckTypeOK, BackendServiceTypeOK, URLMapTypeOK, TargetProxyTypeOK,
      ForwardingRuleTypeOK, SSLCertTypeOK, FirewallRuleTypeOK, IngressTypeOK

(***************************************************************************)
(* deleteURLMap: DeleteURLMap; without a client the method returns.        *)
(***************************************************************************)
LEMMA deleteURLMapType ==
  ASSUME TypeInv, deleteURLMap, stable' = stable
  PROVE  TypeInv'
<1>1. /\ pc # "idle" /\ pc = "delURLMap" /\ loc \in Locals
      /\ pc' \in {"delPorts", "done", "delIngress"}
  BY AfterSyncerType DEF deleteURLMap, TypeInv, TypeOK
<1>2. PICK o \in DeleteURLMap(URLMapInUse) : um' = o.res /\ Record(o.err, o.fault)
  BY DEF deleteURLMap
<1>3. o \in Outcomes(UMs)
  BY DeleteURLMapOutcome DEF TypeInv, TypeOK
<1>4. o.res \in UMs /\ o.err \in BOOLEAN /\ o.fault \in BOOLEAN
  BY <1>3 DEF Outcomes
<1>5. pc' \in Steps /\ loc' \in Locals
  BY <1>1 DEF deleteURLMap, Steps, DeleteSteps, RemoveSteps
<1>6. CommandTypeOK' /\ cmd' = cmd
  BY <1>1, <1>2, <1>4, <1>5, StepType DEF TypeInv
<1> QED BY <1>1, <1>2, <1>4, <1>6 DEF TypeInv, TypeOK, CommandTypeOK, StepKnows,
      deleteURLMap, CreateSteps, UMs,
      HealthCheckTypeOK, BackendServiceTypeOK, URLMapTypeOK, TargetProxyTypeOK,
      ForwardingRuleTypeOK, SSLCertTypeOK, FirewallRuleTypeOK, IngressTypeOK

(***************************************************************************)
(* deleteBackends: DeleteBackendServices.                                  *)
(***************************************************************************)
LEMMA deleteBackendsType ==
  ASSUME TypeInv, deleteBackends, stable' = stable
  PROVE  TypeInv'
<1>1. pc # "idle" /\ pc = "delBackends" /\ pc' = "delHealthChecks" /\ loc \in Locals
  BY DEF deleteBackends, TypeInv, TypeOK
<1>2. PICK o \in DeleteBackendServices(loc.ports, BackendServicesInUse) :
        be' = Results(o) /\ Record(AnyErr(o), AnyFault(o))
  BY DEF deleteBackends
<1>3. /\ Results(o) \in [NodePorts -> BEs]
      /\ AnyErr(o) \in BOOLEAN /\ AnyFault(o) \in BOOLEAN
  BY DeleteBackendServicesOutcome DEF TypeInv, TypeOK
<1>4. pc' \in Steps /\ loc' \in Locals
  BY <1>1 DEF deleteBackends, Steps, DeleteSteps, RemoveSteps
<1>5. CommandTypeOK' /\ cmd' = cmd
  BY <1>1, <1>2, <1>3, <1>4, StepType DEF TypeInv
<1> QED BY <1>1, <1>2, <1>3, <1>5 DEF TypeInv, TypeOK, CommandTypeOK, StepKnows,
      deleteBackends, CreateSteps, BEs,
      HealthCheckTypeOK, BackendServiceTypeOK, URLMapTypeOK, TargetProxyTypeOK,
      ForwardingRuleTypeOK, SSLCertTypeOK, FirewallRuleTypeOK, IngressTypeOK

(***************************************************************************)
(* deleteHealthChecks: DeleteHealthChecks, the last call of the method.    *)
(***************************************************************************)
LEMMA deleteHealthChecksType ==
  ASSUME TypeInv, deleteHealthChecks, stable' = stable
  PROVE  TypeInv'
<1>1. /\ pc # "idle" /\ pc = "delHealthChecks" /\ loc \in Locals
      /\ pc' \in {"done", "delIngress"}
  BY AfterSyncerType DEF deleteHealthChecks, TypeInv, TypeOK
<1>2. PICK o \in DeleteHealthChecks(loc.ports, HealthChecksInUse) :
        hc' = Results(o) /\ Record(AnyErr(o), AnyFault(o))
  BY DEF deleteHealthChecks
<1>3. /\ Results(o) \in [NodePorts -> HCs]
      /\ AnyErr(o) \in BOOLEAN /\ AnyFault(o) \in BOOLEAN
  BY DeleteHealthChecksOutcome DEF TypeInv, TypeOK
<1>4. pc' \in Steps /\ loc' \in Locals
  BY <1>1 DEF deleteHealthChecks, Steps, DeleteSteps, RemoveSteps
<1>5. CommandTypeOK' /\ cmd' = cmd
  BY <1>1, <1>2, <1>3, <1>4, StepType DEF TypeInv
<1> QED BY <1>1, <1>2, <1>3, <1>5 DEF TypeInv, TypeOK, CommandTypeOK, StepKnows,
      deleteHealthChecks, CreateSteps, HCs,
      HealthCheckTypeOK, BackendServiceTypeOK, URLMapTypeOK, TargetProxyTypeOK,
      ForwardingRuleTypeOK, SSLCertTypeOK, FirewallRuleTypeOK, IngressTypeOK

-----------------------------------------------------------------------------
(***************************************************************************)
(* removeFromFirewall: RemoveFromClusters of the firewall rule.            *)
(***************************************************************************)
LEMMA removeFromFirewallType ==
  ASSUME TypeInv, removeFromFirewall, stable' = stable
  PROVE  TypeInv'
<1>1. pc # "idle" /\ pc = "rmFirewall" /\ pc' = "rmBackends" /\ loc \in Locals
  BY DEF removeFromFirewall, TypeInv, TypeOK
<1>2. PICK o \in FirewallRemoveFromClusters(KnownClusters) : fw' = o.res /\ Record(o.err, o.fault)
  BY DEF removeFromFirewall
<1>3. o \in Outcomes(FWs)
  BY FirewallRemoveOutcome DEF TypeInv, TypeOK
<1>4. o.res \in FWs /\ o.err \in BOOLEAN /\ o.fault \in BOOLEAN
  BY <1>3 DEF Outcomes
<1>5. pc' \in Steps /\ loc' \in Locals
  BY <1>1 DEF removeFromFirewall, Steps, DeleteSteps, RemoveSteps
<1>6. CommandTypeOK' /\ cmd' = cmd
  BY <1>1, <1>2, <1>4, <1>5, StepType DEF TypeInv
<1> QED BY <1>1, <1>2, <1>4, <1>6 DEF TypeInv, TypeOK, CommandTypeOK, StepKnows,
      removeFromFirewall, CreateSteps, FWs,
      HealthCheckTypeOK, BackendServiceTypeOK, URLMapTypeOK, TargetProxyTypeOK,
      ForwardingRuleTypeOK, SSLCertTypeOK, FirewallRuleTypeOK, IngressTypeOK

(***************************************************************************)
(* removeFromBackends: RemoveFromClusters of the backend services.         *)
(***************************************************************************)
LEMMA removeFromBackendsType ==
  ASSUME TypeInv, removeFromBackends, stable' = stable
  PROVE  TypeInv'
<1>1. pc # "idle" /\ pc = "rmBackends" /\ pc' = "rmStatus" /\ loc \in Locals
  BY DEF removeFromBackends, TypeInv, TypeOK
<1>2. PICK o \in RemoveFromClusters(loc.ports, AllIGs) :
        be' = Results(o) /\ Record(AnyErr(o), AnyFault(o))
  BY DEF removeFromBackends
<1>3. /\ Results(o) \in [NodePorts -> BEs]
      /\ AnyErr(o) \in BOOLEAN /\ AnyFault(o) \in BOOLEAN
  BY RemoveFromClustersOutcome DEF TypeInv, TypeOK
<1>4. pc' \in Steps /\ loc' \in Locals
  BY <1>1 DEF removeFromBackends, Steps, DeleteSteps, RemoveSteps
<1>5. CommandTypeOK' /\ cmd' = cmd
  BY <1>1, <1>2, <1>3, <1>4, StepType DEF TypeInv
<1> QED BY <1>1, <1>2, <1>3, <1>5 DEF TypeInv, TypeOK, CommandTypeOK, StepKnows,
      removeFromBackends, CreateSteps, BEs,
      HealthCheckTypeOK, BackendServiceTypeOK, URLMapTypeOK, TargetProxyTypeOK,
      ForwardingRuleTypeOK, SSLCertTypeOK, FirewallRuleTypeOK, IngressTypeOK

(***************************************************************************)
(* removeFromStatus: removeClustersFromStatus on the rules and the url     *)
(* map.                                                                    *)
(***************************************************************************)
LEMMA removeFromStatusType ==
  ASSUME TypeInv, removeFromStatus, stable' = stable
  PROVE  TypeInv'
<1>1. pc # "idle" /\ pc = "rmStatus" /\ loc' = loc /\ loc \in Locals
  BY DEF removeFromStatus, TypeInv, TypeOK
<1>2. PICK o \in ForwardingRuleRemoveClustersFromStatus(cmd.clusters),
           u \in URLMapRemoveClustersFromStatus(cmd.clusters) :
        /\ fr' = Results(o) /\ um' = u.res
        /\ \E e : pc' = AfterSyncer(e)
        /\ Record(AnyErr(o) \/ NoForwardingRule \/ u.err, AnyFault(o) \/ u.fault)
  BY DEF removeFromStatus
<1>3. Results(o) \in [Protocols -> FRs]
  BY ForwardingRuleRemoveOutcome DEF TypeInv, TypeOK
<1>4. u \in Outcomes(UMs)
  BY URLMapRemoveOutcome DEF TypeInv, TypeOK
<1>5. u.res \in UMs
  BY <1>4 DEF Outcomes
<1>6. \E e, f \in BOOLEAN : Record(e, f)
  BY <1>2, Zenon
<1>7. pc' \in {"done", "delIngress"}
  BY <1>2, AfterSyncerType
<1>8. pc' \in Steps /\ loc' \in Locals
  BY <1>1, <1>7 DEF Steps
<1>9. CommandTypeOK' /\ cmd' = cmd
  BY <1>1, <1>6, <1>8, StepType DEF TypeInv
<1> QED BY <1>1, <1>2, <1>3, <1>5, <1>7, <1>9 DEF TypeInv, TypeOK, CommandTypeOK, StepKnows,
      removeFromStatus, CreateSteps, FRs, UMs,
      HealthCheckTypeOK, BackendServiceTypeOK, URLMapTypeOK, TargetProxyTypeOK,
      ForwardingRuleTypeOK, SSLCertTypeOK, FirewallRuleTypeOK, IngressTypeOK

(***************************************************************************)
(* A step that moves on to another step and changes nothing else.          *)
(***************************************************************************)
LEMMA MoveOnType ==
  ASSUME TypeInv, pc # "idle", pc' \in Steps \ CreateSteps,
         \E e, f \in BOOLEAN : Record(e, f),
         UNCHANGED <<cloud, ing, nodePort, loc, stable>>
  PROVE  TypeInv'
<1>1. loc' \in Locals
  BY DEF TypeInv, TypeOK
<1>2. CommandTypeOK' /\ cmd' = cmd
  BY <1>1, StepType DEF TypeInv
<1> QED BY <1>2 DEF TypeInv, TypeOK, CommandTypeOK, StepKnows, CreateSteps, cloud,
      HealthCheckTypeOK, BackendServiceTypeOK, URLMapTypeOK, TargetProxyTypeOK,
      ForwardingRuleTypeOK, SSLCertTypeOK, FirewallRuleTypeOK, IngressTypeOK

(***************************************************************************)
(* noIPAddress: CreateLoadBalancer returns without an address.             *)
(***************************************************************************)
LEMMA noIPAddressType ==
  ASSUME TypeInv, noIPAddress, stable' = stable
  PROVE  TypeInv'
<1>1. pc # "idle" /\ pc' \in Steps \ CreateSteps
  BY DEF noIPAddress, Steps, CreateSteps
<1>2. \E e, f \in BOOLEAN : Record(e, f)
  BY Zenon DEF noIPAddress
<1> QED BY <1>1, <1>2, MoveOnType DEF noIPAddress

(***************************************************************************)
(* removeStatusCheck: the method goes on or returns.                       *)
(***************************************************************************)
LEMMA removeStatusCheckType ==
  ASSUME TypeInv, removeStatusCheck, stable' = stable
  PROVE  TypeInv'
<1>1. pc # "idle" /\ pc' \in Steps \ CreateSteps
  <2>1. pc' \in {"rmNodePorts", "done", "delIngress"}
    BY AfterSyncerType DEF removeStatusCheck
  <2> QED BY <2>1 DEF removeStatusCheck, Steps, CreateSteps, RemoveSteps
<1>2. \E e, f \in BOOLEAN : Record(e, f)
  <2>1. PICK r \in StatusReads, goOn \in BOOLEAN : Record(~goOn, r.fault)
    BY Zenon DEF removeStatusCheck
  <2>2. \/ r = [st |-> getLoadBalancerStatus, fault |-> FALSE]
        \/ r = [st |-> None, fault |-> TRUE]
        \/ \E q \in Protocols : r = [st |-> fr[q].st, fault |-> TRUE]
    BY Zenon DEF StatusReads
  <2>3. CASE r = [st |-> getLoadBalancerStatus, fault |-> FALSE]
    BY <2>1, <2>3
  <2>4. CASE r = [st |-> None, fault |-> TRUE]
    BY <2>1, <2>4
  <2>5. ASSUME NEW q \in Protocols, r = [st |-> fr[q].st, fault |-> TRUE]
        PROVE  \E e, f \in BOOLEAN : Record(e, f)
    BY <2>1, <2>5
  <2> QED BY <2>2, <2>3, <2>4, <2>5
<1> QED BY <1>1, <1>2, MoveOnType DEF removeStatusCheck

(***************************************************************************)
(* afterRemoveIGs: the method goes on or returns.                          *)
(***************************************************************************)
LEMMA afterRemoveIGsType ==
  ASSUME TypeInv, afterRemoveIGs, stable' = stable
  PROVE  TypeInv'
<1>1. pc # "idle" /\ pc' \in Steps \ CreateSteps
  BY DEF afterRemoveIGs, Steps, CreateSteps, RemoveSteps
<1>2. \E e, f \in BOOLEAN : Record(e, f)
  BY Zenon DEF afterRemoveIGs
<1> QED BY <1>1, <1>2, MoveOnType DEF afterRemoveIGs

(***************************************************************************)
(* createValidate: create goes on or returns.                              *)
(***************************************************************************)
LEMMA createValidateType ==
  ASSUME TypeInv, createValidate
  PROVE  TypeInv'
<1>1. PICK o \in IF cmd.validate THEN Validate(cmd.clusters, cmd.spec)
                                 ELSE {Ok(None)} :
        /\ pc' = IF o.err THEN "done" ELSE "ensureIngress"
        /\ Record(o.err, o.fault)
  BY DEF createValidate
<1>2. pc # "idle" /\ pc' \in Steps \ CreateSteps
  BY <1>1 DEF createValidate, Steps, CreateSteps
<1>3. o \in Outcomes({None})
  <2>1. o = Ok(None) \/ o = Refused(None) \/ o \in Faulty({None})
    BY <1>1 DEF Validate
  <2> QED BY <2>1, AnsweredOutcome, FailedOutcome
<1>4. o.err \in BOOLEAN /\ o.fault \in BOOLEAN
  BY <1>3 DEF Outcomes
<1> QED BY <1>1, <1>2, <1>4, MoveOnType DEF createValidate

(***************************************************************************)
(* createIngress: EnsureIngress.                                           *)
(***************************************************************************)
LEMMA createIngressType ==
  ASSUME TypeInv, createIngress
  PROVE  TypeInv'
<1>1. pc # "idle" /\ pc = "ensureIngress" /\ loc' = loc /\ loc \in Locals
  BY DEF createIngress, TypeInv, TypeOK
<1>2. PICK o \in EnsureIngress(cmd.spec, cmd.clusters, cmd.force) :
        /\ ing' = Results(o)
        /\ pc' = IF AnyErr(o) THEN "done" ELSE "nodePorts"
        /\ Record(AnyErr(o), AnyFault(o))
  BY DEF createIngress
<1>3. /\ Results(o) \in [Clusters -> Ings]
      /\ AnyErr(o) \in BOOLEAN /\ AnyFault(o) \in BOOLEAN
  BY <1>1, EnsureIngressOutcome, RunningCommand DEF TypeInv, TypeOK
<1>4. pc' \in Steps /\ loc' \in Locals
  BY <1>1, <1>2 DEF Steps, CreateSteps
<1>5. CommandTypeOK' /\ cmd' = cmd
  BY <1>1, <1>2, <1>3, <1>4, StepType DEF TypeInv, createIngress
<1> QED BY <1>1, <1>2, <1>3, <1>5 DEF TypeInv, TypeOK, CommandTypeOK, StepKnows,
      createIngress, CreateSteps, Ings, cloud,
      HealthCheckTypeOK, BackendServiceTypeOK, URLMapTypeOK, TargetProxyTypeOK,
      ForwardingRuleTypeOK, SSLCertTypeOK, FirewallRuleTypeOK, IngressTypeOK

(***************************************************************************)
(* deleteIngress: DeleteIngress.                                           *)
(***************************************************************************)
LEMMA deleteIngressType ==
  ASSUME TypeInv, deleteIngress
  PROVE  TypeInv'
<1>1. pc # "idle" /\ pc' = "done" /\ loc' = loc /\ loc \in Locals
  BY DEF deleteIngress, TypeInv, TypeOK
<1>2. PICK o \in DeleteIngress(cmd.clusters) :
        ing' = Results(o) /\ Record(AnyErr(o), AnyFault(o))
  BY DEF deleteIngress
<1>3. /\ Results(o) \in [Clusters -> Ings]
      /\ AnyErr(o) \in BOOLEAN /\ AnyFault(o) \in BOOLEAN
  BY DeleteIngressOutcome DEF TypeInv, TypeOK
<1>4. pc' \in Steps /\ loc' \in Locals
  BY <1>1 DEF Steps
<1>5. CommandTypeOK' /\ cmd' = cmd
  BY <1>1, <1>2, <1>3, <1>4, StepType DEF TypeInv, deleteIngress
<1> QED BY <1>1, <1>2, <1>3, <1>5 DEF TypeInv, TypeOK, CommandTypeOK, StepKnows,
      deleteIngress, CreateSteps, Ings, cloud,
      HealthCheckTypeOK, BackendServiceTypeOK, URLMapTypeOK, TargetProxyTypeOK,
      ForwardingRuleTypeOK, SSLCertTypeOK, FirewallRuleTypeOK, IngressTypeOK

(***************************************************************************)
(* A command starts and ends with no locals.                               *)
(***************************************************************************)
LEMMA NoLocalsType ==
  NoLocals \in Locals
BY DEF NoLocals, Locals

(***************************************************************************)
(* A command starts with its clusters to ask.                              *)
(***************************************************************************)
LEMMA RunType ==
  ASSUME TypeInv, NEW c \in Commands, Run(c)
  PROVE  TypeInv'
<1>1. /\ c \in CommandType /\ c # None /\ c.clusters \in SUBSET Clusters
      /\ c.op \in {"create", "delete", "remove"}
  BY ConfigAssumption, NoneAssumption DEF CommandType
<1>2. loc' \in Locals
  BY <1>1, NoLocalsType DEF Run, Locals
<1>3. pc' \in {"validate", "delFirewall", "rmStatusCheck"}
  BY <1>1 DEF Run, FirstStep
<1>4. CommandTypeOK' /\ StepKnows'
  BY <1>1, <1>2, <1>3 DEF TypeInv, TypeOK, CommandTypeOK, StepKnows, Run, Steps,
       CreateSteps, DeleteSteps, RemoveSteps
<1> QED BY <1>4 DEF TypeInv, TypeOK, CommandTypeOK, Run, cloud,
      HealthCheckTypeOK, BackendServiceTypeOK, URLMapTypeOK, TargetProxyTypeOK,
      ForwardingRuleTypeOK, SSLCertTypeOK, FirewallRuleTypeOK, IngressTypeOK

(***************************************************************************)
(* A command returns or is killed.                                         *)
(***************************************************************************)
LEMMA EndType ==
  ASSUME TypeInv, Return \/ Crash
  PROVE  TypeInv'
<1>1. /\ pc # "idle" /\ pc' = "idle" /\ cmd' = None /\ err' = FALSE
      /\ fault' = FALSE /\ loc' = NoLocals
      /\ UNCHANGED <<cloud, ing, nodePort>>
  BY DEF Return, Crash
<1>2. stable' \in Commands \cup {None}
  BY <1>1, RunningCommand DEF Return, Crash, TypeInv
<1>3. faults' \in 0..MaxFaults
  BY ConfigAssumption DEF Return, Crash, TypeInv, TypeOK
<1>4. CommandTypeOK' /\ StepKnows'
  BY <1>1, <1>2, <1>3, NoLocalsType DEF CommandTypeOK, StepKnows, CreateSteps
<1> QED BY <1>1, <1>4 DEF TypeInv, TypeOK, CommandTypeOK, cloud,
      HealthCheckTypeOK, BackendServiceTypeOK, URLMapTypeOK, TargetProxyTypeOK,
      ForwardingRuleTypeOK, SSLCertTypeOK, FirewallRuleTypeOK, IngressTypeOK

(***************************************************************************)
(* A controller writes instance groups of its cluster.                     *)
(***************************************************************************)
LEMMA AnnotateType ==
  ASSUME TypeInv, NEW c \in Clusters, Annotate(c)
  PROVE  TypeInv'
<1>1. PICK igs \in SUBSET IGsOf[c] : ing' = [ing EXCEPT ![c].igs = igs]
  BY DEF Annotate
<1>2. igs \in SUBSET InstanceGroups
  BY <1>1, ConfigAssumption
<1>3. ing[c] \in Ingresses /\ ing \in [Clusters -> Ings]
  BY DEF Annotate, TypeInv, TypeOK, IngressTypeOK, Ings
<1>4. [ing[c] EXCEPT !.igs = igs] \in Ings
  BY <1>2, <1>3 DEF Ingresses, Ings
<1>5. ing' \in [Clusters -> Ings]
  BY <1>1, <1>3, <1>4
<1> QED BY <1>5 DEF TypeInv, TypeOK, StepKnows, Annotate, cloud, Ings,
      HealthCheckTypeOK, BackendServiceTypeOK, URLMapTypeOK, TargetProxyTypeOK,
      ForwardingRuleTypeOK, SSLCertTypeOK, FirewallRuleTypeOK, IngressTypeOK

-----------------------------------------------------------------------------
(***************************************************************************)
(* A step of a load balancer method keeps the types.                       *)
(***************************************************************************)
LEMMA LoadBalancerStepType ==
  ASSUME TypeInv, LoadBalancerStep
  PROVE  TypeInv'
<1> USE DEF LoadBalancerStep
<1>1. CASE CreateLoadBalancer
  <2>1. CASE createNodePorts
    <3>1. "nodePorts" \in Steps /\ "healthCheck" \in Steps \ {"sslCert"}
      BY DEF Steps, CreateSteps
    <3> QED BY <2>1, <3>1, readNodePortsType DEF createNodePorts
  <2>2. CASE getIGs("getIGs")
    BY <2>2, getIGsType DEF Steps, CreateSteps
  <2>3. CASE createRule("httpRule", "http", AfterHTTP)
    <3>1. AfterHTTP \in {"sslCert", "firewall"}
      BY DEF AfterHTTP
    <3>2. AfterHTTP = "sslCert" => cmd.spec.tls # None
      BY DEF AfterHTTP
    <3>3. "http" \in Protocols /\ "httpRule" \in CreateSteps \ {"nodePorts"}
      BY DEF Protocols, CreateSteps
    <3> QED BY <2>3, <3>1, <3>2, <3>3, createRuleType
  <2>4. CASE createRule("httpsRule", "https", "firewall")
    <3>1. "https" \in Protocols /\ "httpsRule" \in CreateSteps \ {"nodePorts"}
      BY DEF Protocols, CreateSteps
    <3> QED BY <2>4, <3>1, createRuleType
  <2> QED BY <1>1, <2>1, <2>2, <2>3, <2>4, noIPAddressType, createHealthChecksType,
          getNamedPortsType, createBackendServicesType, createURLMapType,
          createHTTPProxyType, createSSLCertType, createHTTPSProxyType,
          createFirewallType DEF CreateLoadBalancer
<1>2. CASE DeleteLoadBalancer
  <2>1. CASE deletePorts
    <3>1. /\ "delPorts" \in Steps
          /\ "delBackends" \in Steps \ {"sslCert"} /\ "delBackends" \notin CreateSteps
      BY DEF Steps, CreateSteps, DeleteSteps
    <3> QED BY <2>1, <3>1, readNodePortsType DEF deletePorts
  <2> QED BY <1>2, <2>1, deleteFirewallType, deleteRulesType, deleteProxiesType,
          deleteCertType, deleteURLMapType, deleteBackendsType,
          deleteHealthChecksType DEF DeleteLoadBalancer
<1>3. CASE RemoveLoadBalancerFromClusters
  <2>1. CASE removeNodePorts
    <3>1. /\ "rmNodePorts" \in Steps
          /\ "rmIGs" \in Steps \ {"sslCert"} /\ "rmIGs" \notin CreateSteps
      BY DEF Steps, CreateSteps, RemoveSteps
    <3> QED BY <2>1, <3>1, readNodePortsType DEF removeNodePorts
  <2>2. CASE getIGs("rmIGs")
    BY <2>2, getIGsType DEF Steps, RemoveSteps
  <2> QED BY <1>3, <2>1, <2>2, removeStatusCheckType, afterRemoveIGsType,
          removeFromFirewallType, removeFromBackendsType, removeFromStatusType
          DEF RemoveLoadBalancerFromClusters
<1> QED BY <1>1, <1>2, <1>3

(***************************************************************************)
(* Initially everything has its type: a load balancer of an old kubemci    *)
(* is one, and so is none at all.                                          *)
(***************************************************************************)
LEMMA InitType ==
  Init => TypeInv
<1> SUFFICES ASSUME Init PROVE TypeInv
  OBVIOUS
<1>1. PICK lb \in LegacyLBs \cup {NoLoadBalancer} :
        /\ hc = lb.hc /\ be = lb.be /\ um = lb.um /\ tp = lb.tp
        /\ fr = lb.fr /\ cert = lb.cert /\ fw = lb.fw /\ ing = lb.ing
  BY DEF Init
<1>2. lb \in LoadBalancers
  <2>1. NoLoadBalancer \in LoadBalancers
    BY DEF NoLoadBalancer, LoadBalancers
  <2> QED BY <2>1, LegacyAssumption
<1>3. CommandTypeOK /\ StepKnows
  <2>1. Idle /\ faults = 0 /\ stable = None
    BY DEF Init
  <2>2. 0 \in 0..MaxFaults
    BY ConfigAssumption
  <2> QED BY <2>1, <2>2, NoLocalsType
          DEF Idle, CommandTypeOK, StepKnows, CreateSteps
<1>4. /\ HealthCheckTypeOK /\ BackendServiceTypeOK /\ URLMapTypeOK
      /\ TargetProxyTypeOK /\ ForwardingRuleTypeOK /\ SSLCertTypeOK
      /\ FirewallRuleTypeOK /\ IngressTypeOK
  BY <1>1, <1>2 DEF Init, LoadBalancers,
      HealthCheckTypeOK, BackendServiceTypeOK, URLMapTypeOK, TargetProxyTypeOK,
      ForwardingRuleTypeOK, SSLCertTypeOK, FirewallRuleTypeOK, IngressTypeOK
<1> QED BY <1>3, <1>4 DEF TypeInv, TypeOK, CommandTypeOK

(***************************************************************************)
(* Every step keeps the types.                                             *)
(***************************************************************************)
LEMMA NextType ==
  TypeInv /\ [Next]_vars => TypeInv'
<1> SUFFICES ASSUME TypeInv, [Next]_vars PROVE TypeInv'
  OBVIOUS
<1>1. ASSUME NEW c \in Commands, Run(c) PROVE TypeInv'
  BY <1>1, RunType
<1>2. CASE CommandStep
  BY <1>2, createValidateType, createIngressType, LoadBalancerStepType,
     deleteIngressType, EndType DEF CommandStep
<1>3. CASE Crash
  BY <1>3, EndType
<1>4. ASSUME NEW c \in Clusters, Annotate(c) PROVE TypeInv'
  BY <1>4, AnnotateType
<1>5. CASE ChangeServices
  BY <1>5 DEF TypeInv, TypeOK, StepKnows, ChangeServices, cloud,
      HealthCheckTypeOK, BackendServiceTypeOK, URLMapTypeOK, TargetProxyTypeOK,
      ForwardingRuleTypeOK, SSLCertTypeOK, FirewallRuleTypeOK, IngressTypeOK
<1>6. CASE UNCHANGED vars
  BY <1>6 DEF vars, TypeInv, TypeOK, StepKnows, Locals,
      HealthCheckTypeOK, BackendServiceTypeOK, URLMapTypeOK, TargetProxyTypeOK,
      ForwardingRuleTypeOK, SSLCertTypeOK, FirewallRuleTypeOK, IngressTypeOK
<1> QED BY <1>1, <1>2, <1>3, <1>4, <1>5, <1>6 DEF Next

(***************************************************************************)
(* Type correctness: whatever fails, is killed or is retried, the          *)
(* resources, the control state and the locals of a command keep their     *)
(* types; in particular no url map or rule is written without an address,  *)
(* and no firewall rule with a missing network tag.                        *)
(***************************************************************************)
THEOREM TypeCorrect ==
  Spec => []TypeOK
<1>1. TypeInv => TypeOK
  BY DEF TypeInv
<1> QED BY <1>1, InitType, NextType, PTL DEF Spec

-----------------------------------------------------------------------------
(***************************************************************************)
(* References holds in every behaviour.                                    *)
(*                                                                         *)
(* References alone is not inductive: a create writes a resource long      *)
(* after it got the links that the resource holds.  LinksValid says that   *)
(* the links a command carries point to resources that exist, for as long  *)
(* as it carries them, and that a command that deletes carries none.       *)
(***************************************************************************)
\* The command has no links.
NoLinks ==
  /\ loc.hcs = {}
  /\ \A s \in Services : loc.bes[s] = None
  /\ loc.um = FALSE
  /\ loc.cert = None

LinksValid ==
  /\ \A p \in loc.hcs : hc[p] # None
  /\ \A s \in Services : loc.bes[s] # None => be[loc.bes[s]] # None
  /\ loc.um => um # None
  /\ loc.cert = OwnCert => cert # None
  /\ pc = "httpRule" /\ loc.tp => tp["http"] # None
  /\ pc = "httpsRule" /\ loc.tp => tp["https"] # None
  /\ pc \in DeleteSteps => NoLinks

\* The resources that References is about.
links == <<hc, be, um, tp, fr, cert>>

\* The step does not change the links that the command carries.
KeepsLinks ==
  /\ loc'.hcs = loc.hcs /\ loc'.bes = loc.bes
  /\ loc'.um = loc.um /\ loc'.cert = loc.cert

Linked == References /\ LinksValid

-----------------------------------------------------------------------------
(***************************************************************************)
(* A step that changes no resource and no link of the command.             *)
(***************************************************************************)
LEMMA QuietStep ==
  ASSUME Linked, UNCHANGED links, KeepsLinks,
         pc' \notin {"httpRule", "httpsRule"},
         pc' \in DeleteSteps => pc \in DeleteSteps
  PROVE  Linked'
<1>1. References'
  BY DEF Linked, References, links, BackendServicesInUse
<1>2. LinksValid'
  BY DEF Linked, LinksValid, NoLinks, links, KeepsLinks
<1> QED BY <1>1, <1>2 DEF Linked

(***************************************************************************)
(* A step that changes no resource and leaves the command without links.   *)
(***************************************************************************)
LEMMA ForgetLinks ==
  ASSUME Linked, UNCHANGED links, NoLinks',
         pc' \notin {"httpRule", "httpsRule"}
  PROVE  Linked'
<1>1. References'
  BY DEF Linked, References, links, BackendServicesInUse
<1>2. LinksValid'
  BY NoneAssumption DEF LinksValid, NoLinks
<1> QED BY <1>1, <1>2 DEF Linked

(***************************************************************************)
(* A command without locals has no links.                                  *)
(***************************************************************************)
LEMMA NoLocalsNoLinks ==
  ASSUME loc = NoLocals
  PROVE  NoLinks
BY DEF NoLocals, NoLinks

-----------------------------------------------------------------------------
(***************************************************************************)
(* The steps that only read, and those of the firewall rule.               *)
(***************************************************************************)
LEMMA readNodePortsLinked ==
  ASSUME TypeInv, Linked, NEW here, NEW next,
         next \notin {"httpRule", "httpsRule"},
         next \in DeleteSteps => here \in DeleteSteps, readNodePorts(here, next)
  PROVE  Linked'
<1>1. loc \in Locals
  BY DEF TypeInv, TypeOK
<1>2. KeepsLinks
  BY <1>1 DEF readNodePorts, KeepsLinks, Locals
<1>3. pc = here /\ pc' \in {next, "done", "delIngress"}
  BY AfterSyncerType DEF readNodePorts
<1>4. UNCHANGED links
  BY DEF readNodePorts, links, cloud
<1> QED BY <1>2, <1>3, <1>4, QuietStep DEF DeleteSteps

\* getIGs, for create and for remove.
LEMMA getIGsLinked ==
  ASSUME TypeInv, Linked, NEW here \in {"getIGs", "rmIGs"}, getIGs(here)
  PROVE  Linked'
<1>1. loc \in Locals
  BY DEF TypeInv, TypeOK
<1>2. KeepsLinks
  BY <1>1 DEF getIGs, getIGsForCluster, KeepsLinks, Locals
<1> QED BY <1>2, QuietStep DEF getIGs, links, cloud, DeleteSteps

\* getNamedPorts, and the early returns around it.
LEMMA getNamedPortsLinked ==
  ASSUME TypeInv, Linked, getNamedPorts
  PROVE  Linked'
<1>1. loc \in Locals
  BY DEF TypeInv, TypeOK
<1>2. KeepsLinks
  BY <1>1 DEF getNamedPorts, KeepsLinks, Locals
<1>3. pc' \in {"done", "backendService"}
  BY DEF getNamedPorts
<1> QED BY <1>2, <1>3, QuietStep DEF getNamedPorts, links, cloud, DeleteSteps

\* The steps that leave the resources of References and the locals alone.
LEMMA OtherStepsLinked ==
  ASSUME TypeInv, Linked,
         \/ noIPAddress \/ createFirewall \/ deleteFirewall
         \/ removeStatusCheck \/ afterRemoveIGs \/ removeFromFirewall
         \/ createValidate \/ createIngress \/ deleteIngress
  PROVE  Linked'
<1>1. UNCHANGED links /\ loc' = loc
  BY DEF noIPAddress, createFirewall, deleteFirewall, removeStatusCheck,
         afterRemoveIGs, removeFromFirewall, createValidate, createIngress,
         deleteIngress, links, cloud
<1>2. KeepsLinks
  BY <1>1 DEF KeepsLinks
<1>3. \/ pc' \in {"done", "delIngress", "rmNodePorts", "rmFirewall", "rmStatus",
                  "rmBackends", "ensureIngress", "nodePorts"}
      \/ pc' = "delRules" /\ pc = "delFirewall"
  BY AfterSyncerType
     DEF noIPAddress, createFirewall, deleteFirewall, removeStatusCheck,
         afterRemoveIGs, removeFromFirewall, createValidate, createIngress,
         deleteIngress
<1> QED BY <1>1, <1>2, <1>3, QuietStep DEF DeleteSteps

-----------------------------------------------------------------------------
(***************************************************************************)
(* Health checks are kept, and the links are to those that were ensured.   *)
(***************************************************************************)
LEMMA createHealthChecksLinked ==
  ASSUME TypeInv, Linked, createHealthChecks
  PROVE  Linked'
<1>1. pc = "healthCheck" /\ pc' = "getIGs" /\ loc \in Locals
  BY DEF createHealthChecks, TypeInv, TypeOK
<1>2. PICK o \in EnsureHealthCheck(loc.ports, cmd.clusters, cmd.force) :
        /\ hc' = Results(o)
        /\ loc' = [loc EXCEPT !.hcs = {p \in NodePorts :
                                         loc.ports[p] # None /\ ~o[p].err}]
  BY DEF createHealthChecks
<1>3. \A p \in NodePorts : /\ hc[p] # None => hc'[p] # None
                           /\ loc.ports[p] # None /\ ~o[p].err => hc'[p] # None
  <2>1. /\ HealthCheckTypeOK /\ loc.ports \in [NodePorts -> Services \cup {None}]
        /\ cmd.clusters \in SUBSET Clusters /\ cmd.force \in BOOLEAN
    BY <1>1, RunningCommand DEF TypeInv, TypeOK, Locals
  <2>2. HealthChecksEnsured(loc.ports, cmd.clusters, cmd.force, o)
    BY <2>1, EnsureHealthCheckOutcome
  <2> QED BY <1>2, <2>2 DEF HealthChecksEnsured
<1>4. UNCHANGED <<be, um, tp, fr, cert>>
  BY DEF createHealthChecks
<1>5. References'
  BY <1>3, <1>4 DEF Linked, References, BackendServicesInUse
<1>6. /\ loc'.hcs = {p \in NodePorts : loc.ports[p] # None /\ ~o[p].err}
      /\ loc'.bes = loc.bes /\ loc'.um = loc.um /\ loc'.cert = loc.cert
  BY <1>1, <1>2 DEF Locals
<1>7. \A p \in loc'.hcs : hc'[p] # None
  BY <1>3, <1>6
<1>8. LinksValid'
  BY <1>1, <1>4, <1>6, <1>7 DEF Linked, LinksValid, DeleteSteps
<1> QED BY <1>5, <1>8 DEF Linked

(***************************************************************************)
(* A backend service is created only where the command has the link of a   *)
(* health check; the links are to backend services that were ensured.      *)
(***************************************************************************)
LEMMA createBackendServicesLinked ==
  ASSUME TypeInv, Linked, createBackendServices
  PROVE  Linked'
<1>1. pc = "backendService" /\ pc' = "urlMap" /\ loc \in Locals
  BY DEF createBackendServices, TypeInv, TypeOK
<1>2. PICK o \in EnsureBackendService(loc.ports, loc.hcs, loc.nps, AllIGs, cmd.force) :
        /\ be' = Results(o)
        /\ loc' = [loc EXCEPT !.bes = ensuredBackendServices(loc.ports, o)]
  BY DEF createBackendServices
<1>3. \A p \in NodePorts : /\ be[p] # None => be'[p] # None
                           /\ be'[p] # None => be[p] # None \/ p \in loc.hcs
                           /\ loc.ports[p] # None /\ ~o[p].err => be'[p] # None
  <2>1. /\ BackendServiceTypeOK /\ loc.ports \in [NodePorts -> Services \cup {None}]
        /\ AllIGs \in SUBSET InstanceGroups /\ cmd.force \in BOOLEAN
    BY <1>1, RunningCommand, AllIGsType DEF TypeInv, TypeOK, Locals
  <2>2. BackendServicesEnsured(loc.ports, loc.hcs, loc.nps, AllIGs, cmd.force, o)
    BY <2>1, EnsureBackendServiceOutcome
  <2> QED BY <1>2, <2>2 DEF BackendServicesEnsured
<1>4. UNCHANGED <<hc, um, tp, fr, cert>>
  BY DEF createBackendServices
<1>5. References'
  BY <1>3, <1>4 DEF Linked, References, LinksValid, BackendServicesInUse
<1>6. /\ loc'.bes = ensuredBackendServices(loc.ports, o)
      /\ loc'.hcs = loc.hcs /\ loc'.um = loc.um /\ loc'.cert = loc.cert
  BY <1>1, <1>2 DEF Locals
<1>7. ASSUME NEW s \in Services, loc'.bes[s] # None
      PROVE  be'[loc'.bes[s]] # None
  <2> DEFINE Q(p) == loc.ports[p] = s /\ ~o[p].err
             c == CHOOSE p \in NodePorts : Q(p)
  <2>1. (\E p \in NodePorts : Q(p)) => c \in NodePorts /\ Q(c)
    BY Zenon
  <2>2. (\E p \in NodePorts : Q(p)) /\ loc'.bes[s] = c
    BY <1>6, <1>7 DEF ensuredBackendServices
  <2>3. loc.ports[c] # None
    BY <2>1, <2>2, NoneAssumption
  <2> QED BY <1>3, <2>1, <2>2, <2>3
<1>8. LinksValid'
  BY <1>1, <1>4, <1>6, <1>7 DEF Linked, LinksValid, DeleteSteps
<1> QED BY <1>5, <1>8 DEF Linked

(***************************************************************************)
(* A url map is written with the links to backend services of the command. *)
(***************************************************************************)
LEMMA createURLMapLinked ==
  ASSUME TypeInv, Linked, createURLMap
  PROVE  Linked'
<1>1. /\ pc = "urlMap" /\ loc \in Locals /\ cmd.spec.ip # None
      /\ pc' \in {"httpProxy", "sslCert", "firewall"}
  BY DEF createURLMap, AfterHTTP, TypeInv, TypeOK, StepKnows, CreateSteps
<1>2. PICK o \in EnsureURLMap(cmd.spec, cmd.clusters, loc.bes, cmd.force) :
        /\ um' = o.res
        /\ loc' = [loc EXCEPT !.um = ~o.err]
  BY DEF createURLMap
<1>3. /\ um # None => um' # None
      /\ ~o.err => um' # None
      /\ um' # None /\ um' # um =>
           /\ \E s \in Services : loc.bes[s] # None /\ um'.default = loc.bes[s]
           /\ \A s \in Services : um'.rules[s] \in {None, loc.bes[s]}
  <2>1. /\ URLMapTypeOK /\ cmd.spec \in SpecType /\ cmd.clusters \in SUBSET Clusters
        /\ loc.bes \in [Services -> NodePorts \cup {None}] /\ cmd.force \in BOOLEAN
    BY <1>1, RunningCommand DEF TypeInv, TypeOK, Locals
  <2>2. URLMapEnsured(cmd.spec, cmd.clusters, loc.bes, cmd.force, o)
    BY <1>1, <2>1, EnsureURLMapOutcome
  <2> QED BY <1>2, <2>2 DEF URLMapEnsured
<1>4. UNCHANGED <<hc, be, tp, fr, cert>>
  BY DEF createURLMap
<1>5. ASSUME NEW p \in BackendServicesInUse'
      PROVE  be[p] # None
  <2>1. um' # None /\ p \in NodePorts /\ p # None
    BY <1>5, NoneAssumption DEF BackendServicesInUse
  <2>2. CASE um' = um
    BY <1>5, <2>1, <2>2 DEF Linked, References, BackendServicesInUse
  <2>3. CASE um' # um
    <3>1. \E s \in Services : loc.bes[s] # None /\ p = loc.bes[s]
      BY <1>3, <1>5, <2>1, <2>3 DEF BackendServicesInUse
    <3> QED BY <3>1 DEF Linked, LinksValid
  <2> QED BY <2>2, <2>3
<1>6. References'
  BY <1>3, <1>4, <1>5 DEF Linked, References
<1>7. /\ loc'.um = ~o.err
      /\ loc'.hcs = loc.hcs /\ loc'.bes = loc.bes /\ loc'.cert = loc.cert
  BY <1>1, <1>2 DEF Locals
<1>8. LinksValid'
  BY <1>1, <1>3, <1>4, <1>7 DEF Linked, LinksValid, DeleteSteps
<1> QED BY <1>6, <1>8 DEF Linked

(***************************************************************************)
(* A proxy is created only with a link to the url map.                     *)
(***************************************************************************)
LEMMA createHTTPProxyLinked ==
  ASSUME TypeInv, Linked, createHTTPProxy
  PROVE  Linked'
<1>1. pc = "httpProxy" /\ pc' = "httpRule" /\ loc \in Locals
  BY DEF createHTTPProxy, TypeInv, TypeOK
<1>2. PICK o \in ensureHTTPProxy(loc.um, cmd.force) :
        /\ tp' = [tp EXCEPT !["http"] = o.res]
        /\ loc' = [loc EXCEPT !.tp = ~o.err]
  BY DEF createHTTPProxy
<1>3. /\ tp["http"] # None => o.res = tp["http"]
      /\ tp["http"] = None /\ o.res # None => loc.um
      /\ ~o.err => o.res # None
  BY <1>1, <1>2, ensureHTTPProxyOutcome, RunningCommand DEF TypeInv, TypeOK, Locals
<1>4. UNCHANGED <<hc, be, um, fr, cert>>
  BY DEF createHTTPProxy
<1>5. tp'["http"] = o.res /\ \A k \in Protocols \ {"http"} : tp'[k] = tp[k]
  BY <1>2 DEF TypeInv, TypeOK, TargetProxyTypeOK, Protocols
<1>6. References'
  BY <1>3, <1>4, <1>5
     DEF Linked, References, LinksValid, BackendServicesInUse, Protocols
<1>7. /\ loc'.tp = ~o.err /\ loc'.um = loc.um
      /\ loc'.hcs = loc.hcs /\ loc'.bes = loc.bes /\ loc'.cert = loc.cert
  BY <1>1, <1>2 DEF Locals
<1>8. LinksValid'
  BY <1>1, <1>3, <1>4, <1>5, <1>7 DEF Linked, LinksValid, DeleteSteps
<1> QED BY <1>6, <1>8 DEF Linked

(***************************************************************************)
(* A certificate that a proxy uses is kept, and a link to the own one is   *)
(* returned only if it exists.                                             *)
(***************************************************************************)
LEMMA createSSLCertLinked ==
  ASSUME TypeInv, Linked, createSSLCert
  PROVE  Linked'
<1>1. /\ pc = "sslCert" /\ pc' = "httpsProxy" /\ loc \in Locals
      /\ cmd.spec.tls \in CertData \cup PreSharedCerts
  BY RunningCommand DEF createSSLCert, TypeInv, TypeOK, StepKnows, SpecType
<1>2. PICK o \in EnsureSSLCert(cmd.spec.tls, OwnCertInUse, cmd.force) :
        /\ cert' = o.res
        /\ loc' = [loc EXCEPT !.cert = IF o.err THEN None ELSE certLink(cmd.spec.tls)]
  BY DEF createSSLCert
<1>3. /\ OwnCertInUse /\ cert # None => cert' # None
      /\ ~o.err /\ cmd.spec.tls \notin PreSharedCerts => cert' # None
  BY <1>1, <1>2, EnsureSSLCertOutcome, RunningCommand DEF TypeInv, TypeOK
<1>4. UNCHANGED <<hc, be, um, tp, fr>>
  BY DEF createSSLCert
<1>5. References'
  BY <1>3, <1>4 DEF Linked, References, BackendServicesInUse, OwnCertInUse
<1>6. /\ loc'.cert = IF o.err THEN None ELSE certLink(cmd.spec.tls)
      /\ loc'.hcs = loc.hcs /\ loc'.bes = loc.bes /\ loc'.um = loc.um
  BY <1>1, <1>2 DEF Locals
<1>7. loc'.cert = OwnCert => ~o.err /\ cmd.spec.tls \notin PreSharedCerts
  BY <1>6, NoneAssumption DEF certLink
<1>8. LinksValid'
  BY <1>1, <1>3, <1>4, <1>6, <1>7 DEF Linked, LinksValid, DeleteSteps
<1> QED BY <1>5, <1>8 DEF Linked

(***************************************************************************)
(* An HTTPS proxy is created only with links to the url map and to the     *)
(* certificate.                                                            *)
(***************************************************************************)
LEMMA createHTTPSProxyLinked ==
  ASSUME TypeInv, Linked, createHTTPSProxy
  PROVE  Linked'
<1>1. pc = "httpsProxy" /\ pc' = "httpsRule" /\ loc \in Locals
  BY DEF createHTTPSProxy, TypeInv, TypeOK
<1>2. PICK o \in ensureHTTPSProxy(loc.um, loc.cert, cmd.force) :
        /\ tp' = [tp EXCEPT !["https"] = o.res]
        /\ loc' = [loc EXCEPT !.tp = ~o.err]
  BY DEF createHTTPSProxy
<1>3. /\ tp["https"] # None => o.res = tp["https"]
      /\ tp["https"] = None /\ o.res # None => loc.um /\ o.res.cert = loc.cert
      /\ ~o.err => o.res # None
  BY <1>1, <1>2, ensureHTTPSProxyOutcome, RunningCommand DEF TypeInv, TypeOK, Locals
<1>4. UNCHANGED <<hc, be, um, fr, cert>>
  BY DEF createHTTPSProxy
<1>5. tp'["https"] = o.res /\ \A k \in Protocols \ {"https"} : tp'[k] = tp[k]
  BY <1>2 DEF TypeInv, TypeOK, TargetProxyTypeOK, Protocols
<1>6. References'
  BY <1>3, <1>4, <1>5
     DEF Linked, References, LinksValid, BackendServicesInUse, Protocols
<1>7. /\ loc'.tp = ~o.err /\ loc'.um = loc.um
      /\ loc'.hcs = loc.hcs /\ loc'.bes = loc.bes /\ loc'.cert = loc.cert
  BY <1>1, <1>2 DEF Locals
<1>8. LinksValid'
  BY <1>1, <1>3, <1>4, <1>5, <1>7 DEF Linked, LinksValid, DeleteSteps
<1> QED BY <1>6, <1>8 DEF Linked

(***************************************************************************)
(* A rule is created only with a link to the proxy of its protocol.        *)
(***************************************************************************)
LEMMA createRuleLinked ==
  ASSUME TypeInv, Linked, NEW q \in Protocols,
         NEW here \in {"httpRule", "httpsRule"}, NEW next \in {"sslCert", "firewall"},
         q = "http" <=> here = "httpRule", createRule(here, q, next)
  PROVE  Linked'
<1>1. pc = here /\ pc' = next /\ loc \in Locals /\ loc' = loc /\ cmd.spec.ip # None
  BY DEF createRule, TypeInv, TypeOK, StepKnows, CreateSteps
<1>2. PICK o \in ensureForwardingRule(q, cmd.spec.ip, loc.tp, cmd.force) :
        fr' = [fr EXCEPT ![q] = o.res]
  BY DEF createRule
<1>3. fr[q] = None /\ o.res # None => loc.tp
  <2>1. cmd.spec.ip \in IPs
    BY <1>1, RunningCommand DEF TypeInv, SpecType
  <2> QED BY <1>1, <1>2, <2>1, ensureForwardingRuleOutcome, RunningCommand
          DEF TypeInv, TypeOK, Locals
<1>4. UNCHANGED <<hc, be, um, tp, cert>>
  BY DEF createRule
<1>5. fr'[q] = o.res /\ \A k \in Protocols \ {q} : fr'[k] = fr[k]
  BY <1>2 DEF TypeInv, TypeOK, ForwardingRuleTypeOK
<1>6. fr'[q] # None => tp[q] # None
  BY <1>1, <1>3, <1>5 DEF Linked, References, LinksValid, Protocols
<1>7. References'
  BY <1>4, <1>5, <1>6 DEF Linked, References, BackendServicesInUse
<1>8. LinksValid'
  BY <1>1, <1>4 DEF Linked, LinksValid, DeleteSteps
<1> QED BY <1>7, <1>8 DEF Linked

-----------------------------------------------------------------------------
(***************************************************************************)
(* A step of a delete: the command has no links, so only References can    *)
(* break.                                                                  *)
(***************************************************************************)
LEMMA DeleteStepLinked ==
  ASSUME Linked, pc \in DeleteSteps, loc' = loc,
         pc' \notin {"httpRule", "httpsRule"}, References'
  PROVE  Linked'
<1>1. NoLinks'
  BY DEF Linked, LinksValid, NoLinks
<1>2. LinksValid'
  BY <1>1, NoneAssumption DEF LinksValid, NoLinks
<1> QED BY <1>2 DEF Linked

(***************************************************************************)
(* No resource points to a rule.                                           *)
(***************************************************************************)
LEMMA deleteRulesLinked ==
  ASSUME TypeInv, Linked, deleteRules
  PROVE  Linked'
<1>1. /\ pc = "delRules" /\ loc' = loc
      /\ pc' \notin {"httpRule", "httpsRule"}
  BY AfterSyncerType DEF deleteRules
<1>2. PICK o \in DeleteForwardingRules : fr' = Results(o)
  BY DEF deleteRules
<1>3. \A q \in Protocols : fr'[q] \in {fr[q], None}
  BY <1>2, DeleteForwardingRulesOutcome DEF TypeInv, TypeOK
<1>4. UNCHANGED <<hc, be, um, tp, cert>>
  BY DEF deleteRules
<1>5. References'
  BY <1>3, <1>4 DEF Linked, References, BackendServicesInUse
<1> QED BY <1>1, <1>5, DeleteStepLinked DEF DeleteSteps

(***************************************************************************)
(* A proxy with a rule is kept.                                            *)
(***************************************************************************)
LEMMA deleteProxiesLinked ==
  ASSUME TypeInv, Linked, deleteProxies
  PROVE  Linked'
<1>1. /\ pc = "delProxies" /\ loc' = loc
      /\ pc' \notin {"httpRule", "httpsRule"}
  BY AfterSyncerType DEF deleteProxies
<1>2. PICK o \in DeleteTargetProxies(TargetProxiesInUse) : tp' = Results(o)
  BY DEF deleteProxies
<1>3. \A q \in Protocols : /\ tp'[q] # None => tp'[q] = tp[q]
                           /\ fr[q] # None => tp'[q] = tp[q]
  <2>1. TargetProxyTypeOK
    BY DEF TypeInv, TypeOK
  <2>2. \A k \in Protocols : /\ Results(o)[k] \in {tp[k], None}
                             /\ k \in TargetProxiesInUse => Results(o)[k] = tp[k]
    BY <1>2, <2>1, DeleteTargetProxiesOutcome
  <2> QED BY <1>2, <2>2 DEF TargetProxiesInUse
<1>4. UNCHANGED <<hc, be, um, fr, cert>>
  BY DEF deleteProxies
<1>5. BackendServicesInUse' = BackendServicesInUse /\ "https" \in Protocols
  BY <1>4 DEF BackendServicesInUse, Protocols
<1>6. References'
  BY <1>3, <1>4, <1>5 DEF Linked, References
<1> QED BY <1>1, <1>6, DeleteStepLinked DEF DeleteSteps

(***************************************************************************)
(* A certificate that a proxy uses is kept.                                *)
(***************************************************************************)
LEMMA deleteCertLinked ==
  ASSUME TypeInv, Linked, deleteCert
  PROVE  Linked'
<1>1. /\ pc = "delCert" /\ loc' = loc
      /\ pc' \notin {"httpRule", "httpsRule"}
  BY AfterSyncerType DEF deleteCert
<1>2. PICK o \in DeleteSSLCert(OwnCertInUse) : cert' = o.res
  BY DEF deleteCert
<1>3. OwnCertInUse => cert' = cert
  BY <1>2, DeleteSSLCertOutcome DEF TypeInv, TypeOK
<1>4. UNCHANGED <<hc, be, um, tp, fr>>
  BY DEF deleteCert
<1>5. References'
  BY <1>3, <1>4 DEF Linked, References, BackendServicesInUse, OwnCertInUse
<1> QED BY <1>1, <1>5, DeleteStepLinked DEF DeleteSteps

(***************************************************************************)
(* A url map with a proxy is kept.                                         *)
(***************************************************************************)
LEMMA deleteURLMapLinked ==
  ASSUME TypeInv, Linked, deleteURLMap
  PROVE  Linked'
<1>1. /\ pc = "delURLMap" /\ loc' = loc
      /\ pc' \notin {"httpRule", "httpsRule"}
  BY AfterSyncerType DEF deleteURLMap
<1>2. PICK o \in DeleteURLMap(URLMapInUse) : um' = o.res
  BY DEF deleteURLMap
<1>3. um' \in {um, None} /\ (URLMapInUse => um' = um)
  BY <1>2, DeleteURLMapOutcome DEF TypeInv, TypeOK
<1>4. UNCHANGED <<hc, be, tp, fr, cert>>
  BY DEF deleteURLMap
<1>5. References'
  BY <1>3, <1>4 DEF Linked, References, BackendServicesInUse, URLMapInUse
<1> QED BY <1>1, <1>5, DeleteStepLinked DEF DeleteSteps

(***************************************************************************)
(* A backend service that the url map routes to is kept.                   *)
(***************************************************************************)
LEMMA deleteBackendsLinked ==
  ASSUME TypeInv, Linked, deleteBackends
  PROVE  Linked'
<1>1. /\ pc = "delBackends" /\ loc' = loc
      /\ pc' \notin {"httpRule", "httpsRule"}
  BY AfterSyncerType DEF deleteBackends
<1>2. PICK o \in DeleteBackendServices(loc.ports, BackendServicesInUse) : be' = Results(o)
  BY DEF deleteBackends
<1>3. \A p \in NodePorts : /\ be'[p] \in {be[p], None}
                           /\ p \in BackendServicesInUse => be'[p] = be[p]
  BY <1>2, DeleteBackendServicesOutcome DEF TypeInv, TypeOK
<1>4. UNCHANGED <<hc, um, tp, fr, cert>>
  BY DEF deleteBackends
<1>5. /\ BackendServicesInUse' = BackendServicesInUse
      /\ BackendServicesInUse \subseteq NodePorts
  BY <1>4 DEF BackendServicesInUse
<1>6. /\ \A p \in BackendServicesInUse : be'[p] # None
      /\ \A p \in NodePorts : be'[p] # None => hc[p] # None
  BY <1>3, <1>5 DEF Linked, References
<1>7. References'
  BY <1>4, <1>5, <1>6 DEF Linked, References
<1> QED BY <1>1, <1>7, DeleteStepLinked DEF DeleteSteps

(***************************************************************************)
(* A health check of a backend service is kept.                            *)
(***************************************************************************)
LEMMA deleteHealthChecksLinked ==
  ASSUME TypeInv, Linked, deleteHealthChecks
  PROVE  Linked'
<1>1. /\ pc = "delHealthChecks" /\ loc' = loc
      /\ pc' \notin {"httpRule", "httpsRule"}
  BY AfterSyncerType DEF deleteHealthChecks
<1>2. PICK o \in DeleteHealthChecks(loc.ports, HealthChecksInUse) : hc' = Results(o)
  BY DEF deleteHealthChecks
<1>3. \A p \in NodePorts : be[p] # None => hc'[p] = hc[p]
  <2>1. HealthCheckTypeOK
    BY DEF TypeInv, TypeOK
  <2>2. \A k \in NodePorts : /\ Results(o)[k] \in {hc[k], None}
                             /\ k \in HealthChecksInUse => Results(o)[k] = hc[k]
    BY <1>2, <2>1, DeleteHealthChecksOutcome
  <2> QED BY <1>2, <2>2 DEF HealthChecksInUse
<1>4. UNCHANGED <<be, um, tp, fr, cert>>
  BY DEF deleteHealthChecks
<1>5. References'
  BY <1>3, <1>4 DEF Linked, References, BackendServicesInUse
<1> QED BY <1>1, <1>5, DeleteStepLinked DEF DeleteSteps

-----------------------------------------------------------------------------
(***************************************************************************)
(* Removing clusters neither creates nor deletes a backend service.        *)
(***************************************************************************)
LEMMA removeFromBackendsLinked ==
  ASSUME TypeInv, Linked, removeFromBackends
  PROVE  Linked'
<1>1. pc' = "rmStatus" /\ loc' = loc /\ UNCHANGED <<hc, um, tp, fr, cert>>
  BY DEF removeFromBackends
<1>2. PICK o \in RemoveFromClusters(loc.ports, AllIGs) : be' = Results(o)
  BY DEF removeFromBackends
<1>3. \A p \in NodePorts : be'[p] = None <=> be[p] = None
  BY <1>2, RemoveFromClustersOutcome DEF TypeInv, TypeOK
<1>4. References'
  BY <1>1, <1>3 DEF Linked, References, BackendServicesInUse
<1>5. \A s \in Services : loc.bes[s] # None => loc.bes[s] \in NodePorts
  BY DEF TypeInv, TypeOK, Locals
<1>6. LinksValid'
  BY <1>1, <1>3, <1>5 DEF Linked, LinksValid, DeleteSteps
<1> QED BY <1>4, <1>6 DEF Linked

(***************************************************************************)
(* Removing clusters from the status may lose a rule (it is deleted and    *)
(* created again), but never creates one, and the url map keeps its routes. *)
(***************************************************************************)
LEMMA removeFromStatusLinked ==
  ASSUME TypeInv, Linked, removeFromStatus
  PROVE  Linked'
<1>1. loc' = loc /\ UNCHANGED <<hc, be, tp, cert>>
  BY DEF removeFromStatus
<1>2. pc' \in {"done", "delIngress"}
  BY AfterSyncerType DEF removeFromStatus
<1>3. PICK o \in ForwardingRuleRemoveClustersFromStatus(cmd.clusters),
           u \in URLMapRemoveClustersFromStatus(cmd.clusters) :
        fr' = Results(o) /\ um' = u.res
  BY DEF removeFromStatus
<1>4. \A q \in Protocols : fr'[q] # None => fr[q] # None
  BY <1>3, ForwardingRuleRemoveOutcome DEF TypeInv, TypeOK
<1>5. /\ um' = None <=> um = None
      /\ um # None => um'.default = um.default /\ um'.rules = um.rules
  BY <1>3, URLMapRemoveOutcome DEF TypeInv, TypeOK
<1>6. References'
  BY <1>1, <1>4, <1>5 DEF Linked, References, BackendServicesInUse
<1>7. LinksValid'
  BY <1>1, <1>2, <1>5 DEF Linked, LinksValid, DeleteSteps
<1> QED BY <1>6, <1>7 DEF Linked

-----------------------------------------------------------------------------
(***************************************************************************)
(* Every step of a load balancer method keeps Linked.                      *)
(***************************************************************************)
LEMMA LoadBalancerStepLinked ==
  ASSUME TypeInv, Linked, LoadBalancerStep
  PROVE  Linked'
<1>1. CASE CreateLoadBalancer
  <2>1. CASE createNodePorts
    <3>1. /\ "healthCheck" \notin {"httpRule", "httpsRule"}
          /\ "healthCheck" \notin DeleteSteps
      BY DEF DeleteSteps
    <3> QED BY <2>1, <3>1, readNodePortsLinked DEF createNodePorts
  <2>2. CASE createRule("httpRule", "http", AfterHTTP)
    <3>1. AfterHTTP \in {"sslCert", "firewall"} /\ "http" \in Protocols
      BY DEF AfterHTTP, Protocols
    <3> QED BY <2>2, <3>1, createRuleLinked
  <2>3. CASE createRule("httpsRule", "https", "firewall")
    <3>1. "https" \in Protocols
      BY DEF Protocols
    <3> QED BY <2>3, <3>1, createRuleLinked
  <2> QED BY <1>1, <2>1, <2>2, <2>3, OtherStepsLinked, createHealthChecksLinked,
          getIGsLinked, getNamedPortsLinked, createBackendServicesLinked,
          createURLMapLinked, createHTTPProxyLinked, createSSLCertLinked,
          createHTTPSProxyLinked DEF CreateLoadBalancer
<1>2. CASE DeleteLoadBalancer
  <2>1. CASE deletePorts
    <3>1. /\ "delBackends" \notin {"httpRule", "httpsRule"}
          /\ "delPorts" \in DeleteSteps
      BY DEF DeleteSteps
    <3> QED BY <2>1, <3>1, readNodePortsLinked DEF deletePorts
  <2> QED BY <1>2, <2>1, OtherStepsLinked, deleteRulesLinked, deleteProxiesLinked,
          deleteCertLinked, deleteURLMapLinked, deleteBackendsLinked,
          deleteHealthChecksLinked DEF DeleteLoadBalancer
<1>3. CASE RemoveLoadBalancerFromClusters
  <2>1. CASE removeNodePorts
    <3>1. "rmIGs" \notin {"httpRule", "httpsRule"} /\ "rmIGs" \notin DeleteSteps
      BY DEF DeleteSteps
    <3> QED BY <2>1, <3>1, readNodePortsLinked DEF removeNodePorts
  <2> QED BY <1>3, <2>1, OtherStepsLinked, getIGsLinked, removeFromBackendsLinked,
          removeFromStatusLinked DEF RemoveLoadBalancerFromClusters
<1> QED BY <1>1, <1>2, <1>3 DEF LoadBalancerStep

(***************************************************************************)
(* Initially there is no command, and the load balancer that is found, if  *)
(* any, has no dangling reference.                                         *)
(***************************************************************************)
LEMMA InitLinked ==
  Init => Linked
<1> SUFFICES ASSUME Init PROVE Linked
  OBVIOUS
<1>1. PICK lb \in LegacyLBs \cup {NoLoadBalancer} :
        /\ hc = lb.hc /\ be = lb.be /\ um = lb.um /\ tp = lb.tp
        /\ fr = lb.fr /\ cert = lb.cert
  BY DEF Init
<1>2. References
  <2>1. CASE lb = NoLoadBalancer
    BY <1>1, <2>1 DEF NoLoadBalancer, References, BackendServicesInUse, Protocols
  <2>2. CASE lb \in LegacyLBs
    BY <1>1, <2>2, LegacyAssumption, NoneAssumption
       DEF References, BackendServicesInUse
  <2> QED BY <2>1, <2>2
<1>3. pc = "idle" /\ NoLinks
  BY NoLocalsNoLinks DEF Init, Idle
<1>4. LinksValid
  BY <1>3, NoneAssumption DEF LinksValid, NoLinks
<1> QED BY <1>2, <1>4 DEF Linked

(***************************************************************************)
(* Every step keeps Linked.                                                *)
(***************************************************************************)
LEMMA NextLinked ==
  TypeInv /\ Linked /\ [Next]_vars => Linked'
<1> SUFFICES ASSUME TypeInv, Linked, [Next]_vars PROVE Linked'
  OBVIOUS
<1>1. ASSUME NEW c \in Commands, Run(c) PROVE Linked'
  <2>1. NoLinks'
    BY <1>1 DEF Run, NoLocals, NoLinks
  <2>2. pc' \in {"validate", "delFirewall", "rmStatusCheck"}
    BY <1>1, ConfigAssumption DEF Run, FirstStep, CommandType
  <2> QED BY <1>1, <2>1, <2>2, ForgetLinks DEF Run, links, cloud
<1>2. CASE Return \/ Crash
  <2>1. NoLinks'
    BY <1>2 DEF Return, Crash, NoLocals, NoLinks
  <2> QED BY <1>2, <2>1, ForgetLinks DEF Return, Crash, links, cloud
<1>3. CASE CommandStep
  BY <1>2, <1>3, OtherStepsLinked, LoadBalancerStepLinked DEF CommandStep
<1>4. ASSUME \/ \E c \in Clusters : Annotate(c)
             \/ ChangeServices
             \/ UNCHANGED vars
      PROVE  Linked'
  <2>1. UNCHANGED <<links, loc, pc>>
    BY <1>4 DEF Annotate, ChangeServices, vars, links, cloud
  <2>2. References'
    BY <2>1 DEF Linked, References, links, BackendServicesInUse
  <2>3. LinksValid'
    BY <2>1 DEF Linked, LinksValid, NoLinks, links
  <2> QED BY <2>2, <2>3 DEF Linked
<1> QED BY <1>1, <1>2, <1>3, <1>4 DEF Next

(***************************************************************************)
(* No dangling reference, ever: however the calls of create, delete and    *)
(* remove-clusters fail, whatever is killed half way and run again, every  *)
(* forwarding rule has its proxy, every proxy its url map and certificate, *)
(* every route its backend service and every backend service its health    *)
(* check.                                                                  *)
(***************************************************************************)
THEOREM ReferencesHold ==
  Spec => []References
<1>1. Linked => References
  BY DEF Linked
<1> QED BY <1>1, InitType, NextType, InitLinked, NextLinked, PTL DEF Spec

-----------------------------------------------------------------------------
(***************************************************************************)
(* PART 2: what delete and remove-clusters have done when they report      *)
(* success, and what they never do on the way.                             *)
(***************************************************************************)

(***************************************************************************)
(* The steps of a command are those of its operation; a command that goes  *)
(* on to delete the ingress after an error was told to with --force.       *)
(***************************************************************************)
StepsOf(op) ==
  CASE op = "create" -> CreateSteps \cup {"validate", "ensureIngress", "done"}
    [] op = "delete" -> DeleteSteps \cup {"delIngress", "done"}
    [] op = "remove" -> RemoveSteps \cup {"delIngress", "done"}

OwnSteps ==
  /\ pc # "idle" => pc \in StepsOf(cmd.op)
  /\ pc = "delIngress" /\ err => cmd.force
  /\ pc = "idle" => ~err /\ ~fault

\* TypeInv and OwnSteps, which all the arguments below rest on.
BaseInv == TypeInv /\ OwnSteps

(***************************************************************************)
(* What a step records: the command stays the same, and an error or a      *)
(* fault is one it had or one of the step.                                 *)
(***************************************************************************)
LEMMA Recorded ==
  ASSUME NEW e, NEW f, Record(e, f)
  PROVE  /\ cmd' = cmd
         /\ err' = (err \/ e) /\ fault' = (fault \/ f)
BY DEF Record

(***************************************************************************)
(* Where the next step of a command is one of its operation, and the       *)
(* ingress is not deleted after an error without --force.                  *)
(***************************************************************************)
LEMMA OwnStep ==
  ASSUME BaseInv, pc # "idle", cmd' = cmd, pc' \in StepsOf(cmd.op),
         pc' = "delIngress" /\ err' => cmd.force
  PROVE  OwnSteps'
<1>1. cmd.op \in {"create", "delete", "remove"}
  BY RunningCommand DEF BaseInv, TypeInv
<1>2. pc' # "idle"
  BY <1>1 DEF StepsOf, CreateSteps, DeleteSteps, RemoveSteps
<1> QED BY <1>2 DEF OwnSteps

(***************************************************************************)
(* The steps of the three load balancer methods.                           *)
(***************************************************************************)
LEMMA CreateSteppedOn ==
  ASSUME BaseInv, CreateLoadBalancer
  PROVE  OwnSteps' /\ cmd' = cmd /\ pc # "idle" /\ cmd.op = "create"
<1>1. pc \in CreateSteps /\ pc # "idle"
  BY DEF CreateLoadBalancer, createNodePorts, noIPAddress, createHealthChecks, getIGs,
     getNamedPorts, createBackendServices, createURLMap, createHTTPProxy, createRule,
     createSSLCert, createHTTPSProxy, createFirewall, CreateSteps
<1>2. cmd.op = "create"
  <2>1. cmd.op \in {"create", "delete", "remove"} /\ pc \in StepsOf(cmd.op)
    BY <1>1, RunningCommand DEF BaseInv, TypeInv, OwnSteps
  <2> QED BY <1>1, <2>1 DEF StepsOf, CreateSteps, DeleteSteps, RemoveSteps
<1>3. cmd' = cmd
  BY DEF CreateLoadBalancer, createNodePorts, readNodePorts, noIPAddress,
     createHealthChecks, getIGs, getIGsForCluster, getNamedPorts,
     createBackendServices, createURLMap, createHTTPProxy, createRule,
     createSSLCert, createHTTPSProxy, createFirewall, Record
<1>4. pc' \in CreateSteps \cup {"done"}
  <2>1. AfterHTTP \in CreateSteps
    BY DEF AfterHTTP, CreateSteps
  <2>2. AfterSyncer(TRUE) = "done"
    BY <1>2 DEF AfterSyncer
  <2> QED BY <1>1, <2>1, <2>2 DEF CreateLoadBalancer, createNodePorts, readNodePorts,
     noIPAddress, createHealthChecks, getIGs, getNamedPorts, createBackendServices,
     createURLMap, createHTTPProxy, createRule,
     createSSLCert, createHTTPSProxy, createFirewall, CreateSteps
<1>5. pc' \in StepsOf(cmd.op) /\ pc' # "delIngress"
  BY <1>2, <1>4 DEF StepsOf, CreateSteps
<1> QED BY <1>1, <1>2, <1>3, <1>5, OwnStep

\* The steps of delete.
LEMMA DeleteSteppedOn ==
  ASSUME BaseInv, DeleteLoadBalancer
  PROVE  OwnSteps' /\ cmd' = cmd /\ pc # "idle" /\ cmd.op = "delete"
<1> USE DEF DeleteLoadBalancer, deleteFirewall, deleteRules, deleteProxies,
     deleteCert, deleteURLMap, deletePorts, readNodePorts, deleteBackends,
     deleteHealthChecks
<1>1. pc \in DeleteSteps /\ pc # "idle"
  BY DEF DeleteSteps
<1>2. cmd.op = "delete"
  <2>1. cmd.op \in {"create", "delete", "remove"} /\ pc \in StepsOf(cmd.op)
    BY <1>1, RunningCommand DEF BaseInv, TypeInv, OwnSteps
  <2> QED BY <1>1, <2>1 DEF StepsOf, CreateSteps, DeleteSteps, RemoveSteps
<1>3. cmd' = cmd
  BY DEF Record
<1>4. /\ pc' \in DeleteSteps \cup {"delIngress", "done"}
      /\ pc' = "delIngress" /\ err' => cmd.force
  <2>1. CASE deleteFirewall \/ deleteRules \/ deleteProxies \/ deleteCert \/ deleteBackends
    BY <2>1 DEF DeleteSteps
  <2>2. CASE deleteURLMap \/ deletePorts
    BY <1>2, <2>2 DEF DeleteSteps, AfterSyncer
  <2>3. CASE deleteHealthChecks
    BY <1>2, <2>3 DEF AfterSyncer, Record
  <2> QED BY <2>1, <2>2, <2>3
<1>5. pc' \in StepsOf(cmd.op)
  BY <1>2, <1>4 DEF StepsOf
<1> QED BY <1>1, <1>2, <1>3, <1>4, <1>5, OwnStep

\* The steps of remove-clusters.
LEMMA RemoveSteppedOn ==
  ASSUME BaseInv, RemoveLoadBalancerFromClusters
  PROVE  OwnSteps' /\ cmd' = cmd /\ pc # "idle" /\ cmd.op = "remove"
<1> USE DEF RemoveLoadBalancerFromClusters, removeStatusCheck, removeNodePorts,
     readNodePorts, getIGs, getIGsForCluster, afterRemoveIGs, removeFromFirewall,
     removeFromBackends, removeFromStatus
<1>1. pc \in RemoveSteps /\ pc # "idle"
  BY DEF RemoveSteps
<1>2. cmd.op = "remove"
  <2>1. cmd.op \in {"create", "delete", "remove"} /\ pc \in StepsOf(cmd.op)
    BY <1>1, RunningCommand DEF BaseInv, TypeInv, OwnSteps
  <2> QED BY <1>1, <2>1 DEF StepsOf, CreateSteps, DeleteSteps, RemoveSteps
<1>3. cmd' = cmd
  BY DEF Record
<1>4. /\ pc' \in RemoveSteps \cup {"delIngress", "done"}
      /\ pc' = "delIngress" /\ err' => cmd.force
  <2>1. CASE removeNodePorts \/ removeStatusCheck
    BY <1>2, <2>1 DEF RemoveSteps, AfterSyncer
  <2>2. CASE getIGs("rmIGs") \/ afterRemoveIGs \/ removeFromFirewall \/ removeFromBackends
    BY <2>2 DEF RemoveSteps
  <2>3. CASE removeFromStatus
    BY <1>2, <2>3 DEF AfterSyncer, Record
  <2> QED BY <2>1, <2>2, <2>3
<1>5. pc' \in StepsOf(cmd.op)
  BY <1>2, <1>4 DEF StepsOf
<1> QED BY <1>1, <1>2, <1>3, <1>4, <1>5, OwnStep

(***************************************************************************)
(* The remaining steps of the commands.                                    *)
(***************************************************************************)
LEMMA OtherSteppedOn ==
  ASSUME BaseInv, createValidate \/ createIngress \/ deleteIngress
  PROVE  /\ OwnSteps' /\ cmd' = cmd /\ pc # "idle"
         /\ createValidate \/ createIngress => cmd.op = "create"
         /\ deleteIngress => cmd.op # "create"
<1> USE DEF createValidate, createIngress, deleteIngress
<1>1. pc \in {"validate", "ensureIngress", "delIngress"} /\ cmd' = cmd
  BY DEF Record
<1>2. cmd.op \in {"create", "delete", "remove"} /\ pc \in StepsOf(cmd.op)
  BY <1>1, RunningCommand DEF BaseInv, TypeInv, OwnSteps
<1>3. /\ createValidate \/ createIngress => cmd.op = "create"
      /\ deleteIngress => cmd.op # "create"
  BY <1>1, <1>2 DEF StepsOf, CreateSteps, DeleteSteps, RemoveSteps
<1>4. pc' \in {"ensureIngress", "nodePorts", "done"}
      /\ (deleteIngress => pc' = "done")
  OBVIOUS
<1>5. pc' \in StepsOf(cmd.op) /\ pc' # "delIngress"
  <2>1. CASE createValidate \/ createIngress
    BY <1>3, <1>4, <2>1 DEF StepsOf, CreateSteps
  <2>2. CASE deleteIngress
    BY <1>2, <1>3, <1>4, <2>2 DEF StepsOf
  <2> QED BY <2>1, <2>2
<1> QED BY <1>1, <1>3, <1>5, OwnStep

-----------------------------------------------------------------------------
(***************************************************************************)
(* The kinds of steps.  A command ends; a controller or the user makes a   *)
(* step that leaves the load balancer and the command alone; or the running *)
(* command makes one of its own steps.                                     *)
(***************************************************************************)
Ends ==
  /\ pc' = "idle" /\ err' = FALSE /\ fault' = FALSE
  /\ UNCHANGED <<cloud, ing, nodePort>>

Annotated(c) ==
  /\ ing[c] # None /\ ing[c].igs = {}
  /\ ing'[c] # None /\ ing'[c].spec = ing[c].spec
  /\ ing'[c].igs \subseteq IGsOf[c]

Bystander ==
  /\ UNCHANGED <<cloud, pc, cmd, err, fault, loc>>
  /\ \A c \in Clusters : ing'[c] = ing[c] \/ Annotated(c)

CreateStep == createValidate \/ createIngress \/ CreateLoadBalancer

OwnStepOf(op) ==
  CASE op = "create" -> CreateStep
    [] op = "delete" -> DeleteLoadBalancer \/ deleteIngress
    [] op = "remove" -> RemoveLoadBalancerFromClusters \/ deleteIngress

(***************************************************************************)
(* The steps of the others.                                                *)
(***************************************************************************)
LEMMA BystanderStep ==
  ASSUME TypeInv,
         \/ \E c \in Clusters : Annotate(c)
         \/ ChangeServices
         \/ UNCHANGED vars
  PROVE  Bystander
<1>1. ASSUME NEW c \in Clusters, Annotate(c)
      PROVE  Bystander
  <2>1. PICK igs \in (SUBSET IGsOf[c]) \ {{}} : ing' = [ing EXCEPT ![c].igs = igs]
    BY <1>1 DEF Annotate
  <2>2. /\ ing \in [Clusters -> Ings] /\ ing[c] \in Ingresses
        /\ ing[c] # None /\ ing[c].igs = {}
    BY <1>1 DEF Annotate, TypeInv, TypeOK, IngressTypeOK, Ings
  <2>3. ing'[c] \in Ingresses /\ ing'[c].spec = ing[c].spec /\ ing'[c].igs = igs
    <3>1. igs \in SUBSET InstanceGroups
      BY <2>1, ConfigAssumption
    <3> QED BY <2>1, <2>2, <3>1 DEF Ingresses
  <2>4. Annotated(c)
    BY <2>1, <2>2, <2>3, NoneIsNoResource DEF Annotated
  <2>5. \A d \in Clusters : d # c => ing'[d] = ing[d]
    BY <2>1, <2>2
  <2> QED BY <1>1, <2>4, <2>5 DEF Annotate, Bystander
<1>2. CASE ChangeServices \/ UNCHANGED vars
  BY <1>2 DEF ChangeServices, vars, Bystander, cloud
<1> QED BY <1>1, <1>2

(***************************************************************************)
(* Every step is of one of these kinds.                                    *)
(***************************************************************************)
LEMMA StepKinds ==
  ASSUME BaseInv, [Next]_vars
  PROVE  \/ \E c \in Commands : Run(c)
         \/ pc # "idle" /\ Ends
         \/ Bystander
         \/ pc # "idle" /\ cmd' = cmd /\ OwnStepOf(cmd.op)
<1>1. CASE LoadBalancerStep
  <2>1. CASE CreateLoadBalancer
    BY <2>1, CreateSteppedOn DEF OwnStepOf, CreateStep
  <2>2. CASE DeleteLoadBalancer
    BY <2>2, DeleteSteppedOn DEF OwnStepOf
  <2>3. CASE RemoveLoadBalancerFromClusters
    BY <2>3, RemoveSteppedOn DEF OwnStepOf
  <2> QED BY <1>1, <2>1, <2>2, <2>3 DEF LoadBalancerStep
<1>2. CASE createValidate \/ createIngress
  BY <1>2, OtherSteppedOn DEF OwnStepOf, CreateStep
<1>3. CASE deleteIngress
  <2>1. cmd.op \in {"delete", "remove"} /\ pc # "idle" /\ cmd' = cmd
    BY <1>3, OtherSteppedOn, RunningCommand DEF BaseInv, TypeInv
  <2> QED BY <1>3, <2>1 DEF OwnStepOf
<1>4. CASE Return \/ Crash
  BY <1>4 DEF Return, Crash, Ends
<1> QED BY <1>1, <1>2, <1>3, <1>4, BystanderStep DEF Next, CommandStep, BaseInv

(***************************************************************************)
(* OwnSteps holds throughout.                                              *)
(***************************************************************************)
LEMMA InitBase ==
  Init => BaseInv
<1>1. Init => OwnSteps
  BY DEF Init, Idle, OwnSteps
<1> QED BY <1>1, InitType DEF BaseInv

\* BaseInv is inductive.
LEMMA NextBase ==
  BaseInv /\ [Next]_vars => BaseInv'
<1> SUFFICES ASSUME BaseInv, [Next]_vars PROVE OwnSteps'
  BY NextType DEF BaseInv
<1>1. ASSUME NEW c \in Commands, Run(c) PROVE OwnSteps'
  <2>1. c.op \in {"create", "delete", "remove"}
    BY ConfigAssumption DEF CommandType
  <2>2. /\ pc = "idle" /\ cmd' = c /\ pc' = FirstStep(c)
        /\ err' = err /\ fault' = fault
    BY <1>1 DEF Run
  <2> QED BY <2>1, <2>2 DEF BaseInv, OwnSteps, FirstStep, StepsOf, DeleteSteps, RemoveSteps
<1>2. CASE pc # "idle" /\ Ends
  BY <1>2 DEF Ends, OwnSteps
<1>3. CASE Bystander
  BY <1>3 DEF Bystander, BaseInv, OwnSteps
<1>4. CASE pc # "idle" /\ OwnStepOf(cmd.op)
  <2>1. cmd.op \in {"create", "delete", "remove"}
    BY <1>4, RunningCommand DEF BaseInv, TypeInv
  <2> QED BY <1>4, <2>1, CreateSteppedOn, DeleteSteppedOn, RemoveSteppedOn,
          OtherSteppedOn DEF OwnStepOf, CreateStep
<1> QED BY <1>1, <1>2, <1>3, <1>4, StepKinds

-----------------------------------------------------------------------------
(***************************************************************************)
(* Delete.  As long as it has met no error, a delete has removed what the  *)
(* steps behind it remove; and while no call fails it meets no error: what *)
(* could still use a resource was removed before it.                       *)
(***************************************************************************)
Deleting == pc # "idle" /\ cmd.op = "delete"

DeletedSoFar ==
  /\ pc # "delFirewall" => fw = None /\ cmd.clusters # {}
  /\ pc \notin {"delFirewall", "delRules"} => \A q \in Protocols : fr[q] = None
  /\ pc \notin {"delFirewall", "delRules", "delProxies"} =>
       \A q \in Protocols : tp[q] = None
  /\ pc \in {"delURLMap", "delPorts", "delBackends", "delHealthChecks",
             "delIngress", "done"} => cert = None
  /\ pc \in {"delPorts", "delBackends", "delHealthChecks", "delIngress", "done"} =>
       um = None
  /\ pc \in {"delHealthChecks", "delIngress", "done"} =>
       \A p \in NodePorts : loc.ports[p] # None => be[p] = None
  /\ pc \in {"delIngress", "done"} =>
       \A p \in NodePorts : loc.ports[p] # None => hc[p] = None
  /\ pc = "done" => \A c \in cmd.clusters : ing[c] = None

DeleteInv ==
  /\ Deleting /\ ~err => DeletedSoFar
  /\ Deleting /\ ~fault /\ cmd.clusters # {} => ~err

(***************************************************************************)
(* The firewall rule goes first.                                           *)
(***************************************************************************)
LEMMA deleteFirewallDeletes ==
  ASSUME BaseInv, DeleteInv, Deleting, deleteFirewall
  PROVE  DeleteInv'
<1>1. pc = "delFirewall" /\ pc' \in {"delRules", "done"} /\ cmd' = cmd
  BY DEF deleteFirewall, Record
<1>2. CASE cmd.clusters = {} /\ ~cmd.force /\ Record(TRUE, FALSE)
  BY <1>1, <1>2, Recorded DEF DeleteInv
<1>3. CASE /\ pc' = "delRules"
           /\ \E o \in DeleteFirewallRules :
                fw' = o.res /\ Record(o.err \/ cmd.clusters = {}, o.fault)
  <2>1. PICK o \in DeleteFirewallRules :
          fw' = o.res /\ Record(o.err \/ cmd.clusters = {}, o.fault)
    BY <1>3
  <2>2. (~o.err => o.res = None) /\ (o.err => o.fault)
    BY <2>1, DeleteFirewallRulesOutcome DEF BaseInv, TypeInv, TypeOK
  <2>3. err' = (err \/ o.err \/ cmd.clusters = {}) /\ fault' = (fault \/ o.fault)
    BY <2>1 DEF Record
  <2>4. ~err' => fw' = None /\ cmd.clusters # {}
    BY <2>1, <2>2, <2>3
  <2> QED BY <1>1, <1>3, <2>2, <2>3, <2>4 DEF DeleteInv, Deleting, DeletedSoFar
<1> QED BY <1>2, <1>3 DEF deleteFirewall

(***************************************************************************)
(* Nothing uses the forwarding rules.                                      *)
(***************************************************************************)
LEMMA deleteRulesDeletes ==
  ASSUME BaseInv, DeleteInv, Deleting, deleteRules
  PROVE  DeleteInv'
<1>1. /\ pc = "delRules" /\ pc' = "delProxies" /\ cmd' = cmd
      /\ UNCHANGED fw
  BY DEF deleteRules, Record
<1>2. PICK o \in DeleteForwardingRules : fr' = Results(o) /\ Record(AnyErr(o), AnyFault(o))
  BY DEF deleteRules
<1>3. /\ ~AnyErr(o) => \A q \in Protocols : Results(o)[q] = None
      /\ AnyErr(o) => AnyFault(o)
  BY DeleteForwardingRulesOutcome DEF BaseInv, TypeInv, TypeOK
<1>4. err' = (err \/ AnyErr(o)) /\ fault' = (fault \/ AnyFault(o))
  BY <1>2, Recorded
<1> QED BY <1>1, <1>2, <1>3, <1>4 DEF DeleteInv, Deleting, DeletedSoFar

(***************************************************************************)
(* The rules that point to the proxies are gone.                           *)
(***************************************************************************)
LEMMA deleteProxiesDeletes ==
  ASSUME BaseInv, DeleteInv, Deleting, deleteProxies
  PROVE  DeleteInv'
<1>1. /\ pc = "delProxies" /\ pc' = "delCert" /\ cmd' = cmd
      /\ UNCHANGED <<fw, fr>>
  BY DEF deleteProxies, Record
<1>2. PICK o \in DeleteTargetProxies(TargetProxiesInUse) :
        tp' = Results(o) /\ Record(AnyErr(o), AnyFault(o))
  BY DEF deleteProxies
<1>3. /\ ~AnyErr(o) => \A q \in Protocols : Results(o)[q] = None
      /\ AnyErr(o) => AnyFault(o) \/ \E q \in Protocols : q \in TargetProxiesInUse
  BY DeleteTargetProxiesOutcome DEF BaseInv, TypeInv, TypeOK
<1>4. err' = (err \/ AnyErr(o)) /\ fault' = (fault \/ AnyFault(o))
  BY <1>2, Recorded
<1>5. ~err => TargetProxiesInUse = {}
  BY <1>1 DEF DeleteInv, Deleting, DeletedSoFar, TargetProxiesInUse
<1> QED BY <1>1, <1>2, <1>3, <1>4, <1>5 DEF DeleteInv, Deleting, DeletedSoFar

(***************************************************************************)
(* The proxy that uses the certificate is gone.                            *)
(***************************************************************************)
LEMMA deleteCertDeletes ==
  ASSUME BaseInv, DeleteInv, Deleting, deleteCert
  PROVE  DeleteInv'
<1>1. /\ pc = "delCert" /\ pc' = "delURLMap" /\ cmd' = cmd
      /\ UNCHANGED <<fw, fr, tp>>
  BY DEF deleteCert, Record
<1>2. PICK o \in DeleteSSLCert(OwnCertInUse) : cert' = o.res /\ Record(o.err, o.fault)
  BY DEF deleteCert
<1>3. /\ ~o.err => o.res = None
      /\ o.err => o.fault \/ OwnCertInUse
  BY DeleteSSLCertOutcome DEF BaseInv, TypeInv, TypeOK
<1>4. err' = (err \/ o.err) /\ fault' = (fault \/ o.fault)
  BY <1>2, Recorded
<1>5. ~err => ~OwnCertInUse
  BY <1>1 DEF DeleteInv, Deleting, DeletedSoFar, OwnCertInUse, Protocols
<1> QED BY <1>1, <1>2, <1>3, <1>4, <1>5 DEF DeleteInv, Deleting, DeletedSoFar

(***************************************************************************)
(* The proxies that point to the url map are gone.  Without a client the   *)
(* command ends here, with the error that it has had since the start.      *)
(***************************************************************************)
LEMMA deleteURLMapDeletes ==
  ASSUME BaseInv, DeleteInv, Deleting, deleteURLMap
  PROVE  DeleteInv'
<1>1. /\ pc = "delURLMap" /\ cmd' = cmd /\ pc' \in {"done", "delIngress", "delPorts"}
      /\ cmd.clusters # {} => pc' = "delPorts"
      /\ UNCHANGED <<fw, fr, tp, cert>>
  BY AfterSyncerType DEF deleteURLMap, Record
<1>2. PICK o \in DeleteURLMap(URLMapInUse) : um' = o.res /\ Record(o.err, o.fault)
  BY DEF deleteURLMap
<1>3. /\ ~o.err => o.res = None
      /\ o.err => o.fault \/ URLMapInUse
  BY DeleteURLMapOutcome DEF BaseInv, TypeInv, TypeOK
<1>4. err' = (err \/ o.err) /\ fault' = (fault \/ o.fault)
  BY <1>2, Recorded
<1>5. ~err => ~URLMapInUse
  BY <1>1 DEF DeleteInv, Deleting, DeletedSoFar, URLMapInUse
<1> QED BY <1>1, <1>2, <1>3, <1>4, <1>5 DEF DeleteInv, Deleting, DeletedSoFar

(***************************************************************************)
(* The ports are read from a cluster; what the API server does not return  *)
(* is left out.                                                            *)
(***************************************************************************)
LEMMA deletePortsDeletes ==
  ASSUME BaseInv, DeleteInv, Deleting, deletePorts
  PROVE  DeleteInv'
<1>1. pc = "delPorts" /\ cmd' = cmd /\ UNCHANGED cloud
  BY DEF deletePorts, readNodePorts, Record
<1>2. CASE cmd.clusters = {} /\ Record(TRUE, FALSE)
  BY <1>1, <1>2, Recorded DEF DeleteInv
<1>3. ASSUME NEW c \in cmd.clusters, NEW r \in ingToNodePorts(cmd.spec, c),
             pc' = "delBackends", Record(FALSE, r.fault)
      PROVE  DeleteInv'
  <2>1. err' = err /\ (~fault' => ~fault)
    BY <1>3, Recorded DEF BaseInv, TypeInv, TypeOK
  <2> QED BY <1>1, <1>3, <2>1 DEF DeleteInv, Deleting, DeletedSoFar, cloud
<1> QED BY <1>2, <1>3 DEF deletePorts, readNodePorts

(***************************************************************************)
(* The url map that points to the backend services is gone.                *)
(***************************************************************************)
LEMMA deleteBackendsDeletes ==
  ASSUME BaseInv, DeleteInv, Deleting, deleteBackends
  PROVE  DeleteInv'
<1>1. /\ pc = "delBackends" /\ pc' = "delHealthChecks" /\ cmd' = cmd
      /\ UNCHANGED <<fw, fr, tp, cert, um, loc>>
  BY DEF deleteBackends, Record
<1>2. PICK o \in DeleteBackendServices(loc.ports, BackendServicesInUse) :
        be' = Results(o) /\ Record(AnyErr(o), AnyFault(o))
  BY DEF deleteBackends
<1>3. /\ \A p \in NodePorts : loc.ports[p] # None /\ ~AnyErr(o) => Results(o)[p] = None
      /\ AnyErr(o) => AnyFault(o) \/ BackendServicesInUse # {}
  BY DeleteBackendServicesOutcome DEF BaseInv, TypeInv, TypeOK
<1>4. err' = (err \/ AnyErr(o)) /\ fault' = (fault \/ AnyFault(o))
  BY <1>2, Recorded
<1>5. ~err => BackendServicesInUse = {}
  BY <1>1 DEF DeleteInv, Deleting, DeletedSoFar, BackendServicesInUse
<1> QED BY <1>1, <1>2, <1>3, <1>4, <1>5 DEF DeleteInv, Deleting, DeletedSoFar

(***************************************************************************)
(* The backend services that point to the health checks are gone.          *)
(***************************************************************************)
LEMMA deleteHealthChecksDeletes ==
  ASSUME BaseInv, DeleteInv, Deleting, deleteHealthChecks
  PROVE  DeleteInv'
<1>1. /\ pc = "delHealthChecks" /\ cmd' = cmd
      /\ UNCHANGED <<fw, fr, tp, cert, um, be, loc>>
  BY DEF deleteHealthChecks, Record
<1>2. PICK o \in DeleteHealthChecks(loc.ports, HealthChecksInUse) :
        /\ hc' = Results(o) /\ Record(AnyErr(o), AnyFault(o))
        /\ pc' = AfterSyncer(err \/ AnyErr(o))
  BY DEF deleteHealthChecks
<1>3. /\ \A p \in NodePorts : loc.ports[p] # None /\ ~AnyErr(o) => Results(o)[p] = None
      /\ AnyErr(o) => \/ AnyFault(o)
                      \/ \E p \in NodePorts : loc.ports[p] # None /\ p \in HealthChecksInUse
  BY DeleteHealthChecksOutcome DEF BaseInv, TypeInv, TypeOK
<1>4. err' = (err \/ AnyErr(o)) /\ fault' = (fault \/ AnyFault(o))
  BY <1>2, Recorded
<1>5. ~err => \A p \in NodePorts : loc.ports[p] # None => p \notin HealthChecksInUse
  BY <1>1 DEF DeleteInv, Deleting, DeletedSoFar, HealthChecksInUse
<1>6. ~err' => pc' = "delIngress"
  BY <1>2, <1>4 DEF AfterSyncer, Deleting
<1> QED BY <1>1, <1>2, <1>3, <1>4, <1>5, <1>6 DEF DeleteInv, Deleting, DeletedSoFar

(***************************************************************************)
(* The ingresses go last.                                                  *)
(***************************************************************************)
LEMMA deleteIngressDeletes ==
  ASSUME BaseInv, DeleteInv, Deleting, deleteIngress
  PROVE  DeleteInv'
<1>1. /\ pc = "delIngress" /\ pc' = "done" /\ cmd' = cmd
      /\ UNCHANGED <<fw, fr, tp, cert, um, be, hc, loc>>
  BY DEF deleteIngress, Record, cloud
<1>2. PICK o \in DeleteIngress(cmd.clusters) :
        ing' = Results(o) /\ Record(AnyErr(o), AnyFault(o))
  BY DEF deleteIngress
<1>3. /\ \A c \in Clusters : c \in cmd.clusters /\ ~AnyErr(o) => Results(o)[c] = None
      /\ AnyErr(o) => AnyFault(o)
  BY DeleteIngressOutcome DEF BaseInv, TypeInv, TypeOK
<1>4. err' = (err \/ AnyErr(o)) /\ fault' = (fault \/ AnyFault(o))
  BY <1>2, Recorded
<1>5. cmd.clusters \subseteq Clusters
  BY <1>1, RunningCommand DEF BaseInv, TypeInv
<1> QED BY <1>1, <1>2, <1>3, <1>4, <1>5 DEF DeleteInv, Deleting, DeletedSoFar

(***************************************************************************)
(* DeleteInv is inductive.                                                 *)
(***************************************************************************)
LEMMA InitDelete ==
  Init => DeleteInv
BY DEF Init, Idle, DeleteInv, Deleting

\* DeleteInv is inductive.
LEMMA NextDelete ==
  BaseInv /\ DeleteInv /\ [Next]_vars => DeleteInv'
<1> SUFFICES ASSUME BaseInv, DeleteInv, [Next]_vars PROVE DeleteInv'
  OBVIOUS
<1>1. ASSUME NEW c \in Commands, Run(c) PROVE DeleteInv'
  <2>1. c.op \in {"create", "delete", "remove"}
    BY ConfigAssumption DEF CommandType
  <2>2. pc = "idle" /\ cmd' = c /\ pc' = FirstStep(c) /\ err' = err /\ fault' = fault
    BY <1>1 DEF Run
  <2>3. ~err /\ ~fault
    BY <2>2 DEF BaseInv, OwnSteps
  <2> QED BY <2>1, <2>2, <2>3 DEF DeleteInv, Deleting, DeletedSoFar, FirstStep
<1>2. CASE pc # "idle" /\ Ends
  BY <1>2 DEF Ends, DeleteInv, Deleting
<1>3. CASE Bystander
  <2>1. DeletedSoFar /\ Deleting => DeletedSoFar'
    <3>1. pc # "idle" => cmd.clusters \subseteq Clusters
      BY RunningCommand DEF BaseInv, TypeInv
    <3> QED BY <1>3, <3>1 DEF Bystander, Annotated, DeletedSoFar, Deleting, cloud
  <2> QED BY <1>3, <2>1 DEF Bystander, DeleteInv, Deleting
<1>4. CASE pc # "idle" /\ cmd' = cmd /\ OwnStepOf(cmd.op)
  <2>1. CASE cmd.op = "delete"
    <3>1. Deleting /\ (DeleteLoadBalancer \/ deleteIngress)
      BY <1>4, <2>1 DEF Deleting, OwnStepOf
    <3> QED BY <3>1, deleteFirewallDeletes, deleteRulesDeletes, deleteProxiesDeletes,
            deleteCertDeletes, deleteURLMapDeletes, deletePortsDeletes,
            deleteBackendsDeletes, deleteHealthChecksDeletes, deleteIngressDeletes
            DEF DeleteLoadBalancer
  <2>2. CASE cmd.op # "delete"
    BY <1>4, <2>2 DEF DeleteInv, Deleting
  <2> QED BY <2>1, <2>2
<1> QED BY <1>1, <1>2, <1>3, <1>4, StepKinds

(***************************************************************************)
(* DeleteCompletes: a delete that reports success has removed the rules,   *)
(* the proxies, the certificate, the url map, the firewall rule, the       *)
(* backend services and health checks of the ports it found and the        *)
(* ingresses of its clusters, whatever it started from.                    *)
(***************************************************************************)
THEOREM DeleteCompletes ==
  Spec => []DeleteComplete
<1>1. BaseInv /\ DeleteInv => DeleteComplete
  BY DEF DeleteInv, Deleting, DeletedSoFar, DeleteComplete, Done
<1> QED BY <1>1, InitBase, NextBase, InitDelete, NextDelete, PTL DEF Spec

(***************************************************************************)
(* DeletesInOrder: a delete with a client whose calls do not fail never    *)
(* reports an error, because each resource goes after those that use it.   *)
(***************************************************************************)
THEOREM DeletesInOrder ==
  Spec => []DeleteInOrder
<1>1. BaseInv /\ DeleteInv => DeleteInOrder
  BY DEF DeleteInv, Deleting, DeleteInOrder, Done
<1> QED BY <1>1, InitBase, NextBase, InitDelete, NextDelete, PTL DEF Spec

-----------------------------------------------------------------------------
(***************************************************************************)
(* What getIGs has collected.  The instance groups that a command holds of *)
(* a cluster are those of the annotation, until the command has deleted    *)
(* the ingress; and unless it has met an error it has those of every       *)
(* cluster it has asked.                                                   *)
(***************************************************************************)
AskedAll ==
  \/ pc \in {"backendService", "urlMap", "httpProxy", "httpRule", "sslCert",
             "httpsProxy", "httpsRule", "firewall",
             "rmFirewall", "rmBackends", "rmStatus"}
  \/ pc \in {"delIngress", "done"} /\ cmd.op # "delete" /\ ~err

IGsKnown ==
  /\ loc.todo \subseteq cmd.clusters
  /\ \A c \in Clusters : loc.igs[c] # {} =>
       /\ c \in cmd.clusters
       /\ pc # "done" => ing[c] # None /\ ing[c].igs = loc.igs[c]
  /\ ~err => \A c \in cmd.clusters : c \notin loc.todo => loc.igs[c] # {}
  /\ pc \in {"validate", "ensureIngress"} => \A c \in Clusters : loc.igs[c] = {}
  /\ AskedAll => loc.todo = {}

IGsInv == pc # "idle" => IGsKnown

(***************************************************************************)
(* A step that asks no cluster and touches no ingress that was found.      *)
(***************************************************************************)
LEMMA IGsKept ==
  ASSUME BaseInv, IGsInv, pc # "idle", cmd' = cmd, err => err',
         loc'.todo = loc.todo, loc'.igs = loc.igs,
         pc' \notin {"idle", "validate"}, pc' = "ensureIngress" => pc = "validate",
         \A c \in Clusters :
            loc.igs[c] # {} /\ pc' # "done" => pc # "done" /\ ing'[c] = ing[c],
         AskedAll' => loc.todo = {}
  PROVE  IGsInv'
BY DEF IGsInv, IGsKnown

(***************************************************************************)
(* The steps of create.                                                    *)
(***************************************************************************)
LEMMA CreateKeepsIGs ==
  ASSUME BaseInv, IGsInv, createValidate \/ createIngress
  PROVE  IGsInv'
<1>1. /\ pc \in {"validate", "ensureIngress"} /\ cmd' = cmd /\ loc' = loc
      /\ err => err'
  BY DEF createValidate, createIngress, Record
<1>2. pc' \in {"ensureIngress", "nodePorts", "done"} /\ (pc' = "done" => err')
  BY DEF createValidate, createIngress, Record
<1>3. ~AskedAll'
  BY <1>2 DEF AskedAll
<1>4. \A c \in Clusters : loc.igs[c] = {}
  BY <1>1 DEF IGsInv, IGsKnown
<1>5. pc' = "ensureIngress" => pc = "validate"
  BY DEF createValidate, createIngress
<1> QED BY <1>1, <1>2, <1>3, <1>4, <1>5, IGsKept

(***************************************************************************)
(* The answers of getIGs.                                                  *)
(***************************************************************************)
LEMMA getIGsAnswer ==
  ASSUME BaseInv, IGsInv, NEW here \in {"getIGs", "rmIGs"}, getIGs(here)
  PROVE  /\ IGsInv'
         /\ pc = here /\ pc' = pc /\ cmd' = cmd /\ UNCHANGED <<cloud, ing, nodePort>>
         /\ err => err'
         /\ loc' = [loc EXCEPT !.igs = loc'.igs, !.todo = loc'.todo]
         /\ fault => fault'
         /\ err' => err \/ fault' \/ \E c \in cmd.clusters : ing[c] = None
<1>1. /\ pc = here /\ pc' = pc /\ UNCHANGED <<cloud, ing, nodePort>>
      /\ pc # "idle" /\ loc \in Locals
  BY DEF getIGs, BaseInv, TypeInv, TypeOK
<1>2. PICK c \in loc.todo : getIGsForCluster(c)
  BY DEF getIGs
<1>3. c \in cmd.clusters /\ c \in Clusters /\ cmd.clusters \subseteq Clusters
  BY <1>1, <1>2, RunningCommand DEF IGsInv, IGsKnown, BaseInv, TypeInv
<1>4. ~AskedAll'
  BY <1>1 DEF AskedAll
<1>5. CASE /\ ing[c] # None /\ ing[c].igs # {}
           /\ loc' = [loc EXCEPT !.igs[c] = ing[c].igs, !.todo = @ \ {c}]
           /\ Record(FALSE, FALSE)
  <2>1. cmd' = cmd /\ err' = err /\ fault' = fault
    BY <1>5, Recorded DEF BaseInv, TypeInv, TypeOK
  <2>2. /\ loc'.todo = loc.todo \ {c}
        /\ loc'.igs = [loc.igs EXCEPT ![c] = ing[c].igs]
        /\ loc' = [loc EXCEPT !.igs = loc'.igs, !.todo = loc'.todo]
    BY <1>1, <1>5 DEF Locals
  <2>3. IGsKnown'
    BY <1>1, <1>3, <1>4, <1>5, <2>1, <2>2 DEF IGsInv, IGsKnown, Locals
  <2> QED BY <1>1, <2>1, <2>2, <2>3 DEF IGsInv
<1>6. CASE /\ loc' = [loc EXCEPT !.todo = @ \ {c}]
           /\ Record(TRUE, ing[c] # None)
  <2>1. cmd' = cmd /\ err' /\ fault' = (fault \/ ing[c] # None)
    BY <1>6 DEF Record
  <2>2. /\ loc'.todo = loc.todo \ {c} /\ loc'.igs = loc.igs
        /\ loc' = [loc EXCEPT !.igs = loc'.igs, !.todo = loc'.todo]
    BY <1>1, <1>6 DEF Locals
  <2>3. IGsKnown'
    BY <1>1, <1>3, <1>4, <2>1, <2>2 DEF IGsInv, IGsKnown
  <2> QED BY <1>1, <1>3, <2>1, <2>2, <2>3 DEF IGsInv
<1> QED BY <1>2, <1>5, <1>6 DEF getIGsForCluster

(***************************************************************************)
(* The other steps of CreateLoadBalancer.                                  *)
(***************************************************************************)
LEMMA CreateLBKeepsIGs ==
  ASSUME BaseInv, IGsInv, CreateLoadBalancer
  PROVE  IGsInv'
<1>1. CASE getIGs("getIGs")
  BY <1>1, getIGsAnswer
<1>2. CASE ~getIGs("getIGs")
  <2> USE DEF createNodePorts, readNodePorts, noIPAddress, createHealthChecks,
        getNamedPorts, createBackendServices, createURLMap, createHTTPProxy,
        createRule, createSSLCert, createHTTPSProxy, createFirewall
  <2>1. pc \in CreateSteps /\ cmd' = cmd /\ pc # "idle" /\ cmd.op = "create"
    BY <1>2, CreateSteppedOn DEF CreateLoadBalancer, CreateSteps
  <2>2. loc \in Locals
    BY DEF BaseInv, TypeInv, TypeOK
  <2>3. loc'.todo = loc.todo /\ loc'.igs = loc.igs
    BY <1>2, <2>2 DEF CreateLoadBalancer, Locals
  <2>4. (err => err') /\ ing' = ing
    BY <1>2 DEF CreateLoadBalancer, Record
  <2>5. pc' \in CreateSteps \cup {"done"} /\ pc' # "nodePorts" /\ pc # "done"
    <3>1. AfterHTTP \in {"sslCert", "firewall"} /\ AfterSyncer(TRUE) = "done"
      BY <2>1 DEF AfterHTTP, AfterSyncer
    <3> QED BY <1>2, <2>1, <3>1 DEF CreateLoadBalancer, CreateSteps
  <2>6. AskedAll' => AskedAll \/ loc.todo = {}
    <3>1. CASE createNodePorts \/ noIPAddress \/ createHealthChecks
      <4>1. AfterSyncer(TRUE) = "done"
        BY <2>1 DEF AfterSyncer
      <4> QED BY <2>1, <3>1, <4>1 DEF AskedAll, Record
    <3>2. CASE getNamedPorts
      BY <3>2
    <3>3. CASE pc \in {"backendService", "urlMap", "httpProxy", "httpRule", "sslCert",
                       "httpsProxy", "httpsRule", "firewall"}
      BY <3>3 DEF AskedAll
    <3> QED BY <1>2, <3>1, <3>2, <3>3 DEF CreateLoadBalancer
  <2>7. pc' \notin {"idle", "validate", "ensureIngress"}
    BY <2>5 DEF CreateSteps
  <2>8. AskedAll => loc.todo = {}
    BY <2>1 DEF IGsInv, IGsKnown
  <2> QED BY <2>1, <2>3, <2>4, <2>5, <2>6, <2>7, <2>8, IGsKept
<1> QED BY <1>1, <1>2

(***************************************************************************)
(* The steps of DeleteLoadBalancer and the deletion of the ingress.        *)
(***************************************************************************)
LEMMA DeleteKeepsIGs ==
  ASSUME BaseInv, IGsInv, DeleteLoadBalancer \/ deleteIngress
  PROVE  IGsInv'
<1> USE DEF deleteFirewall, deleteRules, deleteProxies, deleteCert, deleteURLMap,
     deletePorts, readNodePorts, deleteBackends, deleteHealthChecks
<1>1. CASE DeleteLoadBalancer
  <2>1. cmd' = cmd /\ pc # "idle" /\ cmd.op = "delete"
    BY <1>1, DeleteSteppedOn
  <2>2. loc \in Locals
    BY DEF BaseInv, TypeInv, TypeOK
  <2>3. loc'.todo = loc.todo /\ loc'.igs = loc.igs
    BY <1>1, <2>2 DEF DeleteLoadBalancer, Locals
  <2>4. (err => err') /\ ing' = ing /\ pc # "done"
    BY <1>1 DEF DeleteLoadBalancer, Record
  <2>5. pc' \in DeleteSteps \cup {"done", "delIngress"}
    BY <1>1, AfterSyncerType DEF DeleteLoadBalancer, DeleteSteps
  <2>6. ~AskedAll' /\ pc' \notin {"idle", "validate", "ensureIngress"}
    BY <2>1, <2>5 DEF AskedAll, DeleteSteps
  <2> QED BY <2>1, <2>3, <2>4, <2>6, IGsKept
<1>2. CASE deleteIngress
  <2>1. /\ pc = "delIngress" /\ pc' = "done" /\ cmd' = cmd /\ loc' = loc
        /\ err => err'
    BY <1>2 DEF deleteIngress, Record
  <2>2. AskedAll' => AskedAll
    BY <2>1 DEF AskedAll
  <2>3. AskedAll => loc.todo = {}
    BY <2>1 DEF IGsInv, IGsKnown
  <2> QED BY <2>1, <2>2, <2>3, IGsKept
<1> QED BY <1>1, <1>2

(***************************************************************************)
(* The steps of RemoveFromClusters.                                        *)
(***************************************************************************)
LEMMA RemoveKeepsIGs ==
  ASSUME BaseInv, IGsInv, RemoveLoadBalancerFromClusters
  PROVE  IGsInv'
<1>1. CASE getIGs("rmIGs")
  BY <1>1, getIGsAnswer
<1>2. CASE ~getIGs("rmIGs")
  <2> USE DEF removeStatusCheck, removeNodePorts, readNodePorts, afterRemoveIGs,
        removeFromFirewall, removeFromBackends, removeFromStatus
  <2>1. cmd' = cmd /\ pc # "idle" /\ cmd.op = "remove"
    BY RemoveSteppedOn
  <2>2. loc \in Locals
    BY DEF BaseInv, TypeInv, TypeOK
  <2>3. loc'.todo = loc.todo /\ loc'.igs = loc.igs
    BY <1>2, <2>2 DEF RemoveLoadBalancerFromClusters, Locals
  <2>4. (err => err') /\ ing' = ing /\ pc # "done"
    BY <1>2 DEF RemoveLoadBalancerFromClusters, Record
  <2>5. pc' \in RemoveSteps \cup {"done", "delIngress"}
    BY <1>2, AfterSyncerType DEF RemoveLoadBalancerFromClusters, RemoveSteps
  <2>6. AskedAll' => AskedAll \/ loc.todo = {}
    <3>1. CASE removeStatusCheck \/ removeNodePorts
      <4>1. pc' \in {"done", "delIngress"} => err'
        BY <3>1 DEF Record
      <4>2. pc' \in {"done", "delIngress", "rmNodePorts", "rmIGs"}
        BY <3>1, AfterSyncerType
      <4> QED BY <4>1, <4>2 DEF AskedAll
    <3>2. CASE afterRemoveIGs
      BY <3>2
    <3>3. CASE pc \in {"rmFirewall", "rmBackends", "rmStatus"}
      BY <3>3 DEF AskedAll
    <3> QED BY <1>2, <3>1, <3>2, <3>3 DEF RemoveLoadBalancerFromClusters
  <2>7. pc' \notin {"idle", "validate", "ensureIngress"}
    BY <2>5 DEF RemoveSteps
  <2>8. AskedAll => loc.todo = {}
    BY <2>1 DEF IGsInv, IGsKnown
  <2> QED BY <2>1, <2>3, <2>4, <2>6, <2>7, <2>8, IGsKept
<1> QED BY <1>1, <1>2

(***************************************************************************)
(* IGsInv is inductive.                                                    *)
(***************************************************************************)
LEMMA InitIGs ==
  Init => IGsInv
BY DEF Init, Idle, IGsInv

\* IGsInv is inductive.
LEMMA NextIGs ==
  BaseInv /\ IGsInv /\ [Next]_vars => IGsInv'
<1> SUFFICES ASSUME BaseInv, IGsInv, [Next]_vars PROVE IGsInv'
  OBVIOUS
<1>1. ASSUME NEW c \in Commands, Run(c) PROVE IGsInv'
  <2>1. c.op \in {"create", "delete", "remove"}
    BY ConfigAssumption DEF CommandType
  <2>2. /\ pc = "idle" /\ cmd' = c /\ pc' = FirstStep(c)
        /\ loc' = [NoLocals EXCEPT !.todo = c.clusters]
    BY <1>1 DEF Run
  <2>3. loc'.todo = c.clusters /\ loc'.igs = [d \in Clusters |-> {}]
    BY <2>2 DEF NoLocals
  <2>4. pc' \in {"validate", "delFirewall", "rmStatusCheck"}
    BY <2>1, <2>2 DEF FirstStep
  <2> QED BY <2>2, <2>3, <2>4 DEF IGsInv, IGsKnown, AskedAll
<1>2. CASE pc # "idle" /\ Ends
  BY <1>2 DEF Ends, IGsInv
<1>3. CASE Bystander
  BY <1>3 DEF Bystander, Annotated, IGsInv, IGsKnown, AskedAll
<1>4. CASE pc # "idle" /\ cmd' = cmd /\ OwnStepOf(cmd.op)
  <2>1. cmd.op \in {"create", "delete", "remove"}
    BY <1>4, RunningCommand DEF BaseInv, TypeInv
  <2> QED BY <1>4, <2>1, CreateKeepsIGs, CreateLBKeepsIGs, DeleteKeepsIGs, RemoveKeepsIGs
          DEF OwnStepOf, CreateStep
<1> QED BY <1>1, <1>2, <1>3, <1>4, StepKinds

-----------------------------------------------------------------------------
(***************************************************************************)
(* Remove-clusters.  As long as it has met no error, it has taken the      *)
(* clusters out of what the steps behind it update.  A check of the status *)
(* made without --force on a url map that was read still holds when the    *)
(* status is written.                                                      *)
(***************************************************************************)
Removing == pc # "idle" /\ cmd.op = "remove"

RemovedSoFar ==
  /\ pc \in {"rmBackends", "rmStatus", "delIngress", "done"} =>
       fw # None /\ fw.tags \cap getTargetTags(cmd.clusters) = {}
  /\ pc \in {"rmStatus", "delIngress", "done"} =>
       \A p \in NodePorts :
         loc.ports[p] # None => be[p] # None /\ be[p].igs \cap AllIGs = {}
  /\ pc \in {"delIngress", "done"} =>
       um # None /\ (um.st # None => um.st.clusters \cap cmd.clusters = {})
  /\ pc = "done" => \A c \in cmd.clusters : ing[c] = None

StatusChecked ==
  pc \in RemoveSteps \ {"rmStatusCheck"} /\ ~cmd.force /\ ~fault /\ HasStatus =>
    hasSomeRemainingClusters(um.st.clusters, cmd.clusters)

RemoveInv == Removing => (~err => RemovedSoFar) /\ StatusChecked

(***************************************************************************)
(* A command that knows the instance groups of its clusters knows them of  *)
(* all and of no others.                                                   *)
(***************************************************************************)
LEMMA AllKnown ==
  ASSUME BaseInv, IGsInv, pc # "idle", ~err, AskedAll
  PROVE  KnownClusters = cmd.clusters
<1>1. cmd.clusters \subseteq Clusters
  BY RunningCommand DEF BaseInv, TypeInv
<1> QED BY <1>1 DEF IGsInv, IGsKnown, KnownClusters

(***************************************************************************)
(* The steps that only read: if no call fails and there is no --force, the *)
(* command goes on only if the url map lists another cluster.              *)
(***************************************************************************)
LEMMA removeStatusCheckRemoves ==
  ASSUME BaseInv, RemoveInv, Removing, removeStatusCheck
  PROVE  RemoveInv'
<1>1. pc = "rmStatusCheck" /\ UNCHANGED <<cloud, loc>>
  BY DEF removeStatusCheck
<1>2. PICK r \in StatusReads :
        LET goOn == /\ r.st # None
                    /\ \/ hasSomeRemainingClusters(r.st.clusters, cmd.clusters)
                       \/ cmd.force
        IN  /\ pc' = IF goOn THEN "rmNodePorts" ELSE AfterSyncer(TRUE)
            /\ Record(~goOn, r.fault)
  BY DEF removeStatusCheck
<1> DEFINE goOn == /\ r.st # None
                   /\ \/ hasSomeRemainingClusters(r.st.clusters, cmd.clusters)
                      \/ cmd.force
<1>3. /\ pc' \in {"rmNodePorts", "done", "delIngress"}
      /\ pc' = "rmNodePorts" => goOn
      /\ pc' # "rmNodePorts" => err'
      /\ ~fault' => ~r.fault
      /\ cmd' = cmd
  BY <1>2, AfterSyncerType DEF Record
<1>4. ~r.fault => r.st = getLoadBalancerStatus
  BY DEF StatusReads
<1>5. HasStatus => getLoadBalancerStatus = um.st
  BY DEF HasStatus, getLoadBalancerStatus
<1>6. StatusChecked'
  BY <1>1, <1>3, <1>4, <1>5 DEF StatusChecked, HasStatus, RemoveSteps, cloud
<1>7. ~err' => RemovedSoFar'
  BY <1>3 DEF RemovedSoFar
<1> QED BY <1>6, <1>7 DEF RemoveInv

\* The steps of remove-clusters that only read.
LEMMA ReadingRemoves ==
  ASSUME BaseInv, IGsInv, RemoveInv, Removing,
         removeNodePorts \/ getIGs("rmIGs") \/ afterRemoveIGs
  PROVE  RemoveInv'
<1>1. /\ pc \in {"rmNodePorts", "rmIGs"} /\ UNCHANGED cloud /\ cmd' = cmd
      /\ fault => fault'
  BY getIGsAnswer DEF removeNodePorts, readNodePorts, getIGs, afterRemoveIGs, Record
<1>2. /\ pc' \in {"rmIGs", "rmFirewall", "rmStatus", "done", "delIngress"}
      /\ pc' \in {"rmStatus", "done", "delIngress"} => err'
  BY AfterSyncerType DEF removeNodePorts, readNodePorts, getIGs, afterRemoveIGs, Record
<1>3. StatusChecked'
  BY <1>1, <1>2 DEF RemoveInv, StatusChecked, HasStatus, RemoveSteps, cloud
<1>4. ~err' => RemovedSoFar'
  BY <1>2 DEF RemovedSoFar
<1> QED BY <1>3, <1>4 DEF RemoveInv

(***************************************************************************)
(* The firewall rule loses the tags of the clusters.                       *)
(***************************************************************************)
LEMMA removeFromFirewallRemoves ==
  ASSUME BaseInv, IGsInv, RemoveInv, Removing, removeFromFirewall
  PROVE  RemoveInv'
<1>1. /\ pc = "rmFirewall" /\ pc' = "rmBackends" /\ cmd' = cmd
      /\ UNCHANGED um /\ (fault => fault')
  BY DEF removeFromFirewall, Record
<1>2. PICK o \in FirewallRemoveFromClusters(KnownClusters) :
        fw' = o.res /\ Record(o.err, o.fault)
  BY DEF removeFromFirewall
<1>3. /\ o.res = None <=> fw = None
      /\ ~o.err => fw # None /\ o.res.tags \cap getTargetTags(KnownClusters) = {}
  BY FirewallRemoveOutcome DEF BaseInv, TypeInv, TypeOK
<1>4. err' = (err \/ o.err)
  BY <1>2, Recorded
<1>5. ~err => KnownClusters = cmd.clusters
  BY <1>1, AllKnown DEF AskedAll
<1>6. ~err' => RemovedSoFar'
  BY <1>1, <1>2, <1>3, <1>4, <1>5 DEF RemovedSoFar, getTargetTags
<1>7. StatusChecked'
  BY <1>1 DEF RemoveInv, StatusChecked, HasStatus, RemoveSteps
<1> QED BY <1>6, <1>7 DEF RemoveInv

(***************************************************************************)
(* The backend services lose the instance groups of the clusters.          *)
(***************************************************************************)
LEMMA removeFromBackendsRemoves ==
  ASSUME BaseInv, IGsInv, RemoveInv, Removing, removeFromBackends
  PROVE  RemoveInv'
<1>1. /\ pc = "rmBackends" /\ pc' = "rmStatus" /\ cmd' = cmd
      /\ UNCHANGED <<um, fw, loc>> /\ (fault => fault')
  BY DEF removeFromBackends, Record
<1>2. PICK o \in RemoveFromClusters(loc.ports, AllIGs) :
        be' = Results(o) /\ Record(AnyErr(o), AnyFault(o))
  BY DEF removeFromBackends
<1>3. \A p \in NodePorts : loc.ports[p] # None /\ ~AnyErr(o) =>
         Results(o)[p] # None /\ Results(o)[p].igs \cap AllIGs = {}
  BY RemoveFromClustersOutcome DEF BaseInv, TypeInv, TypeOK
<1>4. err' = (err \/ AnyErr(o)) /\ AllIGs' = AllIGs
  BY <1>1, <1>2, Recorded DEF AllIGs
<1>5. ~err' => RemovedSoFar'
  BY <1>1, <1>2, <1>3, <1>4 DEF RemoveInv, RemovedSoFar, getTargetTags
<1>6. StatusChecked'
  BY <1>1 DEF RemoveInv, StatusChecked, HasStatus, RemoveSteps
<1> QED BY <1>5, <1>6 DEF RemoveInv

(***************************************************************************)
(* The status loses the clusters, last of all resources of the cloud.      *)
(***************************************************************************)
LEMMA removeFromStatusRemoves ==
  ASSUME BaseInv, RemoveInv, Removing, removeFromStatus
  PROVE  RemoveInv'
<1>1. pc = "rmStatus" /\ UNCHANGED <<be, fw, loc>>
  BY DEF removeFromStatus
<1>2. PICK o \in ForwardingRuleRemoveClustersFromStatus(cmd.clusters),
           u \in URLMapRemoveClustersFromStatus(cmd.clusters) :
        LET e == AnyErr(o) \/ NoForwardingRule \/ u.err
        IN  /\ um' = u.res
            /\ pc' = AfterSyncer(err \/ e)
            /\ Record(e, AnyFault(o) \/ u.fault)
  BY DEF removeFromStatus
<1>3. /\ u.res = None <=> um = None
      /\ ~u.err => /\ um # None
                   /\ um.st # None => u.res.st.clusters \cap cmd.clusters = {}
      /\ um # None => (u.res.st = None <=> um.st = None)
  BY URLMapRemoveOutcome DEF BaseInv, TypeInv, TypeOK
<1>4. /\ pc' \in {"done", "delIngress"} /\ cmd' = cmd
      /\ ~err' => ~err /\ ~u.err /\ pc' = "delIngress"
  BY <1>2, AfterSyncerType DEF Record, AfterSyncer, Removing
<1>5. ~err' => RemovedSoFar'
  BY <1>1, <1>2, <1>3, <1>4 DEF RemoveInv, RemovedSoFar, getTargetTags, AllIGs
<1>6. StatusChecked'
  BY <1>4 DEF StatusChecked, RemoveSteps
<1> QED BY <1>5, <1>6 DEF RemoveInv

(***************************************************************************)
(* The ingresses go last.                                                  *)
(***************************************************************************)
LEMMA deleteIngressRemoves ==
  ASSUME BaseInv, RemoveInv, Removing, deleteIngress
  PROVE  RemoveInv'
<1>1. /\ pc = "delIngress" /\ pc' = "done" /\ cmd' = cmd
      /\ UNCHANGED <<be, fw, um, loc>>
  BY DEF deleteIngress, Record, cloud
<1>2. PICK o \in DeleteIngress(cmd.clusters) :
        ing' = Results(o) /\ Record(AnyErr(o), AnyFault(o))
  BY DEF deleteIngress
<1>3. \A c \in Clusters : c \in cmd.clusters /\ ~AnyErr(o) => Results(o)[c] = None
  BY DeleteIngressOutcome DEF BaseInv, TypeInv, TypeOK
<1>4. err' = (err \/ AnyErr(o)) /\ AllIGs' = AllIGs
  BY <1>1, <1>2, Recorded DEF AllIGs
<1>5. cmd.clusters \subseteq Clusters
  BY <1>1, RunningCommand DEF BaseInv, TypeInv
<1>6. ~err' => RemovedSoFar'
  BY <1>1, <1>2, <1>3, <1>4, <1>5 DEF RemoveInv, RemovedSoFar, getTargetTags
<1>7. StatusChecked'
  BY <1>1 DEF StatusChecked, RemoveSteps
<1> QED BY <1>6, <1>7 DEF RemoveInv

(***************************************************************************)
(* RemoveInv is inductive.                                                 *)
(***************************************************************************)
LEMMA InitRemove ==
  Init => RemoveInv
BY DEF Init, Idle, RemoveInv, Removing

\* RemoveInv is inductive.
LEMMA NextRemove ==
  BaseInv /\ IGsInv /\ RemoveInv /\ [Next]_vars => RemoveInv'
<1> SUFFICES ASSUME BaseInv, IGsInv, RemoveInv, [Next]_vars PROVE RemoveInv'
  OBVIOUS
<1>1. ASSUME NEW c \in Commands, Run(c) PROVE RemoveInv'
  <2>1. c.op \in {"create", "delete", "remove"}
    BY ConfigAssumption DEF CommandType
  <2>2. cmd' = c /\ pc' = FirstStep(c)
    BY <1>1 DEF Run
  <2> QED BY <2>1, <2>2 DEF RemoveInv, Removing, RemovedSoFar, StatusChecked, FirstStep
<1>2. CASE pc # "idle" /\ Ends
  BY <1>2 DEF Ends, RemoveInv, Removing
<1>3. CASE Bystander
  <2>1. /\ UNCHANGED <<be, fw, um, pc, cmd, err, fault, loc>>
        /\ AllIGs' = AllIGs
    BY <1>3 DEF Bystander, cloud, AllIGs
  <2>2. pc # "idle" => cmd.clusters \subseteq Clusters
    BY RunningCommand DEF BaseInv, TypeInv
  <2>3. Removing /\ RemovedSoFar => RemovedSoFar'
    BY <1>3, <2>1, <2>2 DEF Bystander, Annotated, Removing, RemovedSoFar, getTargetTags
  <2>4. StatusChecked => StatusChecked'
    BY <2>1 DEF StatusChecked, HasStatus
  <2> QED BY <2>1, <2>3, <2>4 DEF RemoveInv, Removing
<1>4. CASE pc # "idle" /\ cmd' = cmd /\ OwnStepOf(cmd.op)
  <2>1. CASE cmd.op = "remove"
    <3>1. Removing /\ (RemoveLoadBalancerFromClusters \/ deleteIngress)
      BY <1>4, <2>1 DEF Removing, OwnStepOf
    <3> QED BY <3>1, removeStatusCheckRemoves, ReadingRemoves, removeFromFirewallRemoves,
            removeFromBackendsRemoves, removeFromStatusRemoves, deleteIngressRemoves
            DEF RemoveLoadBalancerFromClusters
  <2>2. CASE cmd.op # "remove"
    BY <1>4, <2>2 DEF RemoveInv, Removing
  <2> QED BY <2>1, <2>2
<1> QED BY <1>1, <1>2, <1>3, <1>4, StepKinds

\* Everything about running commands that the theorems below use.
CommandInv == BaseInv /\ DeleteInv /\ IGsInv /\ RemoveInv

\* What holds of all commands holds in every reachable state.
LEMMA CommandsInvariant ==
  Spec => []CommandInv
<1>1. Init => CommandInv
  BY InitBase, InitDelete, InitIGs, InitRemove DEF CommandInv
<1>2. CommandInv /\ [Next]_vars => CommandInv'
  BY NextBase, NextDelete, NextIGs, NextRemove DEF CommandInv
<1> QED BY <1>1, <1>2, PTL DEF Spec

(***************************************************************************)
(* RemoveCompletes: a remove-clusters that reports success has found the   *)
(* instance groups of all its clusters, has taken them out of the backend  *)
(* services, the tags out of the firewall rule and the clusters out of the *)
(* status on the url map, and has deleted the ingresses.                   *)
(***************************************************************************)
THEOREM RemoveCompletes ==
  Spec => []RemoveComplete
<1>1. CommandInv => RemoveComplete
  <2> SUFFICES ASSUME CommandInv, Done("remove"), ~err PROVE RemoveComplete
    BY DEF RemoveComplete
  <2>1. pc = "done" /\ pc # "idle" /\ cmd.op = "remove"
    BY DEF Done
  <2>2. KnownClusters = cmd.clusters
    BY <2>1, AllKnown DEF CommandInv, AskedAll
  <2> QED BY <2>1, <2>2 DEF CommandInv, RemoveInv, Removing, RemovedSoFar, RemoveComplete
<1> QED BY <1>1, CommandsInvariant, PTL

(***************************************************************************)
(* StatusKept: the status of a load balancer never loses its last cluster  *)
(* to a remove-clusters without --force whose calls do not fail, although  *)
(* many steps lie between the check and the write.                         *)
(***************************************************************************)
THEOREM StatusKept ==
  Spec => StatusKeepsSomeCluster
<1> DEFINE A == pc # "idle" /\ cmd.op = "remove" /\ ~cmd.force /\ ~fault' /\ HasStatus =>
                  HasStatus' /\ (um.st.clusters # {} => um'.st.clusters # {})
<1>1. CommandInv /\ [Next]_vars => [A]_vars
  <2> SUFFICES ASSUME CommandInv, [Next]_vars, pc # "idle", cmd.op = "remove",
                      ~cmd.force, ~fault', HasStatus
               PROVE  HasStatus' /\ (um.st.clusters # {} => um'.st.clusters # {})
    OBVIOUS
  <2>1. CASE um' = um
    BY <2>1 DEF HasStatus
  <2>2. CASE removeFromStatus
    <3>1. PICK o \in ForwardingRuleRemoveClustersFromStatus(cmd.clusters),
               u \in URLMapRemoveClustersFromStatus(cmd.clusters) :
            um' = u.res /\ Record(AnyErr(o) \/ NoForwardingRule \/ u.err, AnyFault(o) \/ u.fault)
      BY <2>2 DEF removeFromStatus
    <3>2. /\ u.res = None <=> um = None
          /\ um # None => /\ u.res.st = None <=> um.st = None
                          /\ um.st # None =>
                               um.st.clusters \ cmd.clusters \subseteq u.res.st.clusters
      BY URLMapRemoveOutcome DEF CommandInv, BaseInv, TypeInv, TypeOK
    <3>3. ~fault
      BY <3>1, Recorded
    <3>4. hasSomeRemainingClusters(um.st.clusters, cmd.clusters)
      BY <2>2, <3>3 DEF CommandInv, RemoveInv, Removing, StatusChecked, RemoveSteps,
         removeFromStatus
    <3> QED BY <3>1, <3>2, <3>4 DEF HasStatus, hasSomeRemainingClusters
  <2>3. um' = um \/ removeFromStatus
    <3>1. CASE Ends \/ Bystander
      BY <3>1 DEF Ends, Bystander, cloud
    <3>2. CASE RemoveLoadBalancerFromClusters \/ deleteIngress
      BY <3>2 DEF RemoveLoadBalancerFromClusters, removeStatusCheck, removeNodePorts,
         readNodePorts, getIGs, afterRemoveIGs, removeFromFirewall, removeFromBackends,
         deleteIngress, cloud
    <3>3. \A c \in Commands : ~Run(c)
      BY DEF Run
    <3> QED BY <3>1, <3>2, <3>3, StepKinds DEF CommandInv, OwnStepOf
  <2> QED BY <2>1, <2>2, <2>3
<1> QED BY <1>1, CommandsInvariant, PTL DEF Spec, StatusKeepsSomeCluster

(***************************************************************************)
(* IngressGoesLast: without --force a command deletes the ingress of a     *)
(* cluster only when no backend service it knows of has an instance group  *)
(* of that cluster any more.                                               *)
(***************************************************************************)
THEOREM IngressGoesLast ==
  Spec => IngressDeletedLast
<1> DEFINE A == \A c \in Clusters :
                  ing[c] # None /\ ing'[c] = None /\ ~cmd.force =>
                    \A p \in NodePorts : loc.ports[p] # None /\ be[p] # None =>
                                           be[p].igs \cap ing[c].igs = {}
<1>1. CommandInv /\ [Next]_vars => [A]_vars
  <2> SUFFICES ASSUME CommandInv, [Next]_vars, NEW c \in Clusters,
                      ing[c] # None, ing'[c] = None, ~cmd.force, NEW p \in NodePorts,
                      loc.ports[p] # None, be[p] # None
               PROVE  be[p].igs \cap ing[c].igs = {}
    OBVIOUS
  <2>1. pc # "idle" /\ OwnStepOf(cmd.op)
    <3>1. CASE Ends \/ Bystander
      BY <3>1 DEF Ends, Bystander, Annotated
    <3>2. ASSUME NEW d \in Commands, Run(d) PROVE FALSE
      BY <3>2 DEF Run
    <3> QED BY <3>1, <3>2, StepKinds DEF CommandInv
  <2>2. cmd.op \in {"create", "delete", "remove"} /\ cmd.clusters \subseteq Clusters
    BY <2>1, RunningCommand DEF CommandInv, BaseInv, TypeInv
  <2>3. CASE ing' = ing
    BY <2>3
  <2>4. CASE createIngress
    <3>1. PICK o \in EnsureIngress(cmd.spec, cmd.clusters, cmd.force) : ing' = Results(o)
      BY <2>4 DEF createIngress
    <3>2. IngressTypeOK /\ cmd.spec \in Specs /\ cmd.force \in BOOLEAN
      BY <2>1, RunningCommand DEF CommandInv, BaseInv, TypeInv, TypeOK
    <3>3. IngressesEnsured(cmd.spec, cmd.clusters, cmd.force, o)
      BY <3>2, EnsureIngressOutcome
    <3> QED BY <3>1, <3>3 DEF IngressesEnsured
  <2>5. CASE deleteIngress
    <3>1. PICK o \in DeleteIngress(cmd.clusters) : ing' = Results(o)
      BY <2>5 DEF deleteIngress
    <3>2. c \in cmd.clusters
      BY <3>1, DeleteIngressOutcome DEF CommandInv, BaseInv, TypeInv, TypeOK
    <3>3. ~err /\ pc = "delIngress"
      BY <2>5 DEF deleteIngress, CommandInv, BaseInv, OwnSteps
    <3>4. cmd.op # "create"
      BY <2>5, OtherSteppedOn DEF CommandInv
    <3>5. CASE cmd.op = "delete"
      BY <3>3, <3>5 DEF CommandInv, DeleteInv, Deleting, DeletedSoFar
    <3>6. CASE cmd.op = "remove"
      <4>1. be[p].igs \cap AllIGs = {}
        BY <3>3, <3>6 DEF CommandInv, RemoveInv, Removing, RemovedSoFar
      <4>2. AskedAll /\ KnownClusters = cmd.clusters
        BY <3>3, <3>6, AllKnown DEF CommandInv, AskedAll
      <4>3. ing[c].igs = loc.igs[c]
        BY <3>2, <3>3, <4>2 DEF CommandInv, IGsInv, IGsKnown, KnownClusters
      <4> QED BY <4>1, <4>3 DEF AllIGs
    <3> QED BY <2>2, <3>4, <3>5, <3>6
  <2>6. ing' = ing \/ createIngress \/ deleteIngress
    BY <2>1, <2>2 DEF OwnStepOf, CreateStep, createValidate,
       CreateLoadBalancer, createNodePorts, readNodePorts, noIPAddress,
       createHealthChecks, getIGs, getNamedPorts, createBackendServices,
       createURLMap, createHTTPProxy, createRule, createSSLCert, createHTTPSProxy,
       createFirewall, DeleteLoadBalancer, deleteFirewall, deleteRules,
       deleteProxies, deleteCert, deleteURLMap, deletePorts, deleteBackends,
       deleteHealthChecks, RemoveLoadBalancerFromClusters, removeStatusCheck,
       removeNodePorts, afterRemoveIGs, removeFromFirewall, removeFromBackends,
       removeFromStatus
  <2> QED BY <2>3, <2>4, <2>5, <2>6
<1> QED BY <1>1, CommandsInvariant, PTL DEF Spec, IngressDeletedLast

-----------------------------------------------------------------------------
(***************************************************************************)
(* PART 3: what create has built when it reports success, and what it      *)
(* leaves alone on the way.                                                *)
(***************************************************************************)

(***************************************************************************)
(* What the steps of create do, in terms of what the syncers promise.      *)
(***************************************************************************)
Ended(e, f) == cmd' = cmd /\ err' = (err \/ e) /\ fault' = (fault \/ f)

Creating == pc # "idle" /\ cmd.op = "create"

\* Validation changes nothing, refuses no ingress that can be created, and
\* accepts no cluster that is too old.
LEMMA createValidateEffect ==
  ASSUME BaseInv, createValidate
  PROVE  /\ pc = "validate" /\ UNCHANGED <<cloud, ing, nodePort, loc>>
         /\ \E o \in Outcomes({None}) :
              /\ Ended(o.err, o.fault)
              /\ pc' = IF o.err THEN "done" ELSE "ensureIngress"
              /\ o.err /\ Creatable(cmd) => o.fault
              /\ ~o.err /\ cmd.validate => serverVersionsNewEnough(cmd.clusters)
<1>1. PICK o \in (IF cmd.validate THEN Validate(cmd.clusters, cmd.spec) ELSE {Ok(None)}) :
        /\ pc' = IF o.err THEN "done" ELSE "ensureIngress"
        /\ Record(o.err, o.fault)
  BY DEF createValidate
<1>2. pc = "validate" /\ UNCHANGED <<cloud, ing, nodePort, loc>>
  BY DEF createValidate
<1>3. cmd.validate \in BOOLEAN /\ cmd.spec \in SpecType
  BY <1>2, RunningCommand DEF BaseInv, TypeInv
<1>4. /\ o \in Outcomes({None}) /\ (o.err /\ Creatable(cmd) => o.fault)
      /\ ~o.err /\ cmd.validate => serverVersionsNewEnough(cmd.clusters)
  <2>1. CASE ~cmd.validate
    BY <1>1, <2>1, AnsweredOutcome
  <2>2. CASE cmd.validate /\ o \in Faulty({None})
    BY <2>2, FaultyOutcome
  <2>3. CASE cmd.validate /\ o \notin Faulty({None})
    <3> DEFINE valid == /\ serverVersionsNewEnough(cmd.clusters)
                        /\ servicesNodePortsSame(cmd.clusters, cmd.spec)
    <3>1. o = IF valid THEN Ok(None) ELSE Refused(None)
      BY <1>1, <2>3 DEF Validate
    <3>2. Creatable(cmd) => valid
      BY <1>3, <2>3 DEF Creatable, servicesNodePortsSame, ServicesOf
    <3>3. valid => serverVersionsNewEnough(cmd.clusters)
      OBVIOUS
    <3> HIDE DEF valid
    <3>4. /\ o \in Outcomes({None}) /\ (o.err /\ Creatable(cmd) => o.fault)
          /\ ~o.err => valid
      BY <3>1, <3>2, AnsweredOutcome
    <3> QED BY <3>3, <3>4
  <2> QED BY <1>3, <2>1, <2>2, <2>3
<1> QED BY <1>1, <1>2, <1>4, Recorded DEF Ended

\* EnsureIngress; an error ends the command.
LEMMA createIngressEffect ==
  ASSUME BaseInv, createIngress
  PROVE  /\ pc = "ensureIngress" /\ UNCHANGED <<cloud, nodePort, loc>>
         /\ \E o : /\ IngressesEnsured(cmd.spec, cmd.clusters, cmd.force, o)
                   /\ ing' = Results(o)
                   /\ pc' = IF AnyErr(o) THEN "done" ELSE "nodePorts"
                   /\ Ended(AnyErr(o), AnyFault(o))
<1>1. PICK o \in EnsureIngress(cmd.spec, cmd.clusters, cmd.force) :
        /\ ing' = Results(o) /\ Record(AnyErr(o), AnyFault(o))
        /\ pc' = IF AnyErr(o) THEN "done" ELSE "nodePorts"
  BY DEF createIngress
<1>2. pc = "ensureIngress" /\ UNCHANGED <<cloud, nodePort, loc>>
  BY DEF createIngress
<1>3. IngressTypeOK /\ cmd.spec \in Specs /\ cmd.force \in BOOLEAN
  BY <1>2, RunningCommand DEF BaseInv, TypeInv, TypeOK
<1>4. IngressesEnsured(cmd.spec, cmd.clusters, cmd.force, o)
  BY <1>3, EnsureIngressOutcome
<1> QED BY <1>1, <1>2, <1>4, Recorded DEF Ended

\* ingToNodePorts reads the ports of one of the clusters; without a cluster it fails.
LEMMA createNodePortsEffect ==
  ASSUME BaseInv, createNodePorts
  PROVE  /\ pc = "nodePorts" /\ UNCHANGED <<cloud, ing, nodePort>>
         /\ \/ /\ cmd.clusters = {} /\ pc' = "done" /\ loc' = loc
               /\ Ended(TRUE, FALSE)
            \/ \E c \in cmd.clusters : \E r :
                 /\ r.ports \in [NodePorts -> Services \cup {None}]
                 /\ PortsRead(cmd.spec, c, r)
                 /\ pc' = "healthCheck" /\ loc' = [loc EXCEPT !.ports = r.ports]
                 /\ Ended(FALSE, r.fault)
<1>1. pc = "nodePorts" /\ UNCHANGED <<cloud, ing, nodePort>>
  BY DEF createNodePorts, readNodePorts
<1>2. /\ IngressTypeOK /\ cmd.spec \in SpecType /\ cmd.clusters \subseteq Clusters
      /\ cmd.op = "create"
  BY <1>1, RunningCommand DEF BaseInv, TypeInv, TypeOK, OwnSteps, StepsOf,
     DeleteSteps, RemoveSteps
<1>3. CASE cmd.clusters = {} /\ pc' = AfterSyncer(TRUE) /\ UNCHANGED loc /\ Record(TRUE, FALSE)
  BY <1>1, <1>2, <1>3, Recorded DEF AfterSyncer, Ended
<1>4. CASE \E c \in cmd.clusters : \E r \in ingToNodePorts(cmd.spec, c) :
             /\ pc' = "healthCheck"
             /\ loc' = [loc EXCEPT !.ports = r.ports]
             /\ Record(FALSE, r.fault)
  <2>1. PICK c \in cmd.clusters : \E r \in ingToNodePorts(cmd.spec, c) :
             /\ pc' = "healthCheck"
             /\ loc' = [loc EXCEPT !.ports = r.ports]
             /\ Record(FALSE, r.fault)
    BY <1>4
  <2>2. PICK r \in ingToNodePorts(cmd.spec, c) :
             /\ pc' = "healthCheck"
             /\ loc' = [loc EXCEPT !.ports = r.ports]
             /\ Record(FALSE, r.fault)
    BY <2>1
  <2>3. /\ r.ports \in [NodePorts -> Services \cup {None}]
        /\ PortsRead(cmd.spec, c, r)
    BY <1>2, ingToNodePortsType
  <2>4. Ended(FALSE, r.fault)
    BY <2>2 DEF Record, Ended
  <2> QED BY <1>1, <2>2, <2>3, <2>4
<1> QED BY <1>3, <1>4 DEF createNodePorts, readNodePorts

\* Without an address create ends; with one, only a fault makes it end here.
LEMMA noIPAddressEffect ==
  ASSUME BaseInv, noIPAddress
  PROVE  /\ pc = "nodePorts" /\ pc' = "done" /\ UNCHANGED <<cloud, ing, nodePort, loc>>
         /\ Ended(TRUE, cmd.spec.ip # None)
BY Recorded DEF noIPAddress, Ended

\* EnsureHealthCheck; the links of those that were ensured are kept.
LEMMA createHealthChecksEffect ==
  ASSUME BaseInv, createHealthChecks
  PROVE  /\ pc = "healthCheck" /\ pc' = "getIGs"
         /\ UNCHANGED <<be, um, tp, fr, cert, fw, ing, nodePort>>
         /\ \E o : /\ HealthChecksEnsured(loc.ports, cmd.clusters, cmd.force, o)
                   /\ AnyErr(o) <=> \E p \in NodePorts : o[p].err
                   /\ hc' = Results(o)
                   /\ loc' = [loc EXCEPT !.hcs = {p \in NodePorts :
                                                    loc.ports[p] # None /\ ~o[p].err}]
                   /\ Ended(AnyErr(o), AnyFault(o))
<1>1. /\ pc = "healthCheck" /\ pc' = "getIGs"
      /\ UNCHANGED <<be, um, tp, fr, cert, fw, ing, nodePort>>
  BY DEF createHealthChecks
<1>2. PICK o \in EnsureHealthCheck(loc.ports, cmd.clusters, cmd.force) :
        /\ hc' = Results(o)
        /\ loc' = [loc EXCEPT !.hcs = {p \in NodePorts :
                                         loc.ports[p] # None /\ ~o[p].err}]
        /\ Record(AnyErr(o), AnyFault(o))
  BY DEF createHealthChecks
<1>3. /\ HealthCheckTypeOK /\ loc.ports \in [NodePorts -> Services \cup {None}]
      /\ cmd.clusters \in SUBSET Clusters /\ cmd.force \in BOOLEAN
  BY <1>1, RunningCommand DEF BaseInv, TypeInv, TypeOK, Locals
<1>4. /\ HealthChecksEnsured(loc.ports, cmd.clusters, cmd.force, o)
      /\ AnyErr(o) <=> \E p \in NodePorts : o[p].err
  BY <1>3, EnsureHealthCheckOutcome
<1>5. Ended(AnyErr(o), AnyFault(o))
  BY <1>2, Recorded DEF Ended
<1> QED BY <1>1, <1>2, <1>4, <1>5

\* The named ports are those of an instance group that some cluster reported.
LEMMA getNamedPortsEffect ==
  ASSUME BaseInv, getNamedPorts
  PROVE  /\ pc = "getIGs" /\ loc.todo = {} /\ UNCHANGED <<cloud, ing, nodePort>>
         /\ \/ /\ pc' = "done" /\ loc' = loc
               /\ \E f \in BOOLEAN : Ended(TRUE, f) /\ (KnownClusters # {} => f)
            \/ \E c \in KnownClusters : \E nps \in SUBSET NodePorts :
                 /\ nps = {nodePort[c][s] : s \in Services} \ {None}
                 /\ loc' = [loc EXCEPT !.nps = nps]
                 /\ pc' = IF nps = {} THEN "done" ELSE "backendService"
                 /\ Ended(nps = {}, FALSE)
<1>1. pc = "getIGs" /\ loc.todo = {} /\ UNCHANGED <<cloud, ing, nodePort>>
  BY DEF getNamedPorts
<1>2. CASE KnownClusters = {} /\ pc' = "done" /\ UNCHANGED loc /\ Record(TRUE, FALSE)
  BY <1>1, <1>2, Recorded DEF Ended
<1>3. CASE KnownClusters # {} /\ pc' = "done" /\ UNCHANGED loc /\ Record(TRUE, TRUE)
  BY <1>1, <1>3, Recorded DEF Ended
<1>4. ASSUME NEW c \in KnownClusters,
             LET nps == {nodePort[c][s] : s \in Services} \ {None}
             IN  /\ loc' = [loc EXCEPT !.nps = nps]
                 /\ pc' = IF nps = {} THEN "done" ELSE "backendService"
                 /\ Record(nps = {}, FALSE)
      PROVE  \E nps \in SUBSET NodePorts :
                 /\ nps = {nodePort[c][s] : s \in Services} \ {None}
                 /\ loc' = [loc EXCEPT !.nps = nps]
                 /\ pc' = IF nps = {} THEN "done" ELSE "backendService"
                 /\ Ended(nps = {}, FALSE)
  <2> DEFINE nps == {nodePort[c][s] : s \in Services} \ {None}
  <2>1. c \in Clusters /\ nodePort \in [Clusters -> [Services -> NodePorts \cup {None}]]
    BY PortMapsAssumption DEF KnownClusters, BaseInv, TypeInv, TypeOK, IngressTypeOK
  <2>2. nps \in SUBSET NodePorts
    BY <2>1
  <2>3. Ended(nps = {}, FALSE)
    BY <1>4, Recorded DEF Ended
  <2>4. /\ loc' = [loc EXCEPT !.nps = nps]
        /\ pc' = IF nps = {} THEN "done" ELSE "backendService"
    BY <1>4
  <2> HIDE DEF nps
  <2> QED BY <2>2, <2>3, <2>4 DEF nps
<1> QED BY <1>1, <1>2, <1>3, <1>4 DEF getNamedPorts

\* EnsureBackendService; the links are found again by the name of the service.
LEMMA createBackendServicesEffect ==
  ASSUME BaseInv, createBackendServices
  PROVE  /\ pc = "backendService" /\ pc' = "urlMap"
         /\ UNCHANGED <<hc, um, tp, fr, cert, fw, ing, nodePort>>
         /\ \E o : /\ BackendServicesEnsured(loc.ports, loc.hcs, loc.nps, AllIGs,
                                             cmd.force, o)
                   /\ AnyErr(o) <=> \E p \in NodePorts : o[p].err
                   /\ be' = Results(o)
                   /\ loc' = [loc EXCEPT !.bes = ensuredBackendServices(loc.ports, o)]
                   /\ Ended(AnyErr(o), AnyFault(o))
<1>1. /\ pc = "backendService" /\ pc' = "urlMap"
      /\ UNCHANGED <<hc, um, tp, fr, cert, fw, ing, nodePort>>
  BY DEF createBackendServices
<1>2. PICK o \in EnsureBackendService(loc.ports, loc.hcs, loc.nps, AllIGs, cmd.force) :
        /\ be' = Results(o)
        /\ loc' = [loc EXCEPT !.bes = ensuredBackendServices(loc.ports, o)]
        /\ Record(AnyErr(o), AnyFault(o))
  BY DEF createBackendServices
<1>3. /\ BackendServiceTypeOK /\ loc.ports \in [NodePorts -> Services \cup {None}]
      /\ AllIGs \in SUBSET InstanceGroups /\ cmd.force \in BOOLEAN
  BY <1>1, RunningCommand, AllIGsType DEF BaseInv, TypeInv, TypeOK, Locals
<1>4. BackendServicesEnsured(loc.ports, loc.hcs, loc.nps, AllIGs, cmd.force, o)
  BY <1>3, EnsureBackendServiceOutcome
<1>5. AnyErr(o) <=> \E p \in NodePorts : o[p].err
  BY <1>3, EnsureBackendServiceOutcome
<1>6. Ended(AnyErr(o), AnyFault(o))
  BY <1>2, Recorded DEF Ended
<1> QED BY <1>1, <1>2, <1>4, <1>5, <1>6

\* EnsureURLMap; whether it succeeded is kept.
LEMMA createURLMapEffect ==
  ASSUME BaseInv, createURLMap
  PROVE  /\ pc = "urlMap" /\ pc' = IF cmd.spec.http THEN "httpProxy" ELSE AfterHTTP
         /\ UNCHANGED <<hc, be, tp, fr, cert, fw, ing, nodePort>>
         /\ \E o : /\ o \in Outcomes(UMs)
                   /\ URLMapEnsured(cmd.spec, cmd.clusters, loc.bes, cmd.force, o)
                   /\ um' = o.res /\ loc' = [loc EXCEPT !.um = ~o.err]
                   /\ Ended(o.err, o.fault)
<1>1. /\ pc = "urlMap" /\ pc' = IF cmd.spec.http THEN "httpProxy" ELSE AfterHTTP
      /\ UNCHANGED <<hc, be, tp, fr, cert, fw, ing, nodePort>>
  BY DEF createURLMap
<1>2. PICK o \in EnsureURLMap(cmd.spec, cmd.clusters, loc.bes, cmd.force) :
        um' = o.res /\ loc' = [loc EXCEPT !.um = ~o.err] /\ Record(o.err, o.fault)
  BY DEF createURLMap
<1>3. /\ URLMapTypeOK /\ cmd.spec \in SpecType /\ cmd.spec.ip # None
      /\ cmd.clusters \in SUBSET Clusters /\ cmd.force \in BOOLEAN
      /\ loc.bes \in [Services -> NodePorts \cup {None}]
  BY <1>1, RunningCommand DEF BaseInv, TypeInv, TypeOK, StepKnows, CreateSteps, Locals
<1>4. o \in Outcomes(UMs) /\ URLMapEnsured(cmd.spec, cmd.clusters, loc.bes, cmd.force, o)
  BY <1>3, EnsureURLMapOutcome
<1>5. Ended(o.err, o.fault)
  BY <1>2, Recorded DEF Ended
<1> QED BY <1>1, <1>2, <1>4, <1>5

\* EnsureHTTPTargetProxy leaves the other proxy alone.
LEMMA createHTTPProxyEffect ==
  ASSUME BaseInv, createHTTPProxy
  PROVE  /\ pc = "httpProxy" /\ pc' = "httpRule"
         /\ UNCHANGED <<hc, be, um, fr, cert, fw, ing, nodePort, tp["https"]>>
         /\ tp["http"] # None => tp'["http"] = tp["http"]
         /\ \E e, f \in BOOLEAN :
              /\ Ended(e, f) /\ loc' = [loc EXCEPT !.tp = ~e]
              /\ ~e => tp'["http"] # None
              /\ e /\ loc.um => f
<1>1. /\ pc = "httpProxy" /\ pc' = "httpRule"
      /\ UNCHANGED <<hc, be, um, fr, cert, fw, ing, nodePort>>
  BY DEF createHTTPProxy
<1>2. PICK o \in ensureHTTPProxy(loc.um, cmd.force) :
        /\ tp' = [tp EXCEPT !["http"] = o.res]
        /\ loc' = [loc EXCEPT !.tp = ~o.err]
        /\ Record(o.err, o.fault)
  BY DEF createHTTPProxy
<1>3. TargetProxyTypeOK /\ loc.um \in BOOLEAN /\ cmd.force \in BOOLEAN
  BY <1>1, RunningCommand DEF BaseInv, TypeInv, TypeOK, Locals
<1>4. /\ o \in Outcomes(TPs)
      /\ tp["http"] # None => o.res = tp["http"]
      /\ ~o.err => o.res # None
      /\ o.err /\ loc.um => o.fault
  BY <1>3, ensureHTTPProxyOutcome
<1>5. tp'["http"] = o.res /\ tp'["https"] = tp["https"]
  BY <1>2, <1>3 DEF TargetProxyTypeOK, Protocols
<1>6. Ended(o.err, o.fault) /\ o.err \in BOOLEAN /\ o.fault \in BOOLEAN
  BY <1>2, <1>4, Recorded DEF Ended, Outcomes
<1> QED BY <1>1, <1>2, <1>4, <1>5, <1>6

\* The forwarding rule of one protocol; the other is left alone.
LEMMA createRuleEffect ==
  ASSUME BaseInv, NEW here \in {"httpRule", "httpsRule"}, NEW next,
         NEW q \in Protocols, createRule(here, q, next)
  PROVE  /\ pc = here /\ pc' = next
         /\ UNCHANGED <<hc, be, um, tp, cert, fw, ing, nodePort, loc>>
         /\ \A r \in Protocols : r # q => fr'[r] = fr[r]
         /\ fr[q] # None /\ ~cmd.force => fr'[q] = fr[q]
         /\ fr'[q] \in {fr[q], None, desiredForwardingRule(cmd.spec.ip)}
         /\ \E e, f \in BOOLEAN :
              /\ Ended(e, f)
              /\ ~e => fr'[q] = desiredForwardingRule(cmd.spec.ip)
              /\ e /\ cmd.force /\ loc.tp => f
<1>1. pc = here /\ pc' = next /\ UNCHANGED <<hc, be, um, tp, cert, fw, ing, nodePort, loc>>
  BY DEF createRule
<1>2. PICK o \in ensureForwardingRule(q, cmd.spec.ip, loc.tp, cmd.force) :
        fr' = [fr EXCEPT ![q] = o.res] /\ Record(o.err, o.fault)
  BY DEF createRule
<1>3. /\ ForwardingRuleTypeOK /\ cmd.spec.ip \in IPs
      /\ loc.tp \in BOOLEAN /\ cmd.force \in BOOLEAN
  <2>1. cmd.spec.ip # None /\ cmd.spec \in SpecType
    BY <1>1, RunningCommand DEF BaseInv, TypeInv, TypeOK, StepKnows, CreateSteps
  <2> QED BY <1>1, <2>1, RunningCommand DEF BaseInv, TypeInv, TypeOK, Locals, SpecType
<1>4. /\ o \in Outcomes(FRs)
      /\ fr[q] # None /\ ~cmd.force => o.res = fr[q]
      /\ o.res \in {fr[q], None, desiredForwardingRule(cmd.spec.ip)}
      /\ ~o.err => o.res = desiredForwardingRule(cmd.spec.ip)
      /\ o.err /\ cmd.force /\ loc.tp => o.fault
  BY <1>3, ensureForwardingRuleOutcome
<1>5. fr'[q] = o.res /\ \A r \in Protocols : r # q => fr'[r] = fr[r]
  BY <1>2, <1>3 DEF ForwardingRuleTypeOK
<1>6. Ended(o.err, o.fault) /\ o.err \in BOOLEAN /\ o.fault \in BOOLEAN
  BY <1>2, <1>4, Recorded DEF Ended, Outcomes
<1> QED BY <1>1, <1>4, <1>5, <1>6

\* EnsureSSLCert; a certificate in use is what --force cannot replace.
LEMMA createSSLCertEffect ==
  ASSUME BaseInv, createSSLCert
  PROVE  /\ pc = "sslCert" /\ pc' = "httpsProxy"
         /\ UNCHANGED <<hc, be, um, tp, fr, fw, ing, nodePort>>
         /\ cert # None /\ ~cmd.force => cert' = cert
         /\ \E e, f \in BOOLEAN :
              /\ Ended(e, f)
              /\ loc' = [loc EXCEPT !.cert = IF e THEN None ELSE certLink(cmd.spec.tls)]
              /\ ~e /\ cmd.spec.tls \in CertData => cert' = cmd.spec.tls
              /\ e /\ cmd.force /\ ~f =>
                   cmd.spec.tls \in CertData /\ OwnCertInUse /\ cert' # cmd.spec.tls
<1>1. /\ pc = "sslCert" /\ pc' = "httpsProxy"
      /\ UNCHANGED <<hc, be, um, tp, fr, fw, ing, nodePort>>
  BY DEF createSSLCert
<1>2. PICK o \in EnsureSSLCert(cmd.spec.tls, OwnCertInUse, cmd.force) :
        /\ cert' = o.res
        /\ loc' = [loc EXCEPT !.cert = IF o.err THEN None ELSE certLink(cmd.spec.tls)]
        /\ Record(o.err, o.fault)
  BY DEF createSSLCert
<1>3. /\ SSLCertTypeOK /\ cmd.spec.tls \in CertData \cup PreSharedCerts
      /\ cmd.force \in BOOLEAN
  BY <1>1, RunningCommand DEF BaseInv, TypeInv, TypeOK, StepKnows, SpecType
<1>4. /\ o \in Outcomes(Certs)
      /\ cert # None /\ ~cmd.force => o.res = cert
      /\ ~o.err /\ cmd.spec.tls \notin PreSharedCerts => o.res = cmd.spec.tls
      /\ o.err /\ cmd.force =>
           \/ o.fault
           \/ cmd.spec.tls \notin PreSharedCerts /\ OwnCertInUse /\ o.res # cmd.spec.tls
  BY <1>3, EnsureSSLCertOutcome
<1>5. Ended(o.err, o.fault) /\ o.err \in BOOLEAN /\ o.fault \in BOOLEAN
  BY <1>2, <1>4, Recorded DEF Ended, Outcomes
<1>6. cmd.spec.tls \in CertData <=> cmd.spec.tls \notin PreSharedCerts
  BY <1>3, NoneAssumption
<1> QED BY <1>1, <1>2, <1>4, <1>5, <1>6

\* EnsureHTTPSTargetProxy leaves the other proxy alone.
LEMMA createHTTPSProxyEffect ==
  ASSUME BaseInv, createHTTPSProxy
  PROVE  /\ pc = "httpsProxy" /\ pc' = "httpsRule"
         /\ UNCHANGED <<hc, be, um, fr, cert, fw, ing, nodePort, tp["http"]>>
         /\ tp["https"] # None => tp'["https"] = tp["https"]
         /\ \E e, f \in BOOLEAN :
              /\ Ended(e, f) /\ loc' = [loc EXCEPT !.tp = ~e]
              /\ ~e => /\ tp'["https"] # None
                       /\ ~cmd.force => tp'["https"].cert = loc.cert
              /\ e /\ cmd.force /\ loc.um => f \/ (tp["https"] = None /\ loc.cert = None)
<1>1. /\ pc = "httpsProxy" /\ pc' = "httpsRule"
      /\ UNCHANGED <<hc, be, um, fr, cert, fw, ing, nodePort>>
  BY DEF createHTTPSProxy
<1>2. PICK o \in ensureHTTPSProxy(loc.um, loc.cert, cmd.force) :
        /\ tp' = [tp EXCEPT !["https"] = o.res]
        /\ loc' = [loc EXCEPT !.tp = ~o.err]
        /\ Record(o.err, o.fault)
  BY DEF createHTTPSProxy
<1>3. /\ TargetProxyTypeOK /\ loc.um \in BOOLEAN /\ cmd.force \in BOOLEAN
      /\ loc.cert \in CertLinks \cup {None}
  BY <1>1, RunningCommand DEF BaseInv, TypeInv, TypeOK, Locals
<1>4. /\ o \in Outcomes(TPs)
      /\ tp["https"] # None => o.res = tp["https"]
      /\ ~o.err => o.res # None /\ (~cmd.force => o.res.cert = loc.cert)
      /\ o.err /\ cmd.force /\ loc.um => o.fault \/ (tp["https"] = None /\ loc.cert = None)
  BY <1>3, ensureHTTPSProxyOutcome
<1>5. tp'["https"] = o.res /\ tp'["http"] = tp["http"]
  BY <1>2, <1>3 DEF TargetProxyTypeOK, Protocols
<1>6. Ended(o.err, o.fault) /\ o.err \in BOOLEAN /\ o.fault \in BOOLEAN
  BY <1>2, <1>4, Recorded DEF Ended, Outcomes
<1> QED BY <1>1, <1>2, <1>4, <1>5, <1>6

\* EnsureFirewallRule is the last call.
LEMMA createFirewallEffect ==
  ASSUME BaseInv, createFirewall
  PROVE  /\ pc = "firewall" /\ pc' = "done"
         /\ UNCHANGED <<hc, be, um, tp, fr, cert, ing, nodePort, loc>>
         /\ fw # None /\ ~cmd.force => fw' = fw
         /\ fw' \in {fw, desiredFirewallRule(loc.ports, KnownClusters)}
         /\ \E e, f \in BOOLEAN :
              /\ Ended(e, f)
              /\ ~e => fw' # None /\ fw' = desiredFirewallRule(loc.ports, KnownClusters)
              /\ ~e => None \notin getTargetTags(KnownClusters)
              /\ e /\ cmd.force => f \/ None \in getTargetTags(KnownClusters)
<1>1. /\ pc = "firewall" /\ pc' = "done"
      /\ UNCHANGED <<hc, be, um, tp, fr, cert, ing, nodePort, loc>>
  BY DEF createFirewall
<1>2. PICK o \in EnsureFirewallRule(loc.ports, KnownClusters, cmd.force) :
        fw' = o.res /\ Record(o.err, o.fault)
  BY DEF createFirewall
<1>3. FirewallRuleTypeOK /\ KnownClusters \in SUBSET Clusters /\ cmd.force \in BOOLEAN
  BY <1>1, RunningCommand, AllIGsType DEF BaseInv, TypeInv, TypeOK
<1>4. /\ o \in Outcomes(FWs)
      /\ o.res \in {fw, desiredFirewallRule(loc.ports, KnownClusters)}
      /\ fw # None /\ ~cmd.force => o.res = fw
      /\ ~o.err => o.res # None /\ o.res = desiredFirewallRule(loc.ports, KnownClusters)
      /\ ~o.err => None \notin getTargetTags(KnownClusters)
      /\ o.err /\ cmd.force => o.fault \/ None \in getTargetTags(KnownClusters)
  BY <1>3, EnsureFirewallRuleOutcome
<1>5. Ended(o.err, o.fault) /\ o.err \in BOOLEAN /\ o.fault \in BOOLEAN
  BY <1>2, <1>4, Recorded DEF Ended, Outcomes
<1> QED BY <1>1, <1>2, <1>4, <1>5
-----------------------------------------------------------------------------
(***************************************************************************)
(* As long as it has met no error, a create has built what the steps behind *)
(* it build.  Each part is named after the step that builds it.            *)
(***************************************************************************)
PastCert == {"httpsProxy", "httpsRule", "firewall", "done"}
PastHTTP == PastCert \cup {"sslCert"}
PastURLMap == PastHTTP \cup {"httpProxy", "httpRule"}
PastBackends == PastURLMap \cup {"urlMap"}
PastHealthChecks == PastBackends \cup {"getIGs", "backendService"}
PastIngress == PastHealthChecks \cup {"nodePorts", "healthCheck"}

IngressBuilt == \A c \in cmd.clusters : ing[c] # None

HealthChecksBuilt ==
  \A p \in NodePorts : loc.ports[p] # None =>
    /\ p \in loc.hcs
    /\ hc[p] = desiredHealthCheck(loc.ports[p],
                 getHealthCheckPath(loc.ports[p], cmd.clusters))

BackendsBuilt ==
  /\ \A p \in NodePorts : loc.ports[p] # None =>
       be[p] = desiredBackendService(loc.ports[p], AllIGs)
  /\ \A s \in Services :
       /\ loc.bes[s] # None => loc.bes[s] \in NodePorts /\ loc.ports[loc.bes[s]] = s
       /\ (\E p \in NodePorts : loc.ports[p] = s) => loc.bes[s] # None

URLMapBuilt ==
  /\ loc.um /\ um # None
  /\ cmd.spec.default # None /\ cmd.spec.ip # None
  /\ \A s \in ServicesOf(cmd.spec) : loc.bes[s] # None
  /\ um.default = loc.bes[cmd.spec.default]
  /\ \A s \in cmd.spec.paths : um.rules[s] = loc.bes[s]
  /\ um.st = [clusters |-> cmd.clusters, ip |-> cmd.spec.ip]

CertBuilt == cmd.spec.tls \in CertData => cert = cmd.spec.tls

HTTPSProxyBuilt ==
  cmd.spec.tls # None =>
    /\ tp["https"] # None
    /\ ~cmd.force => tp["https"].cert = certLink(cmd.spec.tls)

FrontendBuilt ==
  /\ pc \in {"httpProxy", "httpRule"} => cmd.spec.http
  /\ pc = "httpRule" => loc.tp /\ tp["http"] # None
  /\ pc \in PastHTTP /\ cmd.spec.http => ServesOver("http")
  /\ pc \in PastCert => CertBuilt
  /\ pc = "httpsProxy" => loc.cert = certLink(cmd.spec.tls)
  /\ pc = "httpsRule" => loc.tp
  /\ pc \in {"httpsRule", "firewall", "done"} => HTTPSProxyBuilt
  /\ pc \in {"firewall", "done"} /\ cmd.spec.tls # None => ServesOver("https")
  /\ pc = "done" => fw # None /\ fw = desiredFirewallRule(loc.ports, cmd.clusters)

BuiltSoFar ==
  /\ pc \in PastIngress => IngressBuilt
  /\ pc \in PastHealthChecks => HealthChecksBuilt
  /\ pc \in PastBackends => BackendsBuilt
  /\ pc \in PastURLMap => URLMapBuilt
  /\ FrontendBuilt

CreateInv == Creating /\ ~err => BuiltSoFar

(***************************************************************************)
(* The steps up to the instance groups.                                    *)
(***************************************************************************)
LEMMA createIngressBuilds ==
  ASSUME BaseInv, CreateInv, Creating, createValidate \/ createIngress
  PROVE  CreateInv'
<1> USE DEF CreateInv, BuiltSoFar, FrontendBuilt, PastIngress, PastHealthChecks,
        PastBackends, PastURLMap, PastHTTP, PastCert
<1>1. CASE createValidate
  BY <1>1, createValidateEffect DEF Ended
<1>2. CASE createIngress
  <2>1. PICK o : /\ IngressesEnsured(cmd.spec, cmd.clusters, cmd.force, o)
                 /\ ing' = Results(o) /\ Ended(AnyErr(o), AnyFault(o))
                 /\ pc' = IF AnyErr(o) THEN "done" ELSE "nodePorts"
    BY <1>2, createIngressEffect
  <2>2. cmd.clusters \subseteq Clusters
    BY RunningCommand DEF Creating, BaseInv, TypeInv
  <2>3. ~AnyErr(o) => IngressBuilt'
    BY <2>1, <2>2 DEF IngressesEnsured, IngressBuilt, Ended
  <2> QED BY <2>1, <2>3 DEF Ended
<1> QED BY <1>1, <1>2

\* The steps that only read.
LEMMA readingBuilds ==
  ASSUME BaseInv, CreateInv, Creating, createNodePorts \/ noIPAddress \/ getNamedPorts
  PROVE  CreateInv'
<1>1. /\ pc \in {"nodePorts", "getIGs"} /\ cmd' = cmd /\ (err => err')
      /\ UNCHANGED <<cloud, ing>>
  BY createNodePortsEffect, noIPAddressEffect, getNamedPortsEffect DEF Ended
<1>2. /\ pc' \in {"healthCheck", "backendService", "done"}
      /\ pc' = "done" => err'
      /\ pc' = "backendService" => pc = "getIGs"
  BY createNodePortsEffect, noIPAddressEffect, getNamedPortsEffect DEF Ended
<1>3. loc \in Locals
  BY DEF BaseInv, TypeInv, TypeOK
<1>4. pc = "getIGs" => loc'.ports = loc.ports /\ loc'.hcs = loc.hcs
  BY <1>3 DEF createNodePorts, noIPAddress, getNamedPorts, Locals
<1>5. ~err => IngressBuilt /\ (pc = "getIGs" => HealthChecksBuilt)
  BY <1>1 DEF CreateInv, BuiltSoFar, PastIngress, PastHealthChecks
<1>6. ~err => IngressBuilt' /\ (pc = "getIGs" => HealthChecksBuilt')
  BY <1>1, <1>4, <1>5 DEF IngressBuilt, HealthChecksBuilt, cloud
<1> QED BY <1>1, <1>2, <1>6 DEF CreateInv, BuiltSoFar, FrontendBuilt, PastIngress,
          PastHealthChecks, PastBackends, PastURLMap, PastHTTP, PastCert

\* Asking a cluster for its instance groups.
LEMMA getIGsBuilds ==
  ASSUME BaseInv, IGsInv, CreateInv, Creating, getIGs("getIGs")
  PROVE  CreateInv'
<1>1. /\ pc = "getIGs" /\ pc' = pc /\ cmd' = cmd /\ UNCHANGED <<cloud, ing>>
      /\ err => err'
      /\ loc' = [loc EXCEPT !.igs = loc'.igs, !.todo = loc'.todo]
  BY getIGsAnswer
<1>2. loc'.ports = loc.ports /\ loc'.hcs = loc.hcs
  BY <1>1 DEF BaseInv, TypeInv, TypeOK, Locals
<1>3. ~err => IngressBuilt /\ HealthChecksBuilt
  BY <1>1 DEF CreateInv, BuiltSoFar, PastIngress, PastHealthChecks
<1>4. ~err => IngressBuilt' /\ HealthChecksBuilt'
  BY <1>1, <1>2, <1>3 DEF IngressBuilt, HealthChecksBuilt, cloud
<1> QED BY <1>1, <1>4 DEF CreateInv, BuiltSoFar, FrontendBuilt, PastIngress,
          PastHealthChecks, PastBackends, PastURLMap, PastHTTP, PastCert

\* The health checks.
LEMMA createHealthChecksBuilds ==
  ASSUME BaseInv, CreateInv, Creating, createHealthChecks
  PROVE  CreateInv'
<1>1. pc = "healthCheck" /\ pc' = "getIGs" /\ UNCHANGED ing
  BY createHealthChecksEffect
<1>2. PICK o : /\ HealthChecksEnsured(loc.ports, cmd.clusters, cmd.force, o)
               /\ AnyErr(o) <=> \E p \in NodePorts : o[p].err
               /\ hc' = Results(o)
               /\ loc' = [loc EXCEPT !.hcs = {p \in NodePorts :
                                                loc.ports[p] # None /\ ~o[p].err}]
               /\ Ended(AnyErr(o), AnyFault(o))
  BY createHealthChecksEffect
<1>3. /\ loc'.ports = loc.ports
      /\ loc'.hcs = {p \in NodePorts : loc.ports[p] # None /\ ~o[p].err}
  BY <1>2 DEF BaseInv, TypeInv, TypeOK, Locals
<1>4. cmd' = cmd /\ err' = (err \/ AnyErr(o))
  BY <1>2 DEF Ended
<1>5. ~AnyErr(o) => HealthChecksBuilt'
  BY <1>2, <1>3, <1>4 DEF HealthChecksEnsured, HealthChecksBuilt
<1>6. ~err => IngressBuilt'
  BY <1>1, <1>4 DEF CreateInv, BuiltSoFar, PastIngress, IngressBuilt
<1> QED BY <1>1, <1>4, <1>5, <1>6 DEF CreateInv, BuiltSoFar, FrontendBuilt, PastIngress,
          PastHealthChecks, PastBackends, PastURLMap, PastHTTP, PastCert

\* The backend services, found again by the name of the service.
LEMMA ensuredFound ==
  ASSUME NEW ports, NEW o, NEW s \in Services, \A p \in NodePorts : ~o[p].err
  PROVE  LET b == ensuredBackendServices(ports, o)[s]
         IN  /\ b # None => b \in NodePorts /\ ports[b] = s
             /\ (\E p \in NodePorts : ports[p] = s) => b # None
<1> DEFINE Q(p) == ports[p] = s /\ ~o[p].err
           c == CHOOSE p \in NodePorts : Q(p)
           b == ensuredBackendServices(ports, o)[s]
<1>1. (\E p \in NodePorts : Q(p)) => c \in NodePorts /\ Q(c)
  BY Zenon
<1>2. b = IF \E p \in NodePorts : Q(p) THEN c ELSE None
  BY DEF ensuredBackendServices
<1>3. \A p \in NodePorts : ports[p] = s => Q(p)
  OBVIOUS
<1>4. None \notin NodePorts
  BY NoneAssumption
<1> HIDE DEF c, b
<1>5. /\ b # None => b \in NodePorts /\ ports[b] = s
      /\ (\E p \in NodePorts : ports[p] = s) => b # None
  BY <1>1, <1>2, <1>3, <1>4
<1> QED BY <1>5 DEF b

\* The backend services, and the links that the url map is made of.
LEMMA createBackendServicesBuilds ==
  ASSUME BaseInv, CreateInv, Creating, createBackendServices
  PROVE  CreateInv'
<1>1. pc = "backendService" /\ pc' = "urlMap" /\ UNCHANGED <<hc, ing>>
  BY createBackendServicesEffect
<1>2. PICK o : /\ BackendServicesEnsured(loc.ports, loc.hcs, loc.nps, AllIGs, cmd.force, o)
               /\ AnyErr(o) <=> \E p \in NodePorts : o[p].err
               /\ be' = Results(o)
               /\ loc' = [loc EXCEPT !.bes = ensuredBackendServices(loc.ports, o)]
               /\ Ended(AnyErr(o), AnyFault(o))
  BY createBackendServicesEffect
<1>3. /\ loc'.ports = loc.ports /\ loc'.hcs = loc.hcs /\ AllIGs' = AllIGs
      /\ loc'.bes = ensuredBackendServices(loc.ports, o)
  BY <1>2 DEF BaseInv, TypeInv, TypeOK, Locals, AllIGs
<1>4. cmd' = cmd /\ err' = (err \/ AnyErr(o))
  BY <1>2 DEF Ended
<1>5. ~AnyErr(o) => BackendsBuilt'
  <2>1. ~AnyErr(o) => \A p \in NodePorts : loc.ports[p] # None =>
          be'[p] = desiredBackendService(loc.ports[p], AllIGs)
    BY <1>2 DEF BackendServicesEnsured
  <2>2. ~AnyErr(o) => \A s \in Services :
          /\ loc'.bes[s] # None => loc'.bes[s] \in NodePorts /\ loc.ports[loc'.bes[s]] = s
          /\ (\E p \in NodePorts : loc.ports[p] = s) => loc'.bes[s] # None
    BY <1>2, <1>3, ensuredFound
  <2> QED BY <1>3, <2>1, <2>2 DEF BackendsBuilt
<1>6. ~err => IngressBuilt' /\ HealthChecksBuilt'
  BY <1>1, <1>3, <1>4 DEF CreateInv, BuiltSoFar, PastIngress, PastHealthChecks,
     IngressBuilt, HealthChecksBuilt
<1> QED BY <1>1, <1>4, <1>5, <1>6 DEF CreateInv, BuiltSoFar, FrontendBuilt, PastIngress,
          PastHealthChecks, PastBackends, PastURLMap, PastHTTP, PastCert

\* The steps after the backend services leave what the steps before built.
LEMMA BackendKept ==
  ASSUME BaseInv, CreateInv, Creating, ~err, pc \in PastBackends, cmd' = cmd,
         UNCHANGED <<hc, be, ing>>, loc'.ports = loc.ports, loc'.hcs = loc.hcs,
         loc'.bes = loc.bes, loc'.igs = loc.igs
  PROVE  IngressBuilt' /\ HealthChecksBuilt' /\ BackendsBuilt'
<1>1. IngressBuilt /\ HealthChecksBuilt /\ BackendsBuilt
  BY DEF CreateInv, BuiltSoFar, PastIngress, PastHealthChecks
<1>2. AllIGs' = AllIGs
  BY DEF AllIGs
<1> QED BY <1>1, <1>2 DEF IngressBuilt, HealthChecksBuilt, BackendsBuilt

\* A step that leaves the url map and its links alone keeps what is built of them.
LEMMA URLMapKept ==
  ASSUME CreateInv, Creating, ~err, pc \in PastURLMap, cmd' = cmd, um' = um,
         loc'.bes = loc.bes, loc'.um = loc.um
  PROVE  URLMapBuilt'
<1>1. URLMapBuilt
  BY DEF CreateInv, BuiltSoFar
<1> QED BY <1>1 DEF URLMapBuilt

\* The url map.
LEMMA createURLMapBuilds ==
  ASSUME BaseInv, CreateInv, Creating, createURLMap
  PROVE  CreateInv'
<1>1. /\ pc = "urlMap" /\ pc' = IF cmd.spec.http THEN "httpProxy" ELSE AfterHTTP
      /\ UNCHANGED <<hc, be, ing>>
  BY createURLMapEffect
<1>2. PICK o : /\ URLMapEnsured(cmd.spec, cmd.clusters, loc.bes, cmd.force, o)
               /\ um' = o.res /\ loc' = [loc EXCEPT !.um = ~o.err]
               /\ Ended(o.err, o.fault)
  BY createURLMapEffect
<1>3. /\ loc'.ports = loc.ports /\ loc'.hcs = loc.hcs /\ loc'.bes = loc.bes
      /\ loc'.igs = loc.igs /\ loc'.um = ~o.err
  BY <1>2 DEF BaseInv, TypeInv, TypeOK, Locals
<1>4. cmd' = cmd /\ err' = (err \/ o.err)
  BY <1>2 DEF Ended
<1>5. ~err => IngressBuilt' /\ HealthChecksBuilt' /\ BackendsBuilt'
  BY <1>1, <1>3, <1>4, BackendKept DEF PastBackends
<1>6. ~o.err => URLMapBuilt'
  <2>1. cmd.spec.ip # None
    BY <1>1 DEF BaseInv, TypeInv, StepKnows, CreateSteps
  <2> QED BY <1>2, <1>3, <1>4, <2>1 DEF URLMapEnsured, URLMapBuilt
<1>7. CASE cmd.spec.http
  BY <1>1, <1>4, <1>5, <1>6, <1>7 DEF CreateInv, BuiltSoFar, FrontendBuilt, PastIngress,
     PastHealthChecks, PastBackends, PastURLMap, PastHTTP, PastCert
<1>8. CASE ~cmd.spec.http /\ cmd.spec.tls # None
  BY <1>1, <1>4, <1>5, <1>6, <1>8 DEF CreateInv, BuiltSoFar, FrontendBuilt, PastIngress,
     PastHealthChecks, PastBackends, PastURLMap, PastHTTP, PastCert, AfterHTTP
<1>9. CASE ~cmd.spec.http /\ cmd.spec.tls = None
  <2>1. cmd.spec.tls \notin CertData
    BY <1>9, NoneAssumption
  <2> QED BY <1>1, <1>4, <1>5, <1>6, <1>9, <2>1 DEF CreateInv, BuiltSoFar, FrontendBuilt,
          PastIngress, PastHealthChecks, PastBackends, PastURLMap, PastHTTP, PastCert,
          AfterHTTP, CertBuilt, HTTPSProxyBuilt
<1> QED BY <1>7, <1>8, <1>9

\* What every step of the front end keeps.
FrontendStep ==
  /\ cmd' = cmd /\ UNCHANGED <<hc, be, um, ing>>
  /\ loc'.ports = loc.ports /\ loc'.hcs = loc.hcs /\ loc'.bes = loc.bes
  /\ loc'.igs = loc.igs /\ loc'.um = loc.um
  /\ err => err'

\* So a step on the front end has only the front end to answer for.
LEMMA FrontendStepBuilds ==
  ASSUME BaseInv, CreateInv, Creating, FrontendStep, pc \in PastURLMap,
         pc' \in PastURLMap, ~err' => FrontendBuilt'
  PROVE  CreateInv'
<1>1. ~err => IngressBuilt' /\ HealthChecksBuilt' /\ BackendsBuilt'
  BY BackendKept DEF FrontendStep, PastBackends
<1>2. ~err => URLMapBuilt'
  BY URLMapKept DEF FrontendStep
<1> QED BY <1>1, <1>2 DEF CreateInv, BuiltSoFar, FrontendStep

\* The HTTP proxy.
LEMMA createHTTPProxyBuilds ==
  ASSUME BaseInv, CreateInv, Creating, createHTTPProxy
  PROVE  CreateInv'
<1>1. /\ pc = "httpProxy" /\ pc' = "httpRule" /\ UNCHANGED <<hc, be, um, ing>>
  BY createHTTPProxyEffect
<1>2. PICK e, f \in BOOLEAN : /\ Ended(e, f) /\ loc' = [loc EXCEPT !.tp = ~e]
                              /\ ~e => tp'["http"] # None
  BY createHTTPProxyEffect
<1>3. FrontendStep /\ loc'.tp = ~e /\ (~err' => ~err /\ ~e)
  BY <1>1, <1>2 DEF Ended, FrontendStep, BaseInv, TypeInv, TypeOK, Locals
<1>4. ~err => cmd.spec.http
  BY <1>1 DEF CreateInv, BuiltSoFar, FrontendBuilt
<1>5. ~err' => FrontendBuilt'
  BY <1>1, <1>2, <1>3, <1>4 DEF FrontendBuilt, FrontendStep, PastHTTP, PastCert
<1> QED BY <1>1, <1>3, <1>5, FrontendStepBuilds DEF PastURLMap

\* The HTTP rule completes the HTTP half of the front end.
LEMMA createHTTPRuleBuilds ==
  ASSUME BaseInv, CreateInv, Creating, createRule("httpRule", "http", AfterHTTP)
  PROVE  CreateInv'
<1>1. /\ pc = "httpRule" /\ pc' = AfterHTTP /\ UNCHANGED <<hc, be, um, tp, cert, ing, loc>>
      /\ \E e, f \in BOOLEAN :
           Ended(e, f) /\ (~e => fr'["http"] = desiredForwardingRule(cmd.spec.ip))
  BY createRuleEffect DEF Protocols
<1>2. PICK e, f \in BOOLEAN :
        Ended(e, f) /\ (~e => fr'["http"] = desiredForwardingRule(cmd.spec.ip))
  BY <1>1
<1>3. FrontendStep /\ (~err' => ~err /\ ~e)
  BY <1>1, <1>2 DEF Ended, FrontendStep
<1>4. ~err => cmd.spec.http /\ tp["http"] # None
  BY <1>1 DEF CreateInv, BuiltSoFar, FrontendBuilt
<1>5. ~err' => ServesOver("http")'
  BY <1>1, <1>2, <1>3, <1>4 DEF ServesOver, FrontendStep
<1>6. ~err' => FrontendBuilt'
  <2>1. CASE cmd.spec.tls # None
    BY <1>1, <1>3, <1>5, <2>1 DEF FrontendBuilt, FrontendStep, PastHTTP, PastCert, AfterHTTP
  <2>2. CASE cmd.spec.tls = None
    <3>1. cmd.spec.tls \notin CertData
      BY <2>2, NoneAssumption
    <3> QED BY <1>1, <1>3, <1>5, <2>2, <3>1 DEF FrontendBuilt, FrontendStep, AfterHTTP,
            CertBuilt, HTTPSProxyBuilt
  <2> QED BY <2>1, <2>2
<1>7. pc' \in PastURLMap
  BY <1>1 DEF AfterHTTP, PastURLMap, PastHTTP, PastCert
<1> QED BY <1>1, <1>3, <1>6, <1>7, FrontendStepBuilds DEF PastURLMap

\* The certificate.
LEMMA createSSLCertBuilds ==
  ASSUME BaseInv, CreateInv, Creating, createSSLCert
  PROVE  CreateInv'
<1>1. pc = "sslCert" /\ pc' = "httpsProxy" /\ UNCHANGED <<hc, be, um, tp, fr, ing>>
  BY createSSLCertEffect
<1>2. PICK e, f \in BOOLEAN :
        /\ Ended(e, f)
        /\ loc' = [loc EXCEPT !.cert = IF e THEN None ELSE certLink(cmd.spec.tls)]
        /\ ~e /\ cmd.spec.tls \in CertData => cert' = cmd.spec.tls
  BY createSSLCertEffect
<1>3. /\ FrontendStep /\ (~err' => ~err /\ ~e)
      /\ loc'.cert = IF e THEN None ELSE certLink(cmd.spec.tls)
  BY <1>1, <1>2 DEF Ended, FrontendStep, BaseInv, TypeInv, TypeOK, Locals
<1>4. ~err /\ cmd.spec.http => ServesOver("http")
  BY <1>1 DEF CreateInv, BuiltSoFar, FrontendBuilt, PastHTTP
<1>5. ~err' => FrontendBuilt'
  BY <1>1, <1>2, <1>3, <1>4 DEF FrontendBuilt, FrontendStep, ServesOver, CertBuilt
<1>6. pc \in PastURLMap /\ pc' \in PastURLMap
  BY <1>1 DEF PastURLMap, PastHTTP, PastCert
<1> QED BY <1>3, <1>5, <1>6, FrontendStepBuilds

\* The HTTPS proxy.
LEMMA createHTTPSProxyBuilds ==
  ASSUME BaseInv, CreateInv, Creating, createHTTPSProxy
  PROVE  CreateInv'
<1>1. /\ pc = "httpsProxy" /\ pc' = "httpsRule"
      /\ UNCHANGED <<hc, be, um, fr, cert, ing, tp["http"]>>
  BY createHTTPSProxyEffect
<1>2. PICK e, f \in BOOLEAN :
        /\ Ended(e, f) /\ loc' = [loc EXCEPT !.tp = ~e]
        /\ ~e => /\ tp'["https"] # None
                 /\ ~cmd.force => tp'["https"].cert = loc.cert
  BY createHTTPSProxyEffect
<1>3. FrontendStep /\ (~err' => ~err /\ ~e) /\ loc'.tp = ~e
  BY <1>1, <1>2 DEF Ended, FrontendStep, BaseInv, TypeInv, TypeOK, Locals
<1>4. ~err => /\ cmd.spec.http => ServesOver("http")
              /\ CertBuilt /\ loc.cert = certLink(cmd.spec.tls)
  BY <1>1 DEF CreateInv, BuiltSoFar, FrontendBuilt, PastHTTP, PastCert
<1>5. ~err' => FrontendBuilt'
  BY <1>1, <1>2, <1>3, <1>4 DEF FrontendBuilt, FrontendStep, ServesOver, CertBuilt,
     HTTPSProxyBuilt
<1>6. pc \in PastURLMap /\ pc' \in PastURLMap
  BY <1>1 DEF PastURLMap, PastHTTP, PastCert
<1> QED BY <1>3, <1>5, <1>6, FrontendStepBuilds

\* The HTTPS forwarding rule.
LEMMA createHTTPSRuleBuilds ==
  ASSUME BaseInv, CreateInv, Creating, createRule("httpsRule", "https", "firewall")
  PROVE  CreateInv'
<1>1. /\ pc = "httpsRule" /\ pc' = "firewall"
      /\ UNCHANGED <<hc, be, um, tp, cert, ing, loc, fr["http"]>>
      /\ \E e, f \in BOOLEAN :
           Ended(e, f) /\ (~e => fr'["https"] = desiredForwardingRule(cmd.spec.ip))
  BY createRuleEffect DEF Protocols
<1>2. PICK e, f \in BOOLEAN :
        Ended(e, f) /\ (~e => fr'["https"] = desiredForwardingRule(cmd.spec.ip))
  BY <1>1
<1>3. FrontendStep /\ (~err' => ~err /\ ~e)
  BY <1>1, <1>2 DEF Ended, FrontendStep
<1>4. ~err => /\ cmd.spec.http => ServesOver("http")
              /\ CertBuilt /\ HTTPSProxyBuilt
  BY <1>1 DEF CreateInv, BuiltSoFar, FrontendBuilt, PastHTTP, PastCert
<1>5. ~err' => FrontendBuilt'
  BY <1>1, <1>2, <1>3, <1>4 DEF FrontendBuilt, FrontendStep, ServesOver, CertBuilt,
     HTTPSProxyBuilt
<1>6. pc \in PastURLMap /\ pc' \in PastURLMap
  BY <1>1 DEF PastURLMap, PastHTTP, PastCert
<1> QED BY <1>3, <1>5, <1>6, FrontendStepBuilds

\* The firewall rule opens the ports on the clusters that answered getIGs,
\* which are all of them if there was no error.
LEMMA createFirewallBuilds ==
  ASSUME BaseInv, IGsInv, CreateInv, Creating, createFirewall
  PROVE  CreateInv'
<1>1. pc = "firewall" /\ pc' = "done" /\ UNCHANGED <<hc, be, um, tp, fr, cert, ing, loc>>
  BY createFirewallEffect
<1>2. PICK e, f \in BOOLEAN :
        /\ Ended(e, f)
        /\ ~e => fw' # None /\ fw' = desiredFirewallRule(loc.ports, KnownClusters)
  BY createFirewallEffect
<1>3. FrontendStep /\ (~err' => ~err /\ ~e)
  BY <1>1, <1>2 DEF Ended, FrontendStep
<1>4. ~err => /\ cmd.spec.http => ServesOver("http")
              /\ cmd.spec.tls # None => ServesOver("https")
              /\ CertBuilt /\ HTTPSProxyBuilt
  BY <1>1 DEF CreateInv, BuiltSoFar, FrontendBuilt, PastHTTP, PastCert
<1>5. ~err => KnownClusters = cmd.clusters
  BY <1>1, AllKnown DEF AskedAll
<1>6. ~err' => FrontendBuilt'
  BY <1>1, <1>2, <1>3, <1>4, <1>5 DEF FrontendBuilt, FrontendStep, ServesOver, CertBuilt,
     HTTPSProxyBuilt
<1>7. pc \in PastURLMap /\ pc' \in PastURLMap
  BY <1>1 DEF PastURLMap, PastHTTP, PastCert
<1> QED BY <1>3, <1>6, <1>7, FrontendStepBuilds

\* Every step of create.
LEMMA CreateStepBuilds ==
  ASSUME BaseInv, IGsInv, CreateInv, Creating, CreateStep
  PROVE  CreateInv'
BY createIngressBuilds, readingBuilds, getIGsBuilds, createHealthChecksBuilds,
   createBackendServicesBuilds, createURLMapBuilds, createHTTPProxyBuilds,
   createHTTPRuleBuilds, createSSLCertBuilds, createHTTPSProxyBuilds,
   createHTTPSRuleBuilds, createFirewallBuilds DEF CreateStep, CreateLoadBalancer

\* CreateInv is inductive with what is known of all commands.
LEMMA NextCreate ==
  BaseInv /\ IGsInv /\ CreateInv /\ [Next]_vars => CreateInv'
<1> SUFFICES ASSUME BaseInv, IGsInv, CreateInv, [Next]_vars PROVE CreateInv'
  OBVIOUS
<1>1. ASSUME NEW c \in Commands, Run(c) PROVE CreateInv'
  <2>1. cmd' = c /\ pc' = FirstStep(c)
    BY <1>1 DEF Run
  <2>2. Creating' => pc' = "validate"
    BY <2>1 DEF Creating, FirstStep
  <2> QED BY <2>2 DEF CreateInv, BuiltSoFar, FrontendBuilt, PastIngress,
          PastHealthChecks, PastBackends, PastURLMap, PastHTTP, PastCert
<1>2. CASE pc # "idle" /\ Ends
  BY <1>2 DEF Ends, CreateInv, Creating
<1>3. CASE Bystander
  <2>1. UNCHANGED <<hc, be, um, tp, fr, cert, fw, pc, cmd, err, loc>> /\ AllIGs' = AllIGs
    BY <1>3 DEF Bystander, cloud, AllIGs
  <2>2. pc # "idle" => cmd.clusters \subseteq Clusters
    BY RunningCommand DEF BaseInv, TypeInv
  <2>3. Creating /\ IngressBuilt => IngressBuilt'
    BY <1>3, <2>1, <2>2 DEF Bystander, Annotated, IngressBuilt, Creating
  <2>4. /\ HealthChecksBuilt => HealthChecksBuilt'
        /\ BackendsBuilt => BackendsBuilt'
        /\ URLMapBuilt => URLMapBuilt'
    BY <2>1 DEF HealthChecksBuilt, BackendsBuilt, URLMapBuilt
  <2>5. FrontendBuilt => FrontendBuilt'
    BY <2>1 DEF FrontendBuilt, ServesOver, CertBuilt, HTTPSProxyBuilt
  <2> QED BY <2>1, <2>3, <2>4, <2>5 DEF CreateInv, Creating, BuiltSoFar
<1>4. CASE pc # "idle" /\ cmd' = cmd /\ OwnStepOf(cmd.op)
  <2>1. CASE cmd.op = "create"
    BY <1>4, <2>1, CreateStepBuilds DEF Creating, OwnStepOf
  <2>2. CASE cmd.op # "create"
    BY <1>4, <2>2 DEF CreateInv, Creating
  <2> QED BY <2>1, <2>2
<1> QED BY <1>1, <1>2, <1>3, <1>4, StepKinds

\* So it holds in every reachable state.
LEMMA CreateInvariant ==
  Spec => [](CommandInv /\ CreateInv)
<1>1. Init => CreateInv
  BY DEF Init, Idle, CreateInv, Creating
<1>2. CommandInv /\ CreateInv /\ [Next]_vars => CreateInv'
  BY NextCreate DEF CommandInv
<1> QED BY <1>1, <1>2, CommandsInvariant, PTL DEF Spec

(***************************************************************************)
(* CreateCompletes: a create that reports success has built every resource *)
(* of the chain and linked each to the next, for all the clusters it was   *)
(* given, whatever it found in the cloud and whichever of its calls were   *)
(* answered with a fault that its error handling dropped.                  *)
(***************************************************************************)
THEOREM CreateCompletes ==
  Spec => []CreateComplete
<1>1. CommandInv /\ CreateInv => CreateComplete
  <2> SUFFICES ASSUME CommandInv, CreateInv, Done("create"), ~err PROVE CreateComplete
    BY DEF CreateComplete
  <2>1. pc = "done" /\ pc # "idle" /\ cmd.op = "create"
    BY DEF Done
  <2>2. KnownClusters = cmd.clusters
    BY <2>1, AllKnown DEF CommandInv, AskedAll
  <2>3. HealthChecksBuilt /\ BackendsBuilt /\ URLMapBuilt /\ FrontendBuilt
    BY <2>1 DEF CreateInv, Creating, BuiltSoFar, PastHealthChecks, PastBackends,
       PastURLMap, PastHTTP, PastCert
  <2>4. cmd.spec \in SpecType
    BY <2>1, RunningCommand DEF CommandInv, BaseInv, TypeInv
  <2>5. ASSUME NEW s \in ServicesOf(cmd.spec)
        PROVE  \E p \in NodePorts :
                 /\ Routed(s, cmd.spec, p)
                 /\ be[p] = desiredBackendService(s, AllIGs)
                 /\ hc[p] = desiredHealthCheck(s, getHealthCheckPath(s, cmd.clusters))
    <3>1. s \in Services /\ s # None
      BY <2>4 DEF ServicesOf, SpecType
    <3>2. loc.bes[s] \in NodePorts /\ loc.ports[loc.bes[s]] = s
      BY <2>3, <3>1 DEF URLMapBuilt, BackendsBuilt
    <3>3. Routed(s, cmd.spec, loc.bes[s])
      BY <2>3, <3>2 DEF URLMapBuilt, Routed
    <3> QED BY <2>3, <3>1, <3>2, <3>3 DEF HealthChecksBuilt, BackendsBuilt
  <2>6. /\ um # None /\ um.st = [clusters |-> cmd.clusters, ip |-> cmd.spec.ip]
    BY <2>3 DEF URLMapBuilt
  <2>7. /\ cmd.spec.http => ServesOver("http")
        /\ cmd.spec.tls # None => ServesOver("https")
        /\ cmd.spec.tls \in CertData => cert = cmd.spec.tls
        /\ cmd.spec.tls # None /\ ~cmd.force => tp["https"].cert = certLink(cmd.spec.tls)
        /\ fw = desiredFirewallRule(loc.ports, cmd.clusters)
    BY <2>1, <2>3 DEF FrontendBuilt, PastHTTP, PastCert, CertBuilt, HTTPSProxyBuilt
  <2> QED BY <2>2, <2>5, <2>6, <2>7 DEF CreateComplete
<1> QED BY <1>1, CreateInvariant, PTL

-----------------------------------------------------------------------------
(***************************************************************************)
(* What exists stays as it is; only the annotations may change.            *)
(***************************************************************************)
KeptAll ==
  /\ \A p \in NodePorts : Kept(hc[p], hc'[p]) /\ Kept(be[p], be'[p])
  /\ \A q \in Protocols : Kept(tp[q], tp'[q]) /\ Kept(fr[q], fr'[q])
  /\ Kept(um, um') /\ Kept(cert, cert') /\ Kept(fw, fw')
  /\ \A c \in Clusters :
       ing[c] # None => ing'[c] # None /\ ing'[c].spec = ing[c].spec

\* The parts that a step leaves alone are kept.
LEMMA KeptParts ==
  /\ hc' = hc => \A p \in NodePorts : Kept(hc[p], hc'[p])
  /\ be' = be => \A p \in NodePorts : Kept(be[p], be'[p])
  /\ tp' = tp => \A q \in Protocols : Kept(tp[q], tp'[q])
  /\ fr' = fr => \A q \in Protocols : Kept(fr[q], fr'[q])
  /\ um' = um => Kept(um, um')
  /\ cert' = cert => Kept(cert, cert')
  /\ fw' = fw => Kept(fw, fw')
  /\ ing' = ing => \A c \in Clusters :
                     ing[c] # None => ing'[c] # None /\ ing'[c].spec = ing[c].spec
BY DEF Kept

\* Every step of a create without --force keeps what exists.
LEMMA CreateStepKeeps ==
  ASSUME BaseInv, IGsInv, Creating, ~cmd.force, CreateStep
  PROVE  KeptAll
<1>1. CASE \/ createValidate \/ createNodePorts \/ noIPAddress
           \/ getIGs("getIGs") \/ getNamedPorts
  <2>1. UNCHANGED <<hc, be, um, tp, fr, cert, fw, ing>>
    BY <1>1, createValidateEffect, createNodePortsEffect, noIPAddressEffect,
       getNamedPortsEffect, getIGsAnswer DEF cloud
  <2> QED BY <2>1, KeptParts DEF KeptAll
<1>2. CASE createIngress
  <2>1. PICK o : /\ IngressesEnsured(cmd.spec, cmd.clusters, cmd.force, o)
                 /\ ing' = Results(o)
    BY <1>2, createIngressEffect
  <2>2. UNCHANGED <<hc, be, um, tp, fr, cert, fw>>
    BY <1>2, createIngressEffect DEF cloud
  <2>3. \A c \in Clusters : ing[c] # None => ing'[c] = ing[c]
    BY <2>1 DEF IngressesEnsured
  <2> QED BY <2>2, <2>3, KeptParts DEF KeptAll
<1>3. CASE createHealthChecks
  <2>1. PICK o : /\ HealthChecksEnsured(loc.ports, cmd.clusters, cmd.force, o)
                 /\ hc' = Results(o)
    BY <1>3, createHealthChecksEffect
  <2>2. UNCHANGED <<be, um, tp, fr, cert, fw, ing>>
    BY <1>3, createHealthChecksEffect
  <2>3. \A p \in NodePorts : Kept(hc[p], hc'[p])
    BY <2>1 DEF HealthChecksEnsured, Kept
  <2> QED BY <2>2, <2>3, KeptParts DEF KeptAll
<1>4. CASE createBackendServices
  <2>1. PICK o : /\ BackendServicesEnsured(loc.ports, loc.hcs, loc.nps, AllIGs,
                                           cmd.force, o)
                 /\ be' = Results(o)
    BY <1>4, createBackendServicesEffect
  <2>2. UNCHANGED <<hc, um, tp, fr, cert, fw, ing>>
    BY <1>4, createBackendServicesEffect
  <2>3. \A p \in NodePorts : Kept(be[p], be'[p])
    BY <2>1 DEF BackendServicesEnsured, Kept
  <2> QED BY <2>2, <2>3, KeptParts DEF KeptAll
<1>5. CASE createURLMap
  <2>1. PICK o : /\ URLMapEnsured(cmd.spec, cmd.clusters, loc.bes, cmd.force, o)
                 /\ um' = o.res
    BY <1>5, createURLMapEffect
  <2>2. UNCHANGED <<hc, be, tp, fr, cert, fw, ing>>
    BY <1>5, createURLMapEffect
  <2>3. Kept(um, um')
    BY <2>1 DEF URLMapEnsured, Kept
  <2> QED BY <2>2, <2>3, KeptParts DEF KeptAll
<1>6. CASE createHTTPProxy \/ createHTTPSProxy
  <2>1. \A q \in Protocols : Kept(tp[q], tp'[q])
    BY <1>6, createHTTPProxyEffect, createHTTPSProxyEffect DEF Kept, Protocols
  <2>2. UNCHANGED <<hc, be, um, fr, cert, fw, ing>>
    BY <1>6, createHTTPProxyEffect, createHTTPSProxyEffect
  <2> QED BY <2>1, <2>2, KeptParts DEF KeptAll
<1>7. ASSUME NEW here \in {"httpRule", "httpsRule"}, NEW next, NEW q \in Protocols,
             createRule(here, q, next)
      PROVE  KeptAll
  <2>1. /\ UNCHANGED <<hc, be, um, tp, cert, fw, ing>>
        /\ \A r \in Protocols : r # q => fr'[r] = fr[r]
        /\ fr[q] # None /\ ~cmd.force => fr'[q] = fr[q]
    BY <1>7, createRuleEffect
  <2>2. \A r \in Protocols : Kept(fr[r], fr'[r])
    BY <2>1 DEF Kept
  <2> QED BY <2>1, <2>2, KeptParts DEF KeptAll
<1>8. CASE createSSLCert
  <2>1. UNCHANGED <<hc, be, um, tp, fr, fw, ing>> /\ Kept(cert, cert')
    BY <1>8, createSSLCertEffect DEF Kept
  <2> QED BY <2>1, KeptParts DEF KeptAll
<1>9. CASE createFirewall
  <2>1. UNCHANGED <<hc, be, um, tp, fr, cert, ing>> /\ Kept(fw, fw')
    BY <1>9, createFirewallEffect DEF Kept
  <2> QED BY <2>1, KeptParts DEF KeptAll
<1>10. "http" \in Protocols /\ "https" \in Protocols
  BY DEF Protocols
<1> QED BY <1>1, <1>2, <1>3, <1>4, <1>5, <1>6, <1>7, <1>8, <1>9, <1>10
        DEF CreateStep, CreateLoadBalancer

(***************************************************************************)
(* NoOverwrites: a create without --force only ever adds.  It never        *)
(* changes or deletes a resource that exists, in the cloud or in a         *)
(* cluster, whatever it found and whatever its calls answered.             *)
(***************************************************************************)
THEOREM NoOverwrites ==
  Spec => NoOverwriteWithoutForce
<1> DEFINE A == pc # "idle" /\ cmd.op = "create" /\ ~cmd.force => KeptAll
<1>1. CommandInv /\ [Next]_vars => [A]_vars
  <2> SUFFICES ASSUME CommandInv, [Next]_vars, Creating, ~cmd.force PROVE KeptAll
    BY DEF Creating
  <2>1. CASE Ends
    BY <2>1, KeptParts DEF Ends, cloud, KeptAll
  <2>2. CASE Bystander
    <3>1. \A c \in Clusters :
            ing[c] # None => ing'[c] # None /\ ing'[c].spec = ing[c].spec
      BY <2>2 DEF Bystander, Annotated
    <3> QED BY <2>2, <3>1, KeptParts DEF Bystander, cloud, KeptAll
  <2>3. CASE OwnStepOf(cmd.op)
    BY <2>3, CreateStepKeeps DEF OwnStepOf, Creating, CommandInv
  <2>4. \A c \in Commands : ~Run(c)
    BY DEF Run, Creating
  <2> QED BY <2>1, <2>2, <2>3, <2>4, StepKinds DEF CommandInv
<1>2. A <=> (pc # "idle" /\ cmd.op = "create" /\ ~cmd.force =>
       /\ \A p \in NodePorts : Kept(hc[p], hc'[p]) /\ Kept(be[p], be'[p])
       /\ \A q \in Protocols : Kept(tp[q], tp'[q]) /\ Kept(fr[q], fr'[q])
       /\ Kept(um, um') /\ Kept(cert, cert') /\ Kept(fw, fw')
       /\ \A c \in Clusters :
            ing[c] # None => ing'[c] # None /\ ing'[c].spec = ing[c].spec)
  BY DEF KeptAll
<1> QED BY <1>1, <1>2, CommandsInvariant, PTL DEF Spec, NoOverwriteWithoutForce

-----------------------------------------------------------------------------
(***************************************************************************)
(* What get-status and list find after a create that succeeded.  stable is *)
(* the command that Return saw succeed; until the next command nothing     *)
(* changes the url map or the rules.  RulesPlain says that no https rule   *)
(* carries a status, which no step of the code ever writes.                *)
(***************************************************************************)
RulesPlain == fr["https"] # None => fr["https"].st = None

StableBuilt ==
  pc = "idle" /\ stable # None =>
    /\ um # None /\ um.st = [clusters |-> stable.clusters, ip |-> stable.spec.ip]
    /\ stable.spec.ip # None
    /\ stable.spec.http => fr["http"] = desiredForwardingRule(stable.spec.ip)

\* No step writes a status on the HTTPS rule.
LEMMA NextPlain ==
  CommandInv /\ RulesPlain /\ [Next]_vars => RulesPlain'
<1> SUFFICES ASSUME CommandInv, RulesPlain, [Next]_vars PROVE RulesPlain'
  OBVIOUS
<1>1. CASE fr' = fr
  BY <1>1 DEF RulesPlain
<1>2. CASE CreateStep
  <2>1. CASE createRule("httpRule", "http", AfterHTTP)
    BY <2>1, createRuleEffect DEF Protocols, RulesPlain, CommandInv
  <2>2. CASE createRule("httpsRule", "https", "firewall")
    <3>1. fr'["https"] \in {fr["https"], None, desiredForwardingRule(cmd.spec.ip)}
      BY <2>2, createRuleEffect DEF Protocols, CommandInv
    <3> QED BY <3>1 DEF RulesPlain, desiredForwardingRule
  <2> QED BY <1>1, <1>2, <2>1, <2>2 DEF CreateStep, CreateLoadBalancer, createValidate,
          createIngress, createNodePorts, readNodePorts, noIPAddress, createHealthChecks,
          getIGs, getNamedPorts, createBackendServices, createURLMap, createHTTPProxy,
          createSSLCert, createHTTPSProxy, createFirewall, cloud
<1>3. CASE DeleteLoadBalancer
  <2>1. CASE deleteRules
    <3>1. PICK o \in DeleteForwardingRules : fr' = Results(o)
      BY <2>1 DEF deleteRules
    <3>2. Results(o)["https"] \in {fr["https"], None}
      BY DeleteForwardingRulesOutcome DEF CommandInv, BaseInv, TypeInv, TypeOK, Protocols
    <3> QED BY <3>1, <3>2 DEF RulesPlain
  <2> QED BY <1>1, <1>3, <2>1 DEF DeleteLoadBalancer, deleteFirewall, deleteProxies,
          deleteCert, deleteURLMap, deletePorts, readNodePorts, deleteBackends,
          deleteHealthChecks, cloud
<1>4. CASE RemoveLoadBalancerFromClusters
  <2>1. CASE removeFromStatus
    <3>1. PICK o \in ForwardingRuleRemoveClustersFromStatus(cmd.clusters) :
            fr' = Results(o)
      BY <2>1 DEF removeFromStatus
    <3>2. Results(o)["https"] = fr["https"]
      BY ForwardingRuleRemoveOutcome DEF CommandInv, BaseInv, TypeInv, TypeOK, Protocols
    <3> QED BY <3>1, <3>2 DEF RulesPlain
  <2> QED BY <1>1, <1>4, <2>1 DEF RemoveLoadBalancerFromClusters, removeStatusCheck,
          removeNodePorts, readNodePorts, getIGs, afterRemoveIGs, removeFromFirewall,
          removeFromBackends, cloud
<1>5. CASE deleteIngress
  BY <1>1, <1>5 DEF deleteIngress, cloud
<1>6. CASE Ends \/ Bystander \/ \E c \in Commands : Run(c)
  BY <1>1, <1>6 DEF Ends, Bystander, Run, cloud
<1>7. CASE OwnStepOf(cmd.op)
  <2>1. pc # "idle" => cmd.op \in {"create", "delete", "remove"}
    BY RunningCommand DEF CommandInv, BaseInv, TypeInv
  <2> QED BY <1>2, <1>3, <1>4, <1>5, <1>6, <1>7, <2>1, StepKinds DEF OwnStepOf, CommandInv
<1> QED BY <1>6, <1>7, StepKinds DEF CommandInv

\* What a successful create left stays until the next command.
LEMMA NextStable ==
  CommandInv /\ CreateInv /\ StableBuilt /\ [Next]_vars => StableBuilt'
<1> SUFFICES ASSUME CommandInv, CreateInv, StableBuilt, [Next]_vars,
                    pc' = "idle", stable' # None
             PROVE  /\ um' # None
                    /\ um'.st = [clusters |-> stable'.clusters, ip |-> stable'.spec.ip]
                    /\ stable'.spec.ip # None
                    /\ stable'.spec.http => fr'["http"] = desiredForwardingRule(stable'.spec.ip)
  BY DEF StableBuilt
<1>1. CASE pc = "idle" /\ stable' = stable /\ UNCHANGED <<um, fr>>
  BY <1>1 DEF StableBuilt
<1>2. CASE Return
  <2>1. pc = "done" /\ cmd.op = "create" /\ ~err /\ stable' = cmd /\ UNCHANGED <<um, fr>>
    BY <1>2 DEF Return, cloud
  <2>2. URLMapBuilt /\ FrontendBuilt
    BY <2>1 DEF CreateInv, Creating, BuiltSoFar, PastURLMap, PastHTTP, PastCert
  <2> QED BY <2>1, <2>2 DEF URLMapBuilt, FrontendBuilt, PastHTTP, PastCert, ServesOver
<1>3. CASE UNCHANGED vars \/ \E c \in Clusters : Annotate(c)
  BY <1>1, <1>3 DEF vars, Annotate, cloud
<1>4. CASE ChangeServices \/ Crash
  BY <1>4 DEF ChangeServices, Crash
<1>5. ASSUME NEW c \in Commands, Run(c) PROVE FALSE
  <2>1. c.op \in {"create", "delete", "remove"}
    BY ConfigAssumption DEF CommandType
  <2> QED BY <1>5, <2>1 DEF Run, FirstStep
<1>6. CASE createValidate \/ createIngress \/ LoadBalancerStep \/ deleteIngress
  <2>1. OwnSteps' /\ cmd' = cmd /\ pc # "idle"
    BY <1>6, CreateSteppedOn, DeleteSteppedOn, RemoveSteppedOn, OtherSteppedOn
       DEF LoadBalancerStep, CommandInv
  <2>2. BaseInv'
    BY NextBase DEF CommandInv
  <2> QED BY <2>1, <2>2, RunningCommand DEF CommandInv, BaseInv, TypeInv, TypeOK
<1> QED BY <1>2, <1>3, <1>4, <1>5, <1>6 DEF Next, CommandStep

(***************************************************************************)
(* ListsAsBuilt: after a create that succeeded, get-status shows its       *)
(* clusters and its address, and list shows the load balancer exactly      *)
(* once.  The hypothesis is about what an old kubemci left: if it had kept *)
(* a status on an https rule, an ingress for HTTP would leave that rule    *)
(* alone and list would show it too.                                       *)
(***************************************************************************)
THEOREM ListsAsBuilt ==
  ASSUME \A lb \in LegacyLBs : lb.fr["https"] # None => lb.fr["https"].st = None
  PROVE  Spec => []ListedAsBuilt
<1>1. Init => RulesPlain /\ StableBuilt
  BY DEF Init, RulesPlain, StableBuilt, NoLoadBalancer, Protocols
<1>2. CommandInv /\ CreateInv /\ RulesPlain /\ StableBuilt => ListedAsBuilt
  <2> SUFFICES ASSUME CommandInv, RulesPlain, StableBuilt, pc = "idle",
                      stable # None, stable.spec.http
               PROVE  ListedAsBuilt
    BY DEF ListedAsBuilt
  <2> DEFINE st == [clusters |-> stable.clusters, ip |-> stable.spec.ip]
  <2>1. um # None /\ um.st = st /\ fr["http"] = desiredForwardingRule(stable.spec.ip)
    BY DEF StableBuilt
  <2>2. st # None
    <3>1. stable \in CommandType /\ stable.spec.ip # None
      BY ConfigAssumption DEF CommandInv, BaseInv, TypeInv, TypeOK, StableBuilt
    <3>2. stable.clusters \in SUBSET Clusters /\ stable.spec.ip \in IPs
      BY <3>1, ConfigAssumption DEF CommandType, SpecType
    <3>3. st \in Status
      BY <3>2 DEF Status
    <3> QED BY <3>3, NoneAssumption
  <2>3. PrintStatus = st
    BY <2>1, <2>2 DEF PrintStatus, getLoadBalancerStatus
  <2>4. {q \in Protocols : fr[q] # None /\ fr[q].st # None} = {}
    BY <2>1 DEF RulesPlain, Protocols, desiredForwardingRule
  <2>5. ListRuleStatuses = {<<>>}
    BY <2>4 DEF ListRuleStatuses
  <2>6. ListURLMapStatuses = <<st>>
    BY <2>1, <2>2 DEF ListURLMapStatuses
  <2>7. <<st>> \o <<>> = <<st>>
    OBVIOUS
  <2>8. ListLoadBalancers = {<<st>>}
    BY <2>5, <2>6, <2>7 DEF ListLoadBalancers
  <2> QED BY <2>3, <2>8 DEF ListedAsBuilt
<1>3. CommandInv /\ CreateInv /\ RulesPlain /\ StableBuilt /\ [Next]_vars
        => RulesPlain' /\ StableBuilt'
  BY NextPlain, NextStable
<1> QED BY <1>1, <1>2, <1>3, CreateInvariant, PTL DEF Spec

-----------------------------------------------------------------------------
(***************************************************************************)
(* A create --force whose calls do not fail.  It meets no error before the *)
(* certificate, and after it only because of a certificate in use.         *)
(*                                                                         *)
(* ForcedInv is about the steps at which there is no error yet, of which   *)
(* CreateInv already tells what is built; it adds that the ports found are *)
(* those of all the services of the ingress, and that the instance group   *)
(* that was read names them.                                               *)
(***************************************************************************)
Forced == Creating /\ cmd.force /\ ~fault /\ Creatable(cmd)

CertStuck == cmd.spec.tls \in CertData /\ cert # cmd.spec.tls /\ OwnCertInUse

PortsFound ==
  /\ \A p \in NodePorts : loc.ports[p] # None =>
       /\ loc.ports[p] \in ServicesOf(cmd.spec)
       /\ \A c \in cmd.clusters : nodePort[c][loc.ports[p]] = p
  /\ \A s \in ServicesOf(cmd.spec) : \E p \in NodePorts : loc.ports[p] = s

PortsNamed == \A p \in NodePorts : loc.ports[p] # None => p \in loc.nps

ForcedInv ==
  Forced =>
    /\ err => pc \in PastCert /\ CertStuck
    /\ ~err /\ pc \in PastHealthChecks \cup {"healthCheck"} => PortsFound
    /\ ~err /\ pc \in PastBackends \cup {"backendService"} => PortsNamed
    /\ pc = "httpsProxy" => loc.um
    /\ pc = "httpsRule" => loc.tp

\* No service changes while a command runs.
ServicesKept == pc # "idle" => nodePort' = nodePort

\* A step of a forced create was one before: faults are not forgotten.
LEMMA StillForced ==
  ASSUME BaseInv, Creating, NEW e, NEW f, Ended(e, f), nodePort' = nodePort, Forced'
  PROVE  Forced /\ ~f /\ cmd.clusters # {} /\ cmd.spec.default # None
         /\ cmd.spec.ip # None /\ None \notin getTargetTags(cmd.clusters)
         /\ \A s \in ServicesOf(cmd.spec) : /\ nodePortSameInAllClusters(s, cmd.clusters)
                                            /\ PathsAgree(s, cmd.clusters)
<1>1. cmd' = cmd /\ nodePort' = nodePort /\ fault' = (fault \/ f)
  BY DEF Ended
<1>2. Creatable(cmd)' => Creatable(cmd)
  BY <1>1 DEF Creatable, nodePortSameInAllClusters
<1>3. Forced /\ ~f
  BY <1>1, <1>2 DEF Forced, Creating
<1> QED BY <1>3 DEF Forced, Creatable

\* The ports and the names stay as they were read.
LEMMA PortsKept ==
  ASSUME cmd' = cmd, nodePort' = nodePort, loc'.ports = loc.ports
  PROVE  /\ PortsFound => PortsFound'
         /\ loc'.nps = loc.nps /\ PortsNamed => PortsNamed'
BY DEF PortsFound, PortsNamed

\* The services that create found at one cluster are where all have them.
LEMMA createNodePortsForced ==
  ASSUME BaseInv, ForcedInv, Creating, createNodePorts \/ noIPAddress
  PROVE  ForcedInv'
<1> SUFFICES ASSUME Forced' PROVE ~err' /\ pc' = "healthCheck" /\ PortsFound'
  BY DEF ForcedInv, PastHealthChecks, PastBackends, PastURLMap, PastHTTP, PastCert
<1>1. ~noIPAddress
  <2> SUFFICES ASSUME noIPAddress PROVE FALSE
    OBVIOUS
  <2>1. Ended(TRUE, cmd.spec.ip # None) /\ nodePort' = nodePort
    BY noIPAddressEffect
  <2> QED BY <2>1, StillForced
<1>2. pc = "nodePorts" /\ nodePort' = nodePort
  BY <1>1, createNodePortsEffect
<1>3. Forced /\ cmd.clusters # {}
      /\ \A s \in ServicesOf(cmd.spec) : nodePortSameInAllClusters(s, cmd.clusters)
  BY <1>1, <1>2, createNodePortsEffect, StillForced
<1>4. PICK c \in cmd.clusters : \E r :
        /\ r.ports \in [NodePorts -> Services \cup {None}]
        /\ PortsRead(cmd.spec, c, r)
        /\ pc' = "healthCheck" /\ loc' = [loc EXCEPT !.ports = r.ports]
        /\ Ended(FALSE, r.fault)
  BY <1>1, <1>3, createNodePortsEffect
<1>5. PICK r :
        /\ r.ports \in [NodePorts -> Services \cup {None}]
        /\ PortsRead(cmd.spec, c, r)
        /\ pc' = "healthCheck" /\ loc' = [loc EXCEPT !.ports = r.ports]
        /\ Ended(FALSE, r.fault)
  BY <1>4
<1>6. ~r.fault
  BY <1>2, <1>5, StillForced
<1>7. loc'.ports = r.ports /\ cmd' = cmd
  BY <1>5 DEF Ended, BaseInv, TypeInv, TypeOK, Locals
<1>8. ~err'
  BY <1>2, <1>3, <1>5 DEF Ended, ForcedInv, PastCert
<1>9. PortsFound'
  <2>1. ASSUME NEW p \in NodePorts, r.ports[p] # None
        PROVE  /\ r.ports[p] \in ServicesOf(cmd.spec)
               /\ \A d \in cmd.clusters : nodePort[d][r.ports[p]] = p
    BY <1>3, <1>5, <2>1 DEF PortsRead, nodePortSameInAllClusters
  <2>2. ASSUME NEW s \in ServicesOf(cmd.spec)
        PROVE  \E p \in NodePorts : r.ports[p] = s
    <3>1. s \in Services /\ c \in Clusters
      BY RunningCommand DEF Creating, BaseInv, TypeInv, ServicesOf, SpecType
    <3>2. nodePort[c][s] \in NodePorts \cup {None}
      BY <3>1, PortMapsAssumption DEF BaseInv, TypeInv, TypeOK, IngressTypeOK
    <3>3. nodePort[c][s] # None
      BY <1>3 DEF nodePortSameInAllClusters
    <3> QED BY <1>5, <1>6, <3>2, <3>3 DEF PortsRead
  <2> QED BY <1>2, <1>7, <2>1, <2>2 DEF PortsFound
<1> QED BY <1>5, <1>8, <1>9

\* The steps before the services are read.
LEMMA createIngressForced ==
  ASSUME BaseInv, ForcedInv, Creating, createValidate \/ createIngress
  PROVE  ForcedInv'
<1> SUFFICES ASSUME Forced' PROVE ~err' /\ pc' \in {"ensureIngress", "nodePorts"}
  BY DEF ForcedInv, PastHealthChecks, PastBackends, PastURLMap, PastHTTP, PastCert
<1>1. CASE createValidate
  <2>1. PICK o \in Outcomes({None}) :
              /\ Ended(o.err, o.fault)
              /\ pc' = IF o.err THEN "done" ELSE "ensureIngress"
              /\ o.err /\ Creatable(cmd) => o.fault
    BY <1>1, createValidateEffect
  <2>2. pc = "validate" /\ nodePort' = nodePort
    BY <1>1, createValidateEffect
  <2>3. Forced /\ ~o.fault
    BY <2>1, <2>2, StillForced
  <2> QED BY <2>1, <2>2, <2>3 DEF Forced, ForcedInv, PastCert, Ended
<1>2. CASE createIngress
  <2>1. PICK o : /\ IngressesEnsured(cmd.spec, cmd.clusters, cmd.force, o)
                 /\ pc' = IF AnyErr(o) THEN "done" ELSE "nodePorts"
                 /\ Ended(AnyErr(o), AnyFault(o))
    BY <1>2, createIngressEffect
  <2>2. pc = "ensureIngress" /\ nodePort' = nodePort
    BY <1>2, createIngressEffect
  <2>3. Forced /\ ~AnyFault(o)
    BY <2>1, <2>2, StillForced
  <2>4. ~AnyErr(o)
    BY <2>1, <2>3 DEF Forced, IngressesEnsured
  <2> QED BY <2>1, <2>2, <2>3, <2>4 DEF ForcedInv, PastCert, Ended
<1> QED BY <1>1, <1>2

\* The health checks: the clusters agree on the probes.
LEMMA createHealthChecksForced ==
  ASSUME BaseInv, ForcedInv, Creating, createHealthChecks
  PROVE  ForcedInv'
<1> SUFFICES ASSUME Forced' PROVE ~err' /\ pc' = "getIGs" /\ PortsFound'
  BY DEF ForcedInv, PastHealthChecks, PastBackends, PastURLMap, PastHTTP, PastCert
<1>1. pc = "healthCheck" /\ pc' = "getIGs" /\ nodePort' = nodePort
  BY createHealthChecksEffect
<1>2. PICK o : /\ HealthChecksEnsured(loc.ports, cmd.clusters, cmd.force, o)
               /\ AnyErr(o) <=> \E p \in NodePorts : o[p].err
               /\ loc' = [loc EXCEPT !.hcs = {p \in NodePorts :
                                                loc.ports[p] # None /\ ~o[p].err}]
               /\ Ended(AnyErr(o), AnyFault(o))
  BY createHealthChecksEffect
<1>3. /\ Forced /\ ~AnyFault(o)
      /\ \A s \in ServicesOf(cmd.spec) : PathsAgree(s, cmd.clusters)
  BY <1>1, <1>2, StillForced
<1>4. ~err /\ PortsFound
  BY <1>1, <1>3 DEF ForcedInv, PastCert
<1>5. ~AnyErr(o)
  BY <1>2, <1>3, <1>4 DEF HealthChecksEnsured, PortsFound, Forced
<1>6. loc'.ports = loc.ports /\ cmd' = cmd
  BY <1>2 DEF Ended, BaseInv, TypeInv, TypeOK, Locals
<1> QED BY <1>1, <1>2, <1>4, <1>5, <1>6, PortsKept DEF Ended

\* The ingresses exist, so that only a fault can make getIGs fail.
LEMMA getIGsForced ==
  ASSUME BaseInv, IGsInv, CreateInv, ForcedInv, Creating, getIGs("getIGs")
  PROVE  ForcedInv'
<1> SUFFICES ASSUME Forced' PROVE ~err' /\ pc' = "getIGs" /\ PortsFound'
  BY DEF ForcedInv, PastHealthChecks, PastBackends, PastURLMap, PastHTTP, PastCert
<1>1. /\ pc = "getIGs" /\ pc' = pc /\ cmd' = cmd /\ nodePort' = nodePort
      /\ loc' = [loc EXCEPT !.igs = loc'.igs, !.todo = loc'.todo]
      /\ fault => fault'
      /\ err' => err \/ fault' \/ \E c \in cmd.clusters : ing[c] = None
  BY getIGsAnswer
<1>2. loc'.ports = loc.ports
  BY <1>1 DEF BaseInv, TypeInv, TypeOK, Locals
<1>3. Forced
  <2>1. Creatable(cmd)' => Creatable(cmd)
    BY <1>1 DEF Creatable, nodePortSameInAllClusters
  <2> QED BY <1>1, <2>1 DEF Forced, Creating
<1>4. ~err /\ PortsFound
  BY <1>1, <1>3 DEF ForcedInv, PastCert, PastHealthChecks
<1>5. IngressBuilt
  BY <1>1, <1>4 DEF CreateInv, BuiltSoFar, PastIngress, PastHealthChecks
<1> QED BY <1>1, <1>2, <1>4, <1>5, PortsKept DEF IngressBuilt, Forced

\* The instance group that is read belongs to a cluster that has the services.
LEMMA getNamedPortsForced ==
  ASSUME BaseInv, IGsInv, CreateInv, ForcedInv, Creating, getNamedPorts
  PROVE  ForcedInv'
<1> SUFFICES ASSUME Forced'
             PROVE  ~err' /\ pc' = "backendService" /\ PortsFound' /\ PortsNamed'
  BY DEF ForcedInv, PastHealthChecks, PastBackends, PastURLMap, PastHTTP, PastCert
<1>1. pc = "getIGs" /\ loc.todo = {} /\ nodePort' = nodePort
  BY getNamedPortsEffect
<1>2. /\ Forced /\ cmd.clusters # {} /\ cmd.spec.default # None
      /\ \A s \in ServicesOf(cmd.spec) : nodePortSameInAllClusters(s, cmd.clusters)
  BY <1>1, getNamedPortsEffect, StillForced
<1>3. ~err /\ PortsFound
  BY <1>1, <1>2 DEF ForcedInv, PastCert, PastHealthChecks
<1>4. KnownClusters = cmd.clusters
  <2>1. IGsKnown /\ cmd.clusters \subseteq Clusters
    BY RunningCommand DEF IGsInv, Creating, BaseInv, TypeInv
  <2> QED BY <1>1, <1>3, <2>1 DEF IGsKnown, KnownClusters
<1>5. PICK c \in cmd.clusters : \E nps \in SUBSET NodePorts :
        /\ nps = {nodePort[c][s] : s \in Services} \ {None}
        /\ loc' = [loc EXCEPT !.nps = nps]
        /\ pc' = IF nps = {} THEN "done" ELSE "backendService"
        /\ Ended(nps = {}, FALSE)
  <2>1. CASE \E f \in BOOLEAN : Ended(TRUE, f) /\ (KnownClusters # {} => f)
    <3>1. PICK f \in BOOLEAN : Ended(TRUE, f) /\ (KnownClusters # {} => f)
      BY <2>1
    <3>2. ~f
      BY <1>1, <3>1, StillForced
    <3> QED BY <1>2, <1>4, <3>1, <3>2
  <2> QED BY <1>4, <2>1, getNamedPortsEffect
<1>6. PICK nps \in SUBSET NodePorts :
        /\ nps = {nodePort[c][s] : s \in Services} \ {None}
        /\ loc' = [loc EXCEPT !.nps = nps]
        /\ pc' = IF nps = {} THEN "done" ELSE "backendService"
        /\ Ended(nps = {}, FALSE)
  BY <1>5
<1>7. \A s \in ServicesOf(cmd.spec) : s \in Services
  BY RunningCommand DEF Creating, BaseInv, TypeInv, ServicesOf, SpecType
<1>8. \A s \in ServicesOf(cmd.spec) : nodePort[c][s] \in nps
  BY <1>2, <1>6, <1>7 DEF nodePortSameInAllClusters
<1>9. nps # {}
  BY <1>2, <1>8 DEF ServicesOf
<1>10. loc'.ports = loc.ports /\ loc'.nps = nps /\ cmd' = cmd
  BY <1>6 DEF Ended, BaseInv, TypeInv, TypeOK, Locals
<1>11. PortsNamed'
  BY <1>3, <1>8, <1>10 DEF PortsNamed, PortsFound
<1> QED BY <1>1, <1>3, <1>6, <1>9, <1>10, <1>11, PortsKept DEF Ended

\* The backend services: every port has its health check and its name.
LEMMA createBackendServicesForced ==
  ASSUME BaseInv, CreateInv, ForcedInv, Creating, createBackendServices
  PROVE  ForcedInv'
<1> SUFFICES ASSUME Forced' PROVE ~err' /\ pc' = "urlMap" /\ PortsFound' /\ PortsNamed'
  BY DEF ForcedInv, PastHealthChecks, PastBackends, PastURLMap, PastHTTP, PastCert
<1>1. pc = "backendService" /\ pc' = "urlMap" /\ nodePort' = nodePort
  BY createBackendServicesEffect
<1>2. PICK o : /\ BackendServicesEnsured(loc.ports, loc.hcs, loc.nps, AllIGs, cmd.force, o)
               /\ AnyErr(o) <=> \E p \in NodePorts : o[p].err
               /\ loc' = [loc EXCEPT !.bes = ensuredBackendServices(loc.ports, o)]
               /\ Ended(AnyErr(o), AnyFault(o))
  BY createBackendServicesEffect
<1>3. Forced /\ ~AnyFault(o)
  BY <1>1, <1>2, StillForced
<1>4. ~err /\ PortsFound /\ PortsNamed
  BY <1>1, <1>3 DEF ForcedInv, PastCert, PastHealthChecks
<1>5. HealthChecksBuilt
  BY <1>1, <1>4 DEF CreateInv, BuiltSoFar, PastHealthChecks
<1>6. ~AnyErr(o)
  BY <1>2, <1>3, <1>4, <1>5 DEF BackendServicesEnsured, PortsNamed, HealthChecksBuilt, Forced
<1>7. loc'.ports = loc.ports /\ loc'.nps = loc.nps /\ cmd' = cmd
  BY <1>2 DEF Ended, BaseInv, TypeInv, TypeOK, Locals
<1> QED BY <1>1, <1>2, <1>4, <1>6, <1>7, PortsKept DEF Ended

\* The url map: every service has its backend service.
LEMMA createURLMapForced ==
  ASSUME BaseInv, CreateInv, ForcedInv, Creating, createURLMap
  PROVE  ForcedInv'
<1> SUFFICES ASSUME Forced'
             PROVE  ~err' /\ pc' \notin {"httpsProxy", "httpsRule"}
                    /\ PortsFound' /\ PortsNamed'
  BY DEF ForcedInv
<1>1. pc = "urlMap" /\ pc' \in {"httpProxy", "sslCert", "firewall"} /\ nodePort' = nodePort
  BY createURLMapEffect DEF AfterHTTP
<1>2. PICK o : /\ URLMapEnsured(cmd.spec, cmd.clusters, loc.bes, cmd.force, o)
               /\ um' = o.res /\ loc' = [loc EXCEPT !.um = ~o.err]
               /\ Ended(o.err, o.fault)
  BY createURLMapEffect
<1>3. Forced /\ ~o.fault /\ cmd.spec.default # None
  BY <1>1, <1>2, StillForced
<1>4. ~err /\ PortsFound /\ PortsNamed
  BY <1>1, <1>3 DEF ForcedInv, PastCert, PastHealthChecks, PastBackends
<1>5. BackendsBuilt
  BY <1>1, <1>4 DEF CreateInv, BuiltSoFar, PastBackends
<1>6. \A s \in ServicesOf(cmd.spec) : s \in Services
  BY RunningCommand DEF Creating, BaseInv, TypeInv, ServicesOf, SpecType
<1>7. ~ingToURLMapFails(cmd.spec, loc.bes)
  BY <1>3, <1>4, <1>5, <1>6 DEF ingToURLMapFails, PortsFound, BackendsBuilt
<1>8. ~o.err
  BY <1>2, <1>3, <1>7 DEF URLMapEnsured, Forced
<1>9. loc'.ports = loc.ports /\ loc'.nps = loc.nps /\ cmd' = cmd
  BY <1>2 DEF Ended, BaseInv, TypeInv, TypeOK, Locals
<1> QED BY <1>1, <1>2, <1>4, <1>8, <1>9, PortsKept DEF Ended

\* What the remaining steps leave of what the ports and the names were.
LEMMA FrontendForced ==
  ASSUME BaseInv, ForcedInv, Forced, FrontendStep, nodePort' = nodePort,
         loc'.nps = loc.nps, pc \in PastURLMap,
         err' => pc' \in PastCert /\ CertStuck',
         pc' = "httpsProxy" => loc'.um,
         pc' = "httpsRule" => loc'.tp
  PROVE  ForcedInv'
<1>1. ~err => PortsFound /\ PortsNamed
  BY DEF ForcedInv, PastHealthChecks, PastBackends
<1>2. ~err' => PortsFound' /\ PortsNamed'
  BY <1>1, PortsKept DEF FrontendStep
<1> QED BY <1>2 DEF ForcedInv

\* The HTTP front end.
LEMMA createHTTPForced ==
  ASSUME BaseInv, CreateInv, ForcedInv, Creating,
         createHTTPProxy \/ createRule("httpRule", "http", AfterHTTP)
  PROVE  ForcedInv'
<1> SUFFICES ASSUME Forced' PROVE ForcedInv'
  BY DEF ForcedInv
<1>1. CASE createHTTPProxy
  <2>1. /\ pc = "httpProxy" /\ pc' = "httpRule"
        /\ UNCHANGED <<hc, be, um, ing, nodePort>>
    BY <1>1, createHTTPProxyEffect
  <2>2. PICK e, f \in BOOLEAN : /\ Ended(e, f) /\ loc' = [loc EXCEPT !.tp = ~e]
                                /\ e /\ loc.um => f
    BY <1>1, createHTTPProxyEffect
  <2>3. Forced /\ ~f
    BY <2>1, <2>2, StillForced
  <2>4. ~err
    BY <2>1, <2>3 DEF ForcedInv, PastCert
  <2>5. loc.um
    BY <2>1, <2>4 DEF CreateInv, BuiltSoFar, PastURLMap, URLMapBuilt
  <2>6. FrontendStep /\ loc'.nps = loc.nps
    BY <2>1, <2>2 DEF Ended, FrontendStep, BaseInv, TypeInv, TypeOK, Locals
  <2>7. ~err'
    BY <2>2, <2>3, <2>4, <2>5 DEF Ended
  <2> QED BY <2>1, <2>3, <2>6, <2>7, FrontendForced DEF PastURLMap
<1>2. CASE createRule("httpRule", "http", AfterHTTP)
  <2>1. /\ pc = "httpRule" /\ pc' = AfterHTTP
        /\ UNCHANGED <<hc, be, um, ing, nodePort, loc>>
        /\ \E e, f \in BOOLEAN : Ended(e, f) /\ (e /\ cmd.force /\ loc.tp => f)
    BY <1>2, createRuleEffect DEF Protocols
  <2>2. PICK e, f \in BOOLEAN : Ended(e, f) /\ (e /\ cmd.force /\ loc.tp => f)
    BY <2>1
  <2>3. Forced /\ ~f
    BY <2>1, <2>2, StillForced
  <2>4. ~err
    BY <2>1, <2>3 DEF ForcedInv, PastCert
  <2>5. loc.tp
    BY <2>1, <2>4 DEF CreateInv, BuiltSoFar, FrontendBuilt
  <2>6. FrontendStep
    BY <2>1, <2>2 DEF Ended, FrontendStep
  <2>7. ~err'
    BY <2>2, <2>3, <2>4, <2>5 DEF Ended, Forced
  <2>8. pc' \notin {"httpsProxy", "httpsRule"}
    BY <2>1 DEF AfterHTTP
  <2> QED BY <2>1, <2>3, <2>6, <2>7, <2>8, FrontendForced DEF PastURLMap
<1> QED BY <1>1, <1>2

\* The certificate: the one error that --force cannot repair.
LEMMA createSSLCertForced ==
  ASSUME BaseInv, CreateInv, ForcedInv, Creating, createSSLCert
  PROVE  ForcedInv'
<1> SUFFICES ASSUME Forced' PROVE ForcedInv'
  BY DEF ForcedInv
<1>1. /\ pc = "sslCert" /\ pc' = "httpsProxy"
      /\ UNCHANGED <<hc, be, um, tp, ing, nodePort>>
  BY createSSLCertEffect
<1>2. PICK e, f \in BOOLEAN :
        /\ Ended(e, f)
        /\ loc' = [loc EXCEPT !.cert = IF e THEN None ELSE certLink(cmd.spec.tls)]
        /\ e /\ cmd.force /\ ~f =>
             cmd.spec.tls \in CertData /\ OwnCertInUse /\ cert' # cmd.spec.tls
  BY createSSLCertEffect
<1>3. Forced /\ ~f
  BY <1>1, <1>2, StillForced
<1>4. ~err
  BY <1>1, <1>3 DEF ForcedInv, PastCert
<1>5. loc.um
  BY <1>1, <1>4 DEF CreateInv, BuiltSoFar, PastURLMap, PastHTTP, URLMapBuilt
<1>6. FrontendStep /\ loc'.nps = loc.nps /\ loc'.um
  BY <1>1, <1>2, <1>5 DEF Ended, FrontendStep, BaseInv, TypeInv, TypeOK, Locals
<1>7. err' => CertStuck'
  BY <1>1, <1>2, <1>3, <1>4 DEF Ended, Forced, CertStuck, OwnCertInUse
<1> QED BY <1>1, <1>3, <1>6, <1>7, FrontendForced DEF PastURLMap, PastHTTP, PastCert

\* The HTTPS proxy: it exists, or the certificate has just been made.
LEMMA createHTTPSProxyForced ==
  ASSUME BaseInv, CreateInv, ForcedInv, Creating, createHTTPSProxy
  PROVE  ForcedInv'
<1> SUFFICES ASSUME Forced' PROVE ForcedInv'
  BY DEF ForcedInv
<1>1. /\ pc = "httpsProxy" /\ pc' = "httpsRule"
      /\ UNCHANGED <<hc, be, um, cert, ing, nodePort>>
      /\ tp["https"] # None => tp'["https"] = tp["https"]
  BY createHTTPSProxyEffect
<1>2. PICK e, f \in BOOLEAN :
        /\ Ended(e, f) /\ loc' = [loc EXCEPT !.tp = ~e]
        /\ e /\ cmd.force /\ loc.um => f \/ (tp["https"] = None /\ loc.cert = None)
  BY createHTTPSProxyEffect
<1>3. Forced /\ ~f
  BY <1>1, <1>2, StillForced
<1>4. loc.um /\ (err => CertStuck)
  BY <1>1, <1>3 DEF ForcedInv
<1>5. tp["https"] # None \/ loc.cert # None
  <2>1. CASE err
    BY <1>4, <2>1 DEF CertStuck, OwnCertInUse
  <2>2. CASE ~err
    <3>1. loc.cert = certLink(cmd.spec.tls)
      BY <1>1, <2>2 DEF CreateInv, BuiltSoFar, FrontendBuilt
    <3> QED BY <3>1, NoneAssumption DEF certLink
  <2> QED BY <2>1, <2>2
<1>6. ~e
  BY <1>2, <1>3, <1>4, <1>5 DEF Forced
<1>7. FrontendStep /\ loc'.nps = loc.nps /\ loc'.tp
  BY <1>1, <1>2, <1>6 DEF Ended, FrontendStep, BaseInv, TypeInv, TypeOK, Locals
<1>8. err' => err
  BY <1>2, <1>6 DEF Ended
<1>9. err' => CertStuck'
  BY <1>1, <1>4, <1>7, <1>8 DEF CertStuck, OwnCertInUse, FrontendStep
<1> QED BY <1>1, <1>3, <1>7, <1>9, FrontendForced DEF PastURLMap, PastHTTP, PastCert

\* The HTTPS rule and the firewall rule.
LEMMA createLastForced ==
  ASSUME BaseInv, IGsInv, CreateInv, ForcedInv, Creating,
         createRule("httpsRule", "https", "firewall") \/ createFirewall
  PROVE  ForcedInv'
<1> SUFFICES ASSUME Forced' PROVE ForcedInv'
  BY DEF ForcedInv
<1>1. CASE createRule("httpsRule", "https", "firewall")
  <2>1. /\ pc = "httpsRule" /\ pc' = "firewall"
        /\ UNCHANGED <<hc, be, um, tp, cert, ing, nodePort, loc>>
        /\ \E e, f \in BOOLEAN : Ended(e, f) /\ (e /\ cmd.force /\ loc.tp => f)
    BY <1>1, createRuleEffect DEF Protocols
  <2>2. PICK e, f \in BOOLEAN : Ended(e, f) /\ (e /\ cmd.force /\ loc.tp => f)
    BY <2>1
  <2>3. Forced /\ ~f
    BY <2>1, <2>2, StillForced
  <2>4. loc.tp /\ (err => CertStuck)
    BY <2>1, <2>3 DEF ForcedInv
  <2>5. FrontendStep /\ (err' => err)
    BY <2>1, <2>2, <2>3, <2>4 DEF Ended, FrontendStep, Forced
  <2>6. err' => CertStuck'
    BY <2>1, <2>4, <2>5 DEF CertStuck, OwnCertInUse, FrontendStep
  <2> QED BY <2>1, <2>3, <2>5, <2>6, FrontendForced DEF PastURLMap, PastHTTP, PastCert
<1>2. CASE createFirewall
  <2>1. /\ pc = "firewall" /\ pc' = "done"
        /\ UNCHANGED <<hc, be, um, tp, cert, ing, nodePort, loc>>
    BY <1>2, createFirewallEffect
  <2>2. PICK e, f \in BOOLEAN :
          Ended(e, f) /\ (e /\ cmd.force => f \/ None \in getTargetTags(KnownClusters))
    BY <1>2, createFirewallEffect
  <2>3. Forced /\ ~f /\ None \notin getTargetTags(cmd.clusters)
    BY <2>1, <2>2, StillForced
  <2>4. err => CertStuck
    BY <2>1, <2>3 DEF ForcedInv
  <2>5. KnownClusters \subseteq cmd.clusters
    BY DEF IGsInv, IGsKnown, KnownClusters, Creating
  <2>6. ~e
    BY <2>2, <2>3, <2>5 DEF Forced, getTargetTags
  <2>7. FrontendStep /\ (err' => err)
    BY <2>1, <2>2, <2>6 DEF Ended, FrontendStep
  <2>8. err' => CertStuck'
    BY <2>1, <2>4, <2>7 DEF CertStuck, OwnCertInUse, FrontendStep
  <2> QED BY <2>1, <2>3, <2>7, <2>8, FrontendForced DEF PastURLMap, PastHTTP, PastCert
<1> QED BY <1>1, <1>2

\* ForcedInv is inductive while services do not change.
LEMMA NextForced ==
  CommandInv /\ CreateInv /\ ForcedInv /\ [Next]_vars /\ [ServicesKept]_vars => ForcedInv'
<1> SUFFICES ASSUME CommandInv, CreateInv, ForcedInv, [Next]_vars, [ServicesKept]_vars
             PROVE  ForcedInv'
  OBVIOUS
<1>1. ASSUME NEW c \in Commands, Run(c) PROVE ForcedInv'
  <2>1. cmd' = c /\ pc' = FirstStep(c) /\ ~err'
    BY <1>1 DEF Run, CommandInv, BaseInv, OwnSteps
  <2>2. Creating' => pc' = "validate"
    BY <2>1 DEF Creating, FirstStep
  <2> QED BY <2>1, <2>2 DEF ForcedInv, Forced, PastIngress,
          PastHealthChecks, PastBackends, PastURLMap, PastHTTP, PastCert
<1>2. CASE pc # "idle" /\ Ends
  BY <1>2 DEF Ends, ForcedInv, Forced, Creating
<1>3. CASE Bystander
  <2>1. UNCHANGED <<tp, cert, pc, cmd, err, fault, loc>>
    BY <1>3 DEF Bystander, cloud
  <2>2. pc # "idle" => nodePort' = nodePort
    BY DEF ServicesKept, vars
  <2>3. Forced' => Forced
    BY <2>1, <2>2 DEF Forced, Creating, Creatable, nodePortSameInAllClusters
  <2>4. Forced /\ PortsFound => PortsFound'
    BY <2>1, <2>2 DEF PortsFound, Forced, Creating
  <2>5. /\ PortsNamed => PortsNamed'
        /\ CertStuck => CertStuck'
    BY <2>1 DEF PortsNamed, CertStuck, OwnCertInUse
  <2> QED BY <2>1, <2>3, <2>4, <2>5 DEF ForcedInv
<1>4. CASE pc # "idle" /\ cmd' = cmd /\ OwnStepOf(cmd.op)
  <2>1. CASE cmd.op = "create"
    <3>1. Creating /\ CreateStep
      BY <1>4, <2>1 DEF Creating, OwnStepOf
    <3> QED BY <3>1, createIngressForced, createNodePortsForced, createHealthChecksForced,
            getIGsForced, getNamedPortsForced, createBackendServicesForced,
            createURLMapForced, createHTTPForced, createSSLCertForced,
            createHTTPSProxyForced, createLastForced
            DEF CreateStep, CreateLoadBalancer, CommandInv
  <2>2. CASE cmd.op # "create"
    BY <1>4, <2>2 DEF ForcedInv, Forced, Creating
  <2> QED BY <2>1, <2>2
<1> QED BY <1>1, <1>2, <1>3, <1>4, StepKinds DEF CommandInv

(***************************************************************************)
(* ForcedCreatesRecover: a create --force whose calls do not fail repairs  *)
(* whatever failed or killed commands have left, except for a certificate  *)
(* that the HTTPS proxy uses.  The services must not change while the      *)
(* command runs: create reads them once and goes on with what it read.     *)
(***************************************************************************)
THEOREM ForcedCreatesRecover ==
  Spec /\ [][pc # "idle" => nodePort' = nodePort]_vars => []ForcedCreateRecovers
<1>1. Init => ForcedInv
  BY DEF Init, Idle, ForcedInv, Forced, Creating
<1>2. ForcedInv => ForcedCreateRecovers
  BY DEF ForcedInv, Forced, Creating, ForcedCreateRecovers, Done, CertStuck
<1>3. ServicesKept <=> (pc # "idle" => nodePort' = nodePort)
  BY DEF ServicesKept
<1> QED BY <1>1, <1>2, <1>3, NextForced, CreateInvariant, PTL DEF Spec

-----------------------------------------------------------------------------
(***************************************************************************)
(* PART 4: a create that succeeded can be repeated. What a create builds   *)
(* fits that create (FitInv): every syncer finds what it looks for. When   *)
(* the same create runs again, with no failed call and no change in        *)
(* between, each step finds the cloud as it left it and reports no error   *)
(* (RepeatInv).                                                            *)
(***************************************************************************)

(***************************************************************************)
(* A load balancer fits the create c if every syncer that c calls finds    *)
(* what it looks for.  The ports are those of any cluster of c.            *)
(***************************************************************************)
GroupsOf(c) == UNION {ing[k].igs : k \in c.clusters}

IngressFits(c) ==
  \A k \in c.clusters : ing[k] # None /\ ing[k].spec = c.spec /\ ing[k].igs # {}

BackendsFit(c) ==
  \A k \in c.clusters, s \in ServicesOf(c.spec) :
    /\ hc[nodePort[k][s]] = desiredHealthCheck(s, getHealthCheckPath(s, c.clusters))
    /\ be[nodePort[k][s]] = desiredBackendService(s, GroupsOf(c))

URLMapFits(c) ==
  \A k \in c.clusters : um = desiredURLMap(c.spec, c.clusters, nodePort[k], 1)

FrontendFits(c) ==
  /\ um # None
  /\ c.spec.http => /\ tp["http"] # None
                    /\ fr["http"] = desiredForwardingRule(c.spec.ip)
  /\ c.spec.tls # None => /\ tp["https"] # None
                          /\ ~c.force => tp["https"].cert = certLink(c.spec.tls)
                          /\ fr["https"] = desiredForwardingRule(c.spec.ip)
  /\ c.spec.tls \in CertData => cert = c.spec.tls

FirewallFits(c) ==
  /\ fw # None
  /\ \A k \in c.clusters : fw = [ports |-> {nodePort[k][s] : s \in ServicesOf(c.spec)},
                                 tags |-> getTargetTags(c.clusters)]

Fits(c) == /\ IngressFits(c)
           /\ BackendsFit(c)
           /\ URLMapFits(c)
           /\ FrontendFits(c)
           /\ FirewallFits(c)

(***************************************************************************)
(* Each call of a syncer that finds what it looks for.                     *)
(***************************************************************************)
LEMMA EnsureIngressRepeats ==
  ASSUME IngressTypeOK, NEW spec, NEW clients, NEW force,
         \A c \in clients : ing[c] # None /\ ing[c].spec = spec,
         NEW o \in EnsureIngress(spec, clients, force), ~AnyFault(o)
  PROVE  Results(o) = ing /\ ~AnyErr(o)
<1> DEFINE f == [c \in Clusters |->
                  IF c \in clients THEN ensureIngressInCluster(c, spec, force)
                                   ELSE {Ok(ing[c])}]
<1>1. ASSUME NEW c \in Clusters, NEW r \in f[c], ~r.fault
      PROVE  r.res = ing[c] /\ ~r.err
  <2>1. CASE c \in clients
    <3>1. r \in Ensure(ing[c], Create(None, desiredIngress(spec)),
                       ingressMatches(ing[c], spec), force,
                       Call(ing[c], desiredIngress(spec)))
      BY <2>1 DEF ensureIngressInCluster
    <3>2. ing[c] # None /\ ingressMatches(ing[c], spec)
      BY <2>1 DEF ingressMatches
    <3> QED BY <1>1, <3>1, <3>2, EnsureRepeats
  <2>2. CASE c \notin clients
    BY <2>2, AnsweredOutcome
  <2> QED BY <2>1, <2>2
<1>2. o \in Choices(f) /\ DOMAIN f = Clusters
  BY DEF EnsureIngress
<1>3. ing \in [Clusters -> Ingresses \cup {None}]
  BY DEF IngressTypeOK
<1> HIDE DEF f
<1> QED BY <1>1, <1>2, <1>3, LoopRepeats

LEMMA EnsureHealthCheckRepeats ==
  ASSUME HealthCheckTypeOK, NEW ports, NEW clients, NEW force,
         \A p \in NodePorts : ports[p] # None =>
           /\ PathsAgree(ports[p], clients) /\ hc[p] # None
           /\ hc[p] = desiredHealthCheck(ports[p], getHealthCheckPath(ports[p], clients)),
         NEW o \in EnsureHealthCheck(ports, clients, force), ~AnyFault(o)
  PROVE  Results(o) = hc /\ ~AnyErr(o)
<1> DEFINE f == [p \in NodePorts |->
        CASE ports[p] = None -> {Ok(hc[p])}
          [] ports[p] # None /\ ~PathsAgree(ports[p], clients) ->
               {Refused(hc[p])} \cup Faulty({hc[p]})
          [] ports[p] # None /\ PathsAgree(ports[p], clients) ->
               Faulty({hc[p]}) \cup
               ensureHealthCheck(p, ports[p],
                                 getHealthCheckPath(ports[p], clients), force)]
<1>1. ASSUME NEW p \in NodePorts, NEW r \in f[p], ~r.fault
      PROVE  r.res = hc[p] /\ ~r.err
  <2>1. \/ r = Ok(hc[p])
        \/ r \in Faulty({hc[p]})
        \/ /\ ports[p] # None
           /\ r \in ensureHealthCheck(p, ports[p],
                                      getHealthCheckPath(ports[p], clients), force)
    OBVIOUS
  <2>2. CASE r = Ok(hc[p])
    BY <2>2, AnsweredOutcome
  <2>3. CASE r \in Faulty({hc[p]})
    BY <1>1, <2>3, FaultyOutcome
  <2>4. CASE /\ ports[p] # None
             /\ r \in ensureHealthCheck(p, ports[p],
                                        getHealthCheckPath(ports[p], clients), force)
    <3> DEFINE desired == desiredHealthCheck(ports[p], getHealthCheckPath(ports[p], clients))
    <3>1. r \in Ensure(hc[p], Create(hc[p], desired), hc[p] = desired, force,
                       Call(hc[p], desired))
      BY <2>4 DEF ensureHealthCheck
    <3>2. hc[p] # None /\ hc[p] = desired
      BY <2>4
    <3> HIDE DEF desired
    <3> QED BY <1>1, <3>1, <3>2, EnsureRepeats
  <2> QED BY <2>1, <2>2, <2>3, <2>4
<1>2. o \in Choices(f) /\ DOMAIN f = NodePorts
  BY DEF EnsureHealthCheck
<1>3. hc \in [NodePorts -> HealthChecks \cup {None}]
  BY DEF HealthCheckTypeOK
<1> HIDE DEF f
<1>4. \A p \in NodePorts : \A r \in f[p] : ~r.fault => r.res = hc[p] /\ ~r.err
  BY <1>1
<1> QED BY ONLY <1>2, <1>3, <1>4, ~AnyFault(o), LoopRepeats

LEMMA EnsureBackendServiceRepeats ==
  ASSUME BackendServiceTypeOK, NEW ports, NEW hcs, NEW nps, NEW igs, NEW force,
         \A p \in NodePorts : ports[p] # None =>
           /\ p \in hcs /\ p \in nps /\ be[p] # None
           /\ be[p] = desiredBackendService(ports[p], igs),
         NEW o \in EnsureBackendService(ports, hcs, nps, igs, force), ~AnyFault(o)
  PROVE  Results(o) = be /\ ~AnyErr(o)
<1> DEFINE f == [p \in NodePorts |->
        IF ports[p] = None
          THEN {Ok(be[p])}
          ELSE ensureBackendService(p, ports[p], hcs, nps, igs, force)]
<1>1. ASSUME NEW p \in NodePorts, NEW r \in f[p], ~r.fault
      PROVE  r.res = be[p] /\ ~r.err
  <2>1. CASE ports[p] = None
    BY <2>1, AnsweredOutcome
  <2>2. CASE ports[p] # None
    <3> DEFINE desired == desiredBackendService(ports[p], igs)
    <3>1. r \in Ensure(be[p], Create(be[p], desired), be[p] = desired, force,
                       Call(be[p], desired))
      BY <2>2 DEF ensureBackendService
    <3>2. be[p] # None /\ be[p] = desired
      BY <2>2
    <3> HIDE DEF desired
    <3> QED BY <1>1, <3>1, <3>2, EnsureRepeats
  <2> QED BY <2>1, <2>2
<1>2. o \in Choices(f) /\ DOMAIN f = NodePorts
  BY DEF EnsureBackendService
<1>3. be \in [NodePorts -> BackendServices \cup {None}]
  BY DEF BackendServiceTypeOK
<1> HIDE DEF f
<1>4. \A p \in NodePorts : \A r \in f[p] : ~r.fault => r.res = be[p] /\ ~r.err
  BY <1>1
<1> QED BY ONLY <1>2, <1>3, <1>4, ~AnyFault(o), LoopRepeats

LEMMA EnsureURLMapRepeats ==
  ASSUME um # None, NEW spec, spec.orders = 1, NEW clusters, NEW bes, NEW force,
         ~ingToURLMapFails(spec, bes), um = desiredURLMap(spec, clusters, bes, 1),
         NEW o \in EnsureURLMap(spec, clusters, bes, force), ~o.fault
  PROVE  o.res = um /\ ~o.err
<1> DEFINE desired == desiredURLMap(spec, clusters, bes, 1)
<1>1. o \in Ensure(um, Create(um, desired), um = desired, force, Call(um, desired))
  BY DEF EnsureURLMap, urlMapMatches
<1> HIDE DEF desired
<1>2. um = desired
  BY DEF desired
<1> QED BY <1>1, <1>2, EnsureRepeats

LEMMA ensureHTTPProxyRepeats ==
  ASSUME tp["http"] # None, NEW force, NEW o \in ensureHTTPProxy(TRUE, force), ~o.fault
  PROVE  o.res = tp["http"] /\ ~o.err
<1> DEFINE create == IF TRUE THEN Create(tp["http"], [cert |-> None])
                             ELSE {Refused(tp["http"])}
<1>1. o \in Ensure(tp["http"], create, TRUE, force, {Refused(tp["http"])})
  BY DEF ensureHTTPProxy
<1> HIDE DEF create
<1> QED BY <1>1, EnsureRepeats

\* Under --force the certificate of the proxy may be another one.
LEMMA ensureHTTPSProxyRepeats ==
  ASSUME tp["https"] # None, NEW link, NEW force \in BOOLEAN,
         ~force => tp["https"].cert = link,
         NEW o \in ensureHTTPSProxy(TRUE, link, force), ~o.fault
  PROVE  o.res = tp["https"] /\ ~o.err
<1> DEFINE cur == tp["https"]
           create == IF TRUE /\ link # None THEN Create(cur, [cert |-> link])
                                            ELSE {Refused(cur)}
           update == updateHTTPSTargetProxy(TRUE)
<1>1. o \in Ensure(cur, create, TRUE /\ cur.cert = link, force, update)
  BY DEF ensureHTTPSProxy
<1>2. CASE cur.cert = link
  <2>1. TRUE /\ cur.cert = link
    BY <1>2
  <2> HIDE DEF cur, create, update
  <2> QED BY <1>1, <2>1, EnsureRepeats DEF cur
<1>3. CASE cur.cert # link
  <2>1. force
    BY <1>3
  <2>2. o \in Faulty({cur}) \/ o \in update
    BY <1>1, <1>3, <2>1 DEF Ensure
  <2>3. o \in Faulty({cur}) \/ o \in Call(cur, cur)
    BY <2>2 DEF updateHTTPSTargetProxy
  <2> QED BY <2>3, FaultyOutcome, CallOutcome
<1> QED BY <1>2, <1>3

LEMMA ensureForwardingRuleRepeats ==
  ASSUME NEW q, NEW ip, NEW force, fr[q] # None, fr[q] = desiredForwardingRule(ip),
         NEW o \in ensureForwardingRule(q, ip, TRUE, force), ~o.fault
  PROVE  o.res = fr[q] /\ ~o.err
<1> DEFINE desired == desiredForwardingRule(ip)
<1>1. o \in Ensure(fr[q], createForwardingRule(fr[q], desired, TRUE),
                   TRUE /\ fr[q] = desired, force,
                   updateForwardingRule(q, fr[q], desired, TRUE))
  BY DEF ensureForwardingRule
<1>2. TRUE /\ fr[q] = desired
  OBVIOUS
<1> HIDE DEF desired
<1> QED BY <1>1, <1>2, EnsureRepeats

LEMMA EnsureSSLCertRepeats ==
  ASSUME NEW tls, NEW inUse, NEW force,
         tls \notin PreSharedCerts => cert # None /\ cert = tls,
         NEW o \in EnsureSSLCert(tls, inUse, force), ~o.fault
  PROVE  o.res = cert /\ ~o.err
<1>1. CASE o \in Faulty({cert})
  BY <1>1, FaultyOutcome
<1>2. CASE o = Ok(cert)
  BY <1>2, AnsweredOutcome
<1>3. CASE /\ tls \notin PreSharedCerts
           /\ o \in Ensure(cert, Create(cert, tls), cert = tls, force,
                           updateSSLCert(tls, inUse))
  <2> DEFINE matches == cert = tls
             create == Create(cert, tls)
             update == updateSSLCert(tls, inUse)
  <2>1. o \in Ensure(cert, create, matches, force, update)
    BY <1>3
  <2>2. cert # None /\ matches
    BY <1>3
  <2> HIDE DEF matches, create, update
  <2> QED BY ONLY <2>1, <2>2, ~o.fault, EnsureRepeats
<1> QED BY <1>1, <1>2, <1>3
     DEF EnsureSSLCert, ensurePreSharedSSLCert, ensureSecretSSLCert

LEMMA EnsureFirewallRuleRepeats ==
  ASSUME NEW ports, NEW clients, NEW force, None \notin getTargetTags(clients),
         fw # None, fw = desiredFirewallRule(ports, clients),
         NEW o \in EnsureFirewallRule(ports, clients, force), ~o.fault
  PROVE  o.res = fw /\ ~o.err
<1> DEFINE desired == desiredFirewallRule(ports, clients)
<1>1. CASE o \in Faulty({fw})
  BY <1>1, FaultyOutcome
<1>2. CASE o \in Ensure(fw, Create(fw, desired), fw = desired, force, Call(fw, desired))
  <2>1. fw = desired
    OBVIOUS
  <2> HIDE DEF desired
  <2> QED BY <1>2, <2>1, EnsureRepeats
<1> QED BY <1>1, <1>2 DEF EnsureFirewallRule

-----------------------------------------------------------------------------
(***************************************************************************)
(* A create that finds a load balancer that fits it, one step after the    *)
(* other: as long as no call fails it changes nothing and meets no error.  *)
(***************************************************************************)
PortsKnown ==
  /\ pc \in PastHealthChecks \cup {"healthCheck"} => PortsFound
  /\ pc \in PastBackends \cup {"backendService"} => PortsNamed
  /\ pc \in {"httpsProxy", "httpsRule"} => cmd.spec.tls # None

Repeating ==
  /\ BaseInv /\ IGsInv /\ CreateInv
  /\ Creating /\ ~err /\ ~fault /\ cmd.spec.orders = 1
  /\ Creatable(cmd) /\ Fits(cmd) /\ PortsKnown

Repeated == /\ UNCHANGED <<cloud, ing, nodePort>>
            /\ ~err' /\ PortsKnown'

\* Validation and the ingresses.
LEMMA createIngressRepeats ==
  ASSUME Repeating, ~fault', createValidate \/ createIngress
  PROVE  Repeated
<1> USE DEF PortsKnown, PastHealthChecks, PastBackends, PastURLMap, PastHTTP, PastCert
<1>1. CASE createValidate
  <2>1. PICK o \in Outcomes({None}) :
              /\ Ended(o.err, o.fault)
              /\ pc' = IF o.err THEN "done" ELSE "ensureIngress"
              /\ o.err /\ Creatable(cmd) => o.fault
    BY <1>1, createValidateEffect DEF Repeating
  <2>2. UNCHANGED <<cloud, ing, nodePort>>
    BY <1>1, createValidateEffect DEF Repeating
  <2>3. ~o.err
    BY <2>1 DEF Repeating, Ended
  <2> QED BY <2>1, <2>2, <2>3 DEF Repeating, Repeated, Ended
<1>2. CASE createIngress
  <2>1. PICK o \in EnsureIngress(cmd.spec, cmd.clusters, cmd.force) :
          /\ ing' = Results(o) /\ Record(AnyErr(o), AnyFault(o))
          /\ pc' = IF AnyErr(o) THEN "done" ELSE "nodePorts"
    BY <1>2 DEF createIngress
  <2>2. UNCHANGED <<cloud, nodePort>>
    BY <1>2 DEF createIngress
  <2>3. ~AnyFault(o) /\ err' = (err \/ AnyErr(o))
    BY <2>1 DEF Record
  <2>4. IngressTypeOK /\ \A c \in cmd.clusters : ing[c] # None /\ ing[c].spec = cmd.spec
    BY DEF Repeating, Fits, IngressFits, BaseInv, TypeInv, TypeOK
  <2>5. Results(o) = ing /\ ~AnyErr(o)
    BY <2>3, <2>4, EnsureIngressRepeats
  <2> QED BY <2>1, <2>2, <2>3, <2>5 DEF Repeating, Repeated
<1> QED BY <1>1, <1>2

\* The node ports are found: the services exist, and on the same ports.
LEMMA createNodePortsRepeats ==
  ASSUME Repeating, ~fault', createNodePorts \/ noIPAddress
  PROVE  Repeated
<1>1. /\ cmd.spec.ip # None /\ cmd.clusters # {}
      /\ \A s \in ServicesOf(cmd.spec) : nodePortSameInAllClusters(s, cmd.clusters)
  BY DEF Repeating, Creatable
<1>2. ~noIPAddress
  BY <1>1, noIPAddressEffect DEF Repeating, Ended
<1>3. UNCHANGED <<cloud, ing, nodePort>>
  BY <1>2, createNodePortsEffect DEF Repeating
<1>4. PICK c \in cmd.clusters : \E r :
        /\ r.ports \in [NodePorts -> Services \cup {None}]
        /\ PortsRead(cmd.spec, c, r)
        /\ pc' = "healthCheck" /\ loc' = [loc EXCEPT !.ports = r.ports]
        /\ Ended(FALSE, r.fault)
  BY <1>1, <1>2, createNodePortsEffect DEF Repeating
<1>5. PICK r :
        /\ r.ports \in [NodePorts -> Services \cup {None}]
        /\ PortsRead(cmd.spec, c, r)
        /\ pc' = "healthCheck" /\ loc' = [loc EXCEPT !.ports = r.ports]
        /\ Ended(FALSE, r.fault)
  BY <1>4
<1>6. ~r.fault /\ ~err' /\ cmd' = cmd
  BY <1>5 DEF Ended, Repeating
<1>7. loc'.ports = r.ports
  BY <1>5 DEF Repeating, BaseInv, TypeInv, TypeOK, Locals
<1>8. PortsFound'
  <2>1. ASSUME NEW p \in NodePorts, r.ports[p] # None
        PROVE  /\ r.ports[p] \in ServicesOf(cmd.spec)
               /\ \A d \in cmd.clusters : nodePort[d][r.ports[p]] = p
    BY <1>1, <1>5, <2>1 DEF PortsRead, nodePortSameInAllClusters
  <2>2. ASSUME NEW s \in ServicesOf(cmd.spec)
        PROVE  \E p \in NodePorts : r.ports[p] = s
    <3>1. s \in Services /\ c \in Clusters
      BY RunningCommand DEF Repeating, Creating, BaseInv, TypeInv, ServicesOf, SpecType
    <3>2. nodePort[c][s] \in NodePorts \cup {None}
      BY <3>1, PortMapsAssumption DEF Repeating, BaseInv, TypeInv, TypeOK, IngressTypeOK
    <3>3. nodePort[c][s] # None
      BY <1>1 DEF nodePortSameInAllClusters
    <3> QED BY <1>5, <1>6, <3>2, <3>3 DEF PortsRead
  <2> QED BY <1>3, <1>6, <1>7, <2>1, <2>2 DEF PortsFound
<1> QED BY <1>3, <1>5, <1>6, <1>8 DEF Repeated, PortsKnown, PastHealthChecks, PastBackends,
          PastURLMap, PastHTTP, PastCert

\* At a port that was found there is what the service of the port needs.
LEMMA FittingPort ==
  ASSUME Repeating, PortsFound, NEW p \in NodePorts, loc.ports[p] # None
  PROVE  /\ loc.ports[p] \in ServicesOf(cmd.spec) /\ PathsAgree(loc.ports[p], cmd.clusters)
         /\ hc[p] = desiredHealthCheck(loc.ports[p],
                      getHealthCheckPath(loc.ports[p], cmd.clusters))
         /\ be[p] = desiredBackendService(loc.ports[p], GroupsOf(cmd))
         /\ hc[p] # None /\ be[p] # None
<1>1. PICK k \in cmd.clusters : TRUE
  BY DEF Repeating, Creatable
<1>2. loc.ports[p] \in ServicesOf(cmd.spec) /\ nodePort[k][loc.ports[p]] = p
  BY DEF PortsFound
<1>3. /\ PathsAgree(loc.ports[p], cmd.clusters)
      /\ hc[p] = desiredHealthCheck(loc.ports[p],
                   getHealthCheckPath(loc.ports[p], cmd.clusters))
      /\ be[p] = desiredBackendService(loc.ports[p], GroupsOf(cmd))
  BY <1>2 DEF Repeating, Creatable, Fits, BackendsFit
<1>4. hc[p] # None /\ be[p] # None
  <2>1. loc.ports[p] \in Services /\ cmd.clusters \in SUBSET Clusters
    BY <1>2, RunningCommand DEF Repeating, Creating, BaseInv, TypeInv, ServicesOf, SpecType
  <2>2. getHealthCheckPath(loc.ports[p], cmd.clusters) \in Paths
    <3>1. ProbePaths(loc.ports[p], cmd.clusters) \subseteq Paths
      BY <2>1, ConfigAssumption DEF ProbePaths
    <3> QED BY <3>1, ConfigAssumption DEF getHealthCheckPath
  <2>3. GroupsOf(cmd) \in SUBSET InstanceGroups
    BY <2>1 DEF GroupsOf, Repeating, Fits, IngressFits, BaseInv, TypeInv, TypeOK,
       IngressTypeOK, Ingresses
  <2>4. hc[p] \in HealthChecks /\ be[p] \in BackendServices
    BY <1>3, <2>1, <2>2, <2>3 DEF desiredHealthCheck, HealthChecks,
       desiredBackendService, BackendServices
  <2> QED BY <2>4, NoneIsNoResource
<1> QED BY <1>2, <1>3, <1>4

\* The health checks.
LEMMA createHealthChecksRepeats ==
  ASSUME Repeating, ~fault', createHealthChecks
  PROVE  Repeated
<1>1. pc = "healthCheck" /\ pc' = "getIGs" /\ UNCHANGED <<be, um, tp, fr, cert, fw, ing, nodePort>>
  BY DEF createHealthChecks
<1>2. PICK o \in EnsureHealthCheck(loc.ports, cmd.clusters, cmd.force) :
        /\ hc' = Results(o)
        /\ loc' = [loc EXCEPT !.hcs = {p \in NodePorts :
                                         loc.ports[p] # None /\ ~o[p].err}]
        /\ Record(AnyErr(o), AnyFault(o))
  BY DEF createHealthChecks
<1>3. ~AnyFault(o) /\ err' = (err \/ AnyErr(o)) /\ cmd' = cmd
  BY <1>2 DEF Record
<1>4. PortsFound /\ HealthCheckTypeOK
  BY <1>1 DEF Repeating, PortsKnown, BaseInv, TypeInv, TypeOK
<1>5. Results(o) = hc /\ ~AnyErr(o)
  BY <1>3, <1>4, FittingPort, EnsureHealthCheckRepeats
<1>6. loc'.ports = loc.ports
  BY <1>2 DEF Repeating, BaseInv, TypeInv, TypeOK, Locals
<1>7. PortsFound'
  BY <1>1, <1>3, <1>4, <1>6, PortsKept
<1> QED BY <1>1, <1>2, <1>3, <1>5, <1>7 DEF Repeating, Repeated, cloud, PortsKnown,
          PastHealthChecks, PastBackends, PastURLMap, PastHTTP, PastCert

\* The instance groups.
LEMMA getIGsRepeats ==
  ASSUME Repeating, ~fault', getIGs("getIGs")
  PROVE  Repeated
<1>1. /\ pc = "getIGs" /\ pc' = pc /\ cmd' = cmd /\ UNCHANGED <<cloud, ing, nodePort>>
      /\ loc' = [loc EXCEPT !.igs = loc'.igs, !.todo = loc'.todo]
      /\ err' => err \/ fault' \/ \E c \in cmd.clusters : ing[c] = None
  <2>1. BaseInv /\ IGsInv
    BY DEF Repeating
  <2> QED BY <2>1, getIGsAnswer
<1>2. loc'.ports = loc.ports
  BY <1>1 DEF Repeating, BaseInv, TypeInv, TypeOK, Locals
<1>3. ~err'
  BY <1>1 DEF Repeating, Fits, IngressFits
<1>4. PortsFound
  BY <1>1 DEF Repeating, PortsKnown, PastHealthChecks
<1>5. PortsFound'
  BY <1>1, <1>2, <1>4, PortsKept
<1> QED BY <1>1, <1>3, <1>5 DEF Repeated, PortsKnown,
          PastHealthChecks, PastBackends, PastURLMap, PastHTTP, PastCert

\* All clusters have answered, and their groups are those on the ingresses.
LEMMA RepeatKnown ==
  ASSUME Repeating, loc.todo = {}, pc # "done"
  PROVE  KnownClusters = cmd.clusters /\ AllIGs = GroupsOf(cmd)
<1>1. IGsKnown /\ cmd.clusters \subseteq Clusters
  BY RunningCommand DEF Repeating, IGsInv, Creating, BaseInv, TypeInv
<1>2. \A c \in cmd.clusters : loc.igs[c] = ing[c].igs /\ loc.igs[c] # {}
  BY <1>1 DEF IGsKnown, Repeating
<1>3. \A c \in Clusters : c \notin cmd.clusters => loc.igs[c] = {}
  BY <1>1 DEF IGsKnown
<1> QED BY <1>1, <1>2, <1>3 DEF AllIGs, GroupsOf, KnownClusters

\* The named ports: the services of the ingress are among them.
LEMMA getNamedPortsRepeats ==
  ASSUME Repeating, ~fault', getNamedPorts
  PROVE  Repeated
<1> BaseInv
  BY DEF Repeating
<1>1. pc = "getIGs" /\ loc.todo = {} /\ UNCHANGED <<cloud, ing, nodePort>>
  BY getNamedPortsEffect
<1>2. /\ cmd.clusters # {} /\ cmd.spec.default # None /\ ~err /\ PortsFound
      /\ \A s \in ServicesOf(cmd.spec) : nodePortSameInAllClusters(s, cmd.clusters)
  BY <1>1 DEF Repeating, Creatable, PortsKnown, PastHealthChecks
<1>3. KnownClusters = cmd.clusters
  BY <1>1, RepeatKnown
<1>4. PICK c \in cmd.clusters : \E nps \in SUBSET NodePorts :
        /\ nps = {nodePort[c][s] : s \in Services} \ {None}
        /\ loc' = [loc EXCEPT !.nps = nps]
        /\ pc' = IF nps = {} THEN "done" ELSE "backendService"
        /\ Ended(nps = {}, FALSE)
  <2>1. ~\E f \in BOOLEAN : Ended(TRUE, f) /\ (KnownClusters # {} => f)
    BY <1>2, <1>3 DEF Ended
  <2> QED BY <1>3, <2>1, getNamedPortsEffect
<1>5. PICK nps \in SUBSET NodePorts :
        /\ nps = {nodePort[c][s] : s \in Services} \ {None}
        /\ loc' = [loc EXCEPT !.nps = nps]
        /\ pc' = IF nps = {} THEN "done" ELSE "backendService"
        /\ Ended(nps = {}, FALSE)
  BY <1>4
<1>6. \A s \in ServicesOf(cmd.spec) : s \in Services
  BY RunningCommand DEF Repeating, Creating, BaseInv, TypeInv, ServicesOf, SpecType
<1>7. \A s \in ServicesOf(cmd.spec) : nodePort[c][s] \in nps
  BY <1>2, <1>5, <1>6 DEF nodePortSameInAllClusters
<1>8. nps # {}
  BY <1>2, <1>7 DEF ServicesOf
<1>9. loc'.ports = loc.ports /\ loc'.nps = nps /\ cmd' = cmd
  BY <1>5 DEF Ended, BaseInv, TypeInv, TypeOK, Locals
<1>10. PortsNamed'
  BY <1>2, <1>7, <1>9 DEF PortsNamed, PortsFound
<1>11. PortsFound'
  BY <1>1, <1>2, <1>9, PortsKept
<1> QED BY <1>1, <1>2, <1>5, <1>8, <1>10, <1>11 DEF Ended, Repeated, PortsKnown,
          PastHealthChecks, PastBackends, PastURLMap, PastHTTP, PastCert

\* The steps that know the ports and their names keep them.
LEMMA StillKnown ==
  ASSUME Repeating, pc \in PastBackends \cup {"backendService"}, cmd' = cmd,
         nodePort' = nodePort, loc'.ports = loc.ports, loc'.nps = loc.nps,
         pc' \in {"httpsProxy", "httpsRule"} => cmd.spec.tls # None
  PROVE  PortsKnown'
<1>1. PortsFound /\ PortsNamed
  BY DEF Repeating, PortsKnown, PastHealthChecks, PastBackends
<1>2. PortsFound' /\ PortsNamed'
  BY <1>1, PortsKept
<1> QED BY <1>2 DEF PortsKnown

\* The backend services.
LEMMA createBackendServicesRepeats ==
  ASSUME Repeating, ~fault', createBackendServices
  PROVE  Repeated
<1>1. /\ pc = "backendService" /\ pc' = "urlMap"
      /\ UNCHANGED <<hc, um, tp, fr, cert, fw, ing, nodePort>>
  BY DEF createBackendServices
<1>2. PICK o \in EnsureBackendService(loc.ports, loc.hcs, loc.nps, AllIGs, cmd.force) :
        /\ be' = Results(o)
        /\ loc' = [loc EXCEPT !.bes = ensuredBackendServices(loc.ports, o)]
        /\ Record(AnyErr(o), AnyFault(o))
  BY DEF createBackendServices
<1>3. ~AnyFault(o) /\ err' = (err \/ AnyErr(o)) /\ cmd' = cmd /\ ~err
  BY <1>2 DEF Record, Repeating
<1>4. /\ BackendServiceTypeOK /\ PortsFound /\ PortsNamed /\ HealthChecksBuilt
      /\ loc.todo = {}
  BY <1>1 DEF Repeating, PortsKnown, PastHealthChecks, BaseInv, TypeInv, TypeOK,
     CreateInv, BuiltSoFar, IGsInv, IGsKnown, AskedAll
<1>5. AllIGs = GroupsOf(cmd)
  BY <1>1, <1>4, RepeatKnown
<1>6. \A p \in NodePorts : loc.ports[p] # None =>
        /\ p \in loc.hcs /\ p \in loc.nps /\ be[p] # None
        /\ be[p] = desiredBackendService(loc.ports[p], AllIGs)
  BY <1>4, <1>5, FittingPort DEF PortsNamed, HealthChecksBuilt
<1>7. Results(o) = be /\ ~AnyErr(o)
  BY <1>3, <1>4, <1>6, EnsureBackendServiceRepeats
<1>8. loc'.ports = loc.ports /\ loc'.nps = loc.nps
  BY <1>2 DEF Repeating, BaseInv, TypeInv, TypeOK, Locals
<1>9. PortsKnown'
  BY <1>1, <1>3, <1>8, StillKnown
<1> QED BY <1>1, <1>2, <1>3, <1>7, <1>9 DEF Repeated, cloud

\* A url map depends on the ports of the services of the ingress alone.
LEMMA SameURLMap ==
  ASSUME NEW spec \in SpecType, spec.default # None, NEW clusters, NEW bes, NEW np,
         \A s \in ServicesOf(spec) : bes[s] = np[s]
  PROVE  desiredURLMap(spec, clusters, bes, 1) = desiredURLMap(spec, clusters, np, 1)
<1>1. spec.default \in ServicesOf(spec) /\ spec.paths \subseteq ServicesOf(spec)
  BY NoneAssumption DEF ServicesOf, SpecType
<1>2. bes[spec.default] = np[spec.default]
  BY <1>1
<1>3. [s \in Services |-> IF s \in spec.paths THEN bes[s] ELSE None]
        = [s \in Services |-> IF s \in spec.paths THEN np[s] ELSE None]
  BY <1>1
<1> QED BY <1>2, <1>3 DEF desiredURLMap

\* The url map that is wanted is made of the ports that all clusters have.
LEMMA WantedURLMap ==
  ASSUME Repeating, PortsFound, BackendsBuilt, NEW k \in cmd.clusters
  PROVE  /\ \A s \in ServicesOf(cmd.spec) : loc.bes[s] = nodePort[k][s] /\ loc.bes[s] # None
         /\ desiredURLMap(cmd.spec, cmd.clusters, loc.bes, 1)
              = desiredURLMap(cmd.spec, cmd.clusters, nodePort[k], 1)
<1>1. \A s \in ServicesOf(cmd.spec) : s \in Services
  BY RunningCommand DEF Repeating, Creating, BaseInv, TypeInv, ServicesOf, SpecType
<1>2. \A s \in ServicesOf(cmd.spec) : loc.bes[s] = nodePort[k][s] /\ loc.bes[s] # None
  <2> SUFFICES ASSUME NEW s \in ServicesOf(cmd.spec)
               PROVE  loc.bes[s] = nodePort[k][s] /\ loc.bes[s] # None
    OBVIOUS
  <2>1. loc.bes[s] # None
    BY <1>1 DEF PortsFound, BackendsBuilt
  <2>2. loc.bes[s] \in NodePorts /\ loc.ports[loc.bes[s]] = s /\ s # None
    BY <1>1, <2>1, NoneAssumption DEF BackendsBuilt
  <2> QED BY <2>1, <2>2 DEF PortsFound
<1>3. cmd.spec \in SpecType /\ cmd.spec.default # None
  BY RunningCommand DEF Repeating, Creating, BaseInv, TypeInv, Creatable
<1> QED BY <1>2, <1>3, SameURLMap

\* The url map.
LEMMA createURLMapRepeats ==
  ASSUME Repeating, ~fault', createURLMap
  PROVE  Repeated
<1>1. /\ pc = "urlMap" /\ pc' \in {"httpProxy", "sslCert", "firewall"}
      /\ UNCHANGED <<hc, be, tp, fr, cert, fw, ing, nodePort>>
  BY DEF createURLMap, AfterHTTP
<1>2. PICK o \in EnsureURLMap(cmd.spec, cmd.clusters, loc.bes, cmd.force) :
        um' = o.res /\ loc' = [loc EXCEPT !.um = ~o.err] /\ Record(o.err, o.fault)
  BY DEF createURLMap
<1>3. ~o.fault /\ err' = (err \/ o.err) /\ cmd' = cmd /\ ~err
  BY <1>2 DEF Record, Repeating
<1>4. PortsFound /\ BackendsBuilt
  BY <1>1 DEF Repeating, PortsKnown, PastHealthChecks, PastBackends, CreateInv, BuiltSoFar
<1>5. PICK k \in cmd.clusters : TRUE
  BY DEF Repeating, Creatable
<1>6. um # None /\ um = desiredURLMap(cmd.spec, cmd.clusters, nodePort[k], 1)
  BY DEF Repeating, Fits, URLMapFits, FrontendFits
<1>7. um = desiredURLMap(cmd.spec, cmd.clusters, loc.bes, 1)
  BY <1>4, <1>6, WantedURLMap
<1>8. ~ingToURLMapFails(cmd.spec, loc.bes)
  BY <1>4, WantedURLMap DEF ingToURLMapFails, Repeating, Creatable
<1>9. cmd.spec.orders = 1
  BY DEF Repeating
<1>10. o.res = um /\ ~o.err
  BY <1>3, <1>6, <1>7, <1>8, <1>9, EnsureURLMapRepeats
<1>11. loc'.ports = loc.ports /\ loc'.nps = loc.nps
  BY <1>2 DEF Repeating, BaseInv, TypeInv, TypeOK, Locals
<1>12. PortsKnown'
  BY <1>1, <1>3, <1>11, StillKnown DEF PastBackends
<1> QED BY <1>1, <1>2, <1>3, <1>10, <1>12 DEF Repeated, cloud

\* The HTTP proxy.
LEMMA createHTTPProxyRepeats ==
  ASSUME Repeating, ~fault', createHTTPProxy
  PROVE  Repeated
<1>1. /\ pc = "httpProxy" /\ pc' = "httpRule"
      /\ UNCHANGED <<hc, be, um, fr, cert, fw, ing, nodePort>>
  BY DEF createHTTPProxy
<1>2. PICK o \in ensureHTTPProxy(loc.um, cmd.force) :
        /\ tp' = [tp EXCEPT !["http"] = o.res]
        /\ loc' = [loc EXCEPT !.tp = ~o.err]
        /\ Record(o.err, o.fault)
  BY DEF createHTTPProxy
<1>3. ~o.fault /\ err' = (err \/ o.err) /\ cmd' = cmd /\ ~err
  BY <1>2 DEF Record, Repeating
<1>4. loc.um = TRUE /\ tp["http"] # None
  <2>1. loc.um /\ cmd.spec.http /\ loc.um \in BOOLEAN
    BY <1>1 DEF Repeating, CreateInv, BuiltSoFar, PastURLMap, URLMapBuilt, FrontendBuilt,
       BaseInv, TypeInv, TypeOK, Locals
  <2> QED BY <2>1 DEF Repeating, Fits, FrontendFits
<1>5. o.res = tp["http"] /\ ~o.err
  BY <1>2, <1>3, <1>4, ensureHTTPProxyRepeats
<1>6. tp' = tp
  BY <1>2, <1>5 DEF Repeating, BaseInv, TypeInv, TypeOK, TargetProxyTypeOK
<1>7. loc'.ports = loc.ports /\ loc'.nps = loc.nps
  BY <1>2 DEF Repeating, BaseInv, TypeInv, TypeOK, Locals
<1>8. PortsKnown'
  BY <1>1, <1>3, <1>7, StillKnown DEF PastBackends, PastURLMap
<1> QED BY <1>1, <1>3, <1>5, <1>6, <1>8 DEF Repeated, cloud

\* The forwarding rules.
LEMMA createRuleRepeats ==
  ASSUME Repeating, ~fault', NEW here, NEW q \in Protocols, NEW next, createRule(here, q, next),
         pc \in PastURLMap, next # "httpsProxy", next # "httpsRule", loc.tp,
         fr[q] = desiredForwardingRule(cmd.spec.ip), fr[q] # None
  PROVE  Repeated
<1>1. pc' = next /\ UNCHANGED <<hc, be, um, tp, cert, fw, ing, nodePort, loc>>
  BY DEF createRule
<1>2. PICK o \in ensureForwardingRule(q, cmd.spec.ip, loc.tp, cmd.force) :
        fr' = [fr EXCEPT ![q] = o.res] /\ Record(o.err, o.fault)
  BY DEF createRule
<1>3. ~o.fault /\ err' = (err \/ o.err) /\ cmd' = cmd /\ ~err
  BY <1>2 DEF Record, Repeating
<1>4. loc.tp = TRUE
  BY DEF Repeating, BaseInv, TypeInv, TypeOK, Locals
<1>5. o.res = fr[q] /\ ~o.err
  BY <1>2, <1>3, <1>4, ensureForwardingRuleRepeats
<1>6. fr' = fr
  BY <1>2, <1>5 DEF Repeating, BaseInv, TypeInv, TypeOK, ForwardingRuleTypeOK
<1>7. PortsKnown'
  BY <1>1, <1>3, StillKnown DEF PastBackends
<1> QED BY <1>1, <1>3, <1>5, <1>6, <1>7 DEF Repeated, cloud

\* A rule that is wanted is not None.
LEMMA WantedRule ==
  ASSUME Repeating
  PROVE  desiredForwardingRule(cmd.spec.ip) # None
<1>1. cmd.spec.ip \in IPs
  BY RunningCommand DEF Repeating, Creating, BaseInv, TypeInv, SpecType, Creatable
<1>2. desiredForwardingRule(cmd.spec.ip) \in ForwardingRules
  BY <1>1 DEF desiredForwardingRule, ForwardingRules
<1> QED BY <1>2, NoneOfForwardingRules

LEMMA createHTTPRuleRepeats ==
  ASSUME Repeating, ~fault', createRule("httpRule", "http", AfterHTTP)
  PROVE  Repeated
<1>1. pc = "httpRule" /\ AfterHTTP \in {"sslCert", "firewall"}
  BY DEF createRule, AfterHTTP
<1>2. loc.tp /\ cmd.spec.http
  BY <1>1 DEF Repeating, CreateInv, BuiltSoFar, FrontendBuilt
<1>3. fr["http"] = desiredForwardingRule(cmd.spec.ip) /\ fr["http"] # None
  BY <1>2, WantedRule DEF Repeating, Fits, FrontendFits
<1>4. "http" \in Protocols /\ pc \in PastURLMap
  BY <1>1 DEF Protocols, PastURLMap
<1> DEFINE next == AfterHTTP
<1>5. next # "httpsProxy" /\ next # "httpsRule" /\ createRule("httpRule", "http", next)
  BY <1>1
<1> HIDE DEF next
<1> QED BY <1>2, <1>3, <1>4, <1>5, createRuleRepeats

LEMMA createHTTPSRuleRepeats ==
  ASSUME Repeating, ~fault', createRule("httpsRule", "https", "firewall")
  PROVE  Repeated
<1>1. pc = "httpsRule"
  BY DEF createRule
<1>2. loc.tp /\ cmd.spec.tls # None
  BY <1>1 DEF Repeating, CreateInv, BuiltSoFar, FrontendBuilt, PortsKnown
<1>3. fr["https"] = desiredForwardingRule(cmd.spec.ip) /\ fr["https"] # None
  BY <1>2, WantedRule DEF Repeating, Fits, FrontendFits
<1>4. "https" \in Protocols /\ pc \in PastURLMap
  BY <1>1 DEF Protocols, PastURLMap, PastHTTP, PastCert
<1> QED BY <1>2, <1>3, <1>4, createRuleRepeats

\* The certificate.
LEMMA createSSLCertRepeats ==
  ASSUME Repeating, ~fault', createSSLCert
  PROVE  Repeated
<1>1. /\ pc = "sslCert" /\ pc' = "httpsProxy"
      /\ UNCHANGED <<hc, be, um, tp, fr, fw, ing, nodePort>>
  BY DEF createSSLCert
<1>2. PICK o \in EnsureSSLCert(cmd.spec.tls, OwnCertInUse, cmd.force) :
        /\ cert' = o.res
        /\ loc' = [loc EXCEPT !.cert = IF o.err THEN None ELSE certLink(cmd.spec.tls)]
        /\ Record(o.err, o.fault)
  BY DEF createSSLCert
<1>3. ~o.fault /\ err' = (err \/ o.err) /\ cmd' = cmd /\ ~err
  BY <1>2 DEF Record, Repeating
<1>4. cmd.spec.tls # None /\ cmd.spec.tls \in CertData \cup PreSharedCerts
  BY <1>1, RunningCommand DEF Repeating, Creating, BaseInv, TypeInv, StepKnows, SpecType
<1>5. cmd.spec.tls \notin PreSharedCerts => cert # None /\ cert = cmd.spec.tls
  BY <1>4 DEF Repeating, Fits, FrontendFits
<1>6. o.res = cert /\ ~o.err
  BY <1>2, <1>3, <1>5, EnsureSSLCertRepeats
<1>7. loc'.ports = loc.ports /\ loc'.nps = loc.nps
  BY <1>2 DEF Repeating, BaseInv, TypeInv, TypeOK, Locals
<1>8. PortsKnown'
  BY <1>1, <1>3, <1>4, <1>7, StillKnown DEF PastBackends, PastURLMap, PastHTTP
<1> QED BY <1>1, <1>2, <1>3, <1>6, <1>8 DEF Repeated, cloud

\* The HTTPS proxy.
LEMMA createHTTPSProxyRepeats ==
  ASSUME Repeating, ~fault', createHTTPSProxy
  PROVE  Repeated
<1>1. /\ pc = "httpsProxy" /\ pc' = "httpsRule"
      /\ UNCHANGED <<hc, be, um, fr, cert, fw, ing, nodePort>>
  BY DEF createHTTPSProxy
<1>2. PICK o \in ensureHTTPSProxy(loc.um, loc.cert, cmd.force) :
        /\ tp' = [tp EXCEPT !["https"] = o.res]
        /\ loc' = [loc EXCEPT !.tp = ~o.err]
        /\ Record(o.err, o.fault)
  BY DEF createHTTPSProxy
<1>3. ~o.fault /\ err' = (err \/ o.err) /\ cmd' = cmd /\ ~err
  BY <1>2 DEF Record, Repeating
<1>4. loc.um = TRUE /\ cmd.force \in BOOLEAN /\ cmd.spec.tls # None
  BY <1>1, RunningCommand DEF Repeating, Creating, CreateInv, BuiltSoFar, PastURLMap,
     PastHTTP, PastCert, URLMapBuilt, PortsKnown, BaseInv, TypeInv, TypeOK, Locals
<1>5. tp["https"] # None /\ (~cmd.force => tp["https"].cert = loc.cert)
  BY <1>1, <1>4 DEF Repeating, Fits, FrontendFits, CreateInv, BuiltSoFar, FrontendBuilt
<1>6. o.res = tp["https"] /\ ~o.err
  BY <1>2, <1>3, <1>4, <1>5, ensureHTTPSProxyRepeats
<1>7. tp' = tp
  BY <1>2, <1>6 DEF Repeating, BaseInv, TypeInv, TypeOK, TargetProxyTypeOK
<1>8. loc'.ports = loc.ports /\ loc'.nps = loc.nps
  BY <1>2 DEF Repeating, BaseInv, TypeInv, TypeOK, Locals
<1>9. PortsKnown'
  BY <1>1, <1>3, <1>4, <1>8, StillKnown DEF PastBackends, PastURLMap, PastHTTP, PastCert
<1> QED BY <1>1, <1>3, <1>6, <1>7, <1>9 DEF Repeated, cloud

\* The firewall rule.
LEMMA createFirewallRepeats ==
  ASSUME Repeating, ~fault', createFirewall
  PROVE  Repeated
<1>1. /\ pc = "firewall" /\ pc' = "done"
      /\ UNCHANGED <<hc, be, um, tp, fr, cert, ing, nodePort, loc>>
  BY DEF createFirewall
<1>2. PICK o \in EnsureFirewallRule(loc.ports, KnownClusters, cmd.force) :
        fw' = o.res /\ Record(o.err, o.fault)
  BY DEF createFirewall
<1>3. ~o.fault /\ err' = (err \/ o.err) /\ cmd' = cmd /\ ~err
  BY <1>2 DEF Record, Repeating
<1>4. KnownClusters = cmd.clusters
  <2>1. loc.todo = {}
    BY <1>1 DEF Repeating, IGsInv, IGsKnown, AskedAll
  <2> QED BY <1>1, <2>1, RepeatKnown
<1>5. fw # None /\ fw = desiredFirewallRule(loc.ports, cmd.clusters)
  <2>1. PICK k \in cmd.clusters : TRUE
    BY DEF Repeating, Creatable
  <2>2. fw # None /\ fw = [ports |-> {nodePort[k][s] : s \in ServicesOf(cmd.spec)},
                           tags |-> getTargetTags(cmd.clusters)]
    BY DEF Repeating, Fits, FirewallFits
  <2>3. PortsFound
    BY <1>1 DEF Repeating, PortsKnown, PastHealthChecks, PastBackends, PastURLMap,
       PastHTTP, PastCert
  <2>4. \A s \in ServicesOf(cmd.spec) : s # None
    BY DEF ServicesOf
  <2>5. {p \in NodePorts : loc.ports[p] # None} = {nodePort[k][s] : s \in ServicesOf(cmd.spec)}
    <3>1. ASSUME NEW p \in NodePorts, loc.ports[p] # None
          PROVE  loc.ports[p] \in ServicesOf(cmd.spec) /\ nodePort[k][loc.ports[p]] = p
      BY <2>3, <3>1 DEF PortsFound
    <3>2. ASSUME NEW s \in ServicesOf(cmd.spec)
          PROVE  nodePort[k][s] \in NodePorts /\ loc.ports[nodePort[k][s]] # None
      <4>1. PICK p \in NodePorts : loc.ports[p] = s
        BY <2>3 DEF PortsFound
      <4> QED BY <2>3, <2>4, <4>1 DEF PortsFound
    <3> QED BY <3>1, <3>2
  <2> QED BY <2>2, <2>5 DEF desiredFirewallRule
<1>6. None \notin getTargetTags(cmd.clusters)
  BY DEF Repeating, Creatable
<1>7. o.res = fw /\ ~o.err
  BY <1>2, <1>3, <1>4, <1>5, <1>6, EnsureFirewallRuleRepeats
<1>8. PortsKnown'
  BY <1>1, <1>3, StillKnown DEF PastBackends, PastURLMap, PastHTTP, PastCert
<1> QED BY <1>1, <1>2, <1>3, <1>7, <1>8 DEF Repeated, cloud

\* Every step of the repeated create.
LEMMA CreateStepRepeats ==
  ASSUME Repeating, ~fault', CreateStep
  PROVE  Repeated
BY createIngressRepeats, createNodePortsRepeats, createHealthChecksRepeats,
   getIGsRepeats, getNamedPortsRepeats, createBackendServicesRepeats, createURLMapRepeats,
   createHTTPProxyRepeats, createHTTPRuleRepeats, createSSLCertRepeats,
   createHTTPSProxyRepeats, createHTTPSRuleRepeats, createFirewallRepeats
   DEF CreateStep, CreateLoadBalancer

-----------------------------------------------------------------------------
(***************************************************************************)
(* What a create that meets no error leaves fits it.  FitInv adds to what  *)
(* CreateInv tells of the resources what create compared to get there: the *)
(* ingresses, the versions of the clusters, where the ports were found,    *)
(* the paths of the probes, the whole url map and the network tags.        *)
(***************************************************************************)
PortsAsked ==
  /\ cmd.clusters # {}
  /\ \A p \in NodePorts : loc.ports[p] # None =>
       /\ loc.ports[p] \in ServicesOf(cmd.spec)
       /\ \E c \in cmd.clusters : nodePort[c][loc.ports[p]] = p

ProbesAgree ==
  \A p \in NodePorts : loc.ports[p] # None => PathsAgree(loc.ports[p], cmd.clusters)

URLMapWanted ==
  \E order \in 1..cmd.spec.orders :
    um = desiredURLMap(cmd.spec, cmd.clusters, loc.bes, order)

FitSoFar ==
  /\ cmd.validate /\ pc # "validate" => serverVersionsNewEnough(cmd.clusters)
  /\ pc \in PastIngress => \A c \in cmd.clusters : ing[c] # None /\ ing[c].spec = cmd.spec
  /\ pc \in PastHealthChecks \cup {"healthCheck"} => PortsAsked
  /\ pc \in PastHealthChecks => ProbesAgree
  /\ pc \in PastURLMap => URLMapWanted
  /\ pc = "done" => /\ None \notin getTargetTags(cmd.clusters)
                    /\ \A c \in cmd.clusters : loc.igs[c] = ing[c].igs

FitInv == Creating /\ ~err => FitSoFar

(***************************************************************************)
(* The last create that succeeded, while nothing was done since: its load  *)
(* balancer fits it, and running it again finds that.                      *)
(***************************************************************************)
RepeatInv ==
  stable # None /\ stable.spec.orders = 1 /\ (pc = "idle" \/ (cmd = stable /\ ~fault)) =>
    /\ stable.op = "create" /\ Creatable(stable) /\ Fits(stable)
    /\ pc # "idle" => ~err /\ PortsKnown

\* When a create ends, its clusters have its services on the same ports.
PortsAgree ==
  Done("create") =>
    \A s \in ServicesOf(cmd.spec) : \A c, d \in cmd.clusters :
      nodePort[c][s] = nodePort[d][s]

\* The ingresses, and the validation before them.
LEMMA createIngressFits ==
  ASSUME BaseInv, FitInv, Creating, createValidate \/ createIngress, ~err'
  PROVE  FitSoFar'
<1> USE DEF FitSoFar, PastIngress, PastHealthChecks, PastBackends, PastURLMap, PastHTTP,
        PastCert
<1>1. CASE createValidate
  <2>1. PICK o \in Outcomes({None}) :
          /\ Ended(o.err, o.fault)
          /\ pc' = IF o.err THEN "done" ELSE "ensureIngress"
          /\ ~o.err /\ cmd.validate => serverVersionsNewEnough(cmd.clusters)
    BY <1>1, createValidateEffect
  <2>2. ~o.err /\ cmd' = cmd
    BY <2>1 DEF Ended
  <2>3. cmd'.validate => serverVersionsNewEnough(cmd.clusters)'
    BY <2>1, <2>2 DEF serverVersionsNewEnough
  <2> QED BY <2>1, <2>2, <2>3
<1>2. CASE createIngress
  <2>1. PICK o : /\ IngressesEnsured(cmd.spec, cmd.clusters, cmd.force, o)
                 /\ ing' = Results(o) /\ Ended(AnyErr(o), AnyFault(o))
                 /\ pc' = IF AnyErr(o) THEN "done" ELSE "nodePorts"
    BY <1>2, createIngressEffect
  <2>2. ~AnyErr(o) /\ cmd' = cmd /\ ~err
    BY <2>1 DEF Ended
  <2>3. cmd.clusters \subseteq Clusters
    BY RunningCommand DEF Creating, BaseInv, TypeInv
  <2>4. \A c \in cmd.clusters : ing'[c] # None /\ ing'[c].spec = cmd.spec
    BY <2>1, <2>2, <2>3 DEF IngressesEnsured
  <2>5. pc = "ensureIngress"
    BY <1>2, createIngressEffect
  <2>6. cmd.validate => serverVersionsNewEnough(cmd.clusters)
    BY <2>2, <2>5 DEF FitInv
  <2>7. cmd'.validate => serverVersionsNewEnough(cmd.clusters)'
    BY <2>2, <2>6 DEF serverVersionsNewEnough
  <2> QED BY <2>1, <2>2, <2>4, <2>7
<1> QED BY <1>1, <1>2

\* A step after the ingresses keeps what was compared before it.
LEMMA FitKept ==
  ASSUME FitInv, Creating, ~err, pc \in PastIngress, cmd' = cmd, UNCHANGED <<ing, nodePort>>,
         pc' \in PastHealthChecks \cup {"healthCheck"} =>
           \/ PortsAsked'
           \/ pc \in PastHealthChecks \cup {"healthCheck"} /\ loc'.ports = loc.ports,
         pc' \in PastHealthChecks =>
           \/ ProbesAgree'
           \/ pc \in PastHealthChecks /\ loc'.ports = loc.ports,
         pc' \in PastURLMap =>
           \/ URLMapWanted'
           \/ pc \in PastURLMap /\ loc'.bes = loc.bes /\ um' = um,
         pc' = "done" => /\ None \notin getTargetTags(cmd.clusters)
                         /\ \A c \in cmd.clusters : loc'.igs[c] = ing[c].igs
  PROVE  FitSoFar'
<1>1. FitSoFar /\ pc # "validate"
  BY DEF FitInv, PastIngress, PastHealthChecks, PastBackends, PastURLMap, PastHTTP, PastCert
<1>2. (cmd.validate /\ pc # "validate" => serverVersionsNewEnough(cmd.clusters))'
  BY <1>1 DEF FitSoFar, serverVersionsNewEnough
<1>3. (\A c \in cmd.clusters : ing[c] # None /\ ing[c].spec = cmd.spec)'
  BY <1>1 DEF FitSoFar
<1>4. (pc \in PastHealthChecks \cup {"healthCheck"} => PortsAsked)'
  BY <1>1 DEF FitSoFar, PortsAsked
<1>5. (pc \in PastHealthChecks => ProbesAgree)'
  BY <1>1 DEF FitSoFar, ProbesAgree
<1>6. (pc \in PastURLMap => URLMapWanted)'
  BY <1>1 DEF FitSoFar, URLMapWanted
<1>7. (pc = "done" => /\ None \notin getTargetTags(cmd.clusters)
                      /\ \A c \in cmd.clusters : loc.igs[c] = ing[c].igs)'
  BY DEF getTargetTags
<1> QED BY <1>2, <1>3, <1>4, <1>5, <1>6, <1>7 DEF FitSoFar

\* The node ports are those of one of the clusters.
LEMMA createNodePortsFits ==
  ASSUME BaseInv, FitInv, Creating, createNodePorts \/ noIPAddress, ~err'
  PROVE  FitSoFar'
<1>1. createNodePorts /\ ~noIPAddress
  BY noIPAddressEffect DEF Ended
<1>2. PICK c \in cmd.clusters : \E r :
        /\ r.ports \in [NodePorts -> Services \cup {None}]
        /\ PortsRead(cmd.spec, c, r)
        /\ pc' = "healthCheck" /\ loc' = [loc EXCEPT !.ports = r.ports]
        /\ Ended(FALSE, r.fault)
  BY <1>1, createNodePortsEffect DEF Ended
<1>3. PICK r :
        /\ r.ports \in [NodePorts -> Services \cup {None}]
        /\ PortsRead(cmd.spec, c, r)
        /\ pc' = "healthCheck" /\ loc' = [loc EXCEPT !.ports = r.ports]
        /\ Ended(FALSE, r.fault)
  BY <1>2
<1>4. pc = "nodePorts" /\ UNCHANGED <<ing, nodePort>>
  BY <1>1, createNodePortsEffect
<1>5. cmd' = cmd /\ ~err
  BY <1>3 DEF Ended
<1>6. loc'.ports = r.ports
  BY <1>3 DEF BaseInv, TypeInv, TypeOK, Locals
<1>7. PortsAsked'
  BY <1>3, <1>4, <1>5, <1>6 DEF PortsAsked, PortsRead
<1>8. /\ pc \in PastIngress /\ pc' \notin PastHealthChecks /\ pc' \notin PastURLMap
      /\ pc' # "done"
  BY <1>3, <1>4 DEF PastIngress, PastHealthChecks, PastBackends, PastURLMap, PastHTTP, PastCert
<1> QED BY <1>4, <1>5, <1>7, <1>8, FitKept

\* The health checks are only ensured if the probes agree.
LEMMA createHealthChecksFits ==
  ASSUME BaseInv, FitInv, Creating, createHealthChecks, ~err'
  PROVE  FitSoFar'
<1>1. pc = "healthCheck" /\ pc' = "getIGs" /\ UNCHANGED <<ing, nodePort>>
  BY createHealthChecksEffect
<1>2. PICK o : /\ HealthChecksEnsured(loc.ports, cmd.clusters, cmd.force, o)
               /\ AnyErr(o) <=> \E p \in NodePorts : o[p].err
               /\ loc' = [loc EXCEPT !.hcs = {p \in NodePorts :
                                                loc.ports[p] # None /\ ~o[p].err}]
               /\ Ended(AnyErr(o), AnyFault(o))
  BY createHealthChecksEffect
<1>3. loc'.ports = loc.ports
  BY <1>2 DEF BaseInv, TypeInv, TypeOK, Locals
<1>4. cmd' = cmd /\ ~err /\ ~AnyErr(o)
  BY <1>2 DEF Ended
<1>5. \A p \in NodePorts : loc.ports[p] # None => PathsAgree(loc.ports[p], cmd.clusters)
  BY <1>2, <1>4 DEF HealthChecksEnsured
<1>6. ProbesAgree'
  BY <1>3, <1>4, <1>5 DEF ProbesAgree, PathsAgree, ProbePaths
<1>7. pc \in PastIngress /\ pc' \notin PastURLMap /\ pc' # "done"
  BY <1>1 DEF PastIngress, PastURLMap, PastHTTP, PastCert
<1> QED BY <1>1, <1>3, <1>4, <1>6, <1>7, FitKept

\* The instance groups and the named ports.
LEMMA getIGsFits ==
  ASSUME BaseInv, IGsInv, FitInv, Creating, getIGs("getIGs") \/ getNamedPorts, ~err'
  PROVE  FitSoFar'
<1>1. CASE getIGs("getIGs")
  <2>1. /\ pc = "getIGs" /\ pc' = pc /\ cmd' = cmd /\ UNCHANGED <<ing, nodePort>>
        /\ err => err'
        /\ loc' = [loc EXCEPT !.igs = loc'.igs, !.todo = loc'.todo]
    BY <1>1, getIGsAnswer
  <2>2. loc'.ports = loc.ports
    BY <2>1 DEF BaseInv, TypeInv, TypeOK, Locals
  <2>3. pc \in PastIngress /\ pc \in PastHealthChecks /\ pc' \notin PastURLMap /\ pc' # "done"
    BY <2>1 DEF PastIngress, PastHealthChecks, PastURLMap, PastHTTP, PastCert
  <2> QED BY <2>1, <2>2, <2>3, FitKept
<1>2. CASE getNamedPorts
  <2>1. pc = "getIGs" /\ UNCHANGED <<ing, nodePort>>
    BY <1>2, getNamedPortsEffect
  <2>2. /\ pc' = "backendService" /\ cmd' = cmd /\ ~err
        /\ \E nps : loc' = [loc EXCEPT !.nps = nps]
    BY <1>2, getNamedPortsEffect DEF Ended
  <2>3. loc'.ports = loc.ports
    BY <2>2 DEF BaseInv, TypeInv, TypeOK, Locals
  <2>4. pc \in PastIngress /\ pc \in PastHealthChecks /\ pc' \notin PastURLMap /\ pc' # "done"
    BY <2>1, <2>2 DEF PastIngress, PastHealthChecks, PastURLMap, PastHTTP, PastCert
  <2> QED BY <2>1, <2>2, <2>3, <2>4, FitKept
<1> QED BY <1>1, <1>2

\* The backend services.
LEMMA createBackendServicesFits ==
  ASSUME BaseInv, FitInv, Creating, createBackendServices, ~err'
  PROVE  FitSoFar'
<1>1. pc = "backendService" /\ pc' = "urlMap" /\ UNCHANGED <<ing, nodePort>>
  BY createBackendServicesEffect
<1>2. PICK o : /\ loc' = [loc EXCEPT !.bes = ensuredBackendServices(loc.ports, o)]
               /\ Ended(AnyErr(o), AnyFault(o))
  BY createBackendServicesEffect
<1>3. cmd' = cmd /\ ~err
  BY <1>2 DEF Ended
<1>4. loc'.ports = loc.ports
  BY <1>2 DEF BaseInv, TypeInv, TypeOK, Locals
<1>5. pc \in PastIngress /\ pc \in PastHealthChecks /\ pc' \notin PastURLMap /\ pc' # "done"
  BY <1>1 DEF PastIngress, PastHealthChecks, PastURLMap, PastHTTP, PastCert
<1> QED BY <1>1, <1>3, <1>4, <1>5, FitKept

\* The url map, as a whole.
LEMMA createURLMapFits ==
  ASSUME BaseInv, FitInv, Creating, createURLMap, ~err'
  PROVE  FitSoFar'
<1>1. /\ pc = "urlMap" /\ pc' \in {"httpProxy", "sslCert", "firewall"}
      /\ UNCHANGED <<ing, nodePort>>
  BY createURLMapEffect DEF AfterHTTP
<1>2. PICK o : /\ URLMapEnsured(cmd.spec, cmd.clusters, loc.bes, cmd.force, o)
               /\ um' = o.res /\ loc' = [loc EXCEPT !.um = ~o.err]
               /\ Ended(o.err, o.fault)
  BY createURLMapEffect
<1>3. cmd' = cmd /\ ~err /\ ~o.err
  BY <1>2 DEF Ended
<1>4. loc'.ports = loc.ports /\ loc'.bes = loc.bes
  BY <1>2 DEF BaseInv, TypeInv, TypeOK, Locals
<1>5. \E order \in 1..cmd.spec.orders :
        o.res = desiredURLMap(cmd.spec, cmd.clusters, loc.bes, order)
  BY <1>2, <1>3 DEF URLMapEnsured
<1>6. URLMapWanted'
  BY <1>2, <1>3, <1>4, <1>5 DEF URLMapWanted, desiredURLMap
<1>7. pc \in PastIngress /\ pc \in PastHealthChecks /\ pc' # "done"
  BY <1>1 DEF PastIngress, PastHealthChecks, PastBackends
<1> QED BY <1>1, <1>3, <1>4, <1>6, <1>7, FitKept

\* The front end.
LEMMA createFrontendFits ==
  ASSUME BaseInv, FitInv, Creating, ~err',
         \/ createHTTPProxy \/ createRule("httpRule", "http", AfterHTTP)
         \/ createSSLCert \/ createHTTPSProxy \/ createRule("httpsRule", "https", "firewall")
  PROVE  FitSoFar'
<1>1. pc \in PastIngress /\ pc \in PastHealthChecks /\ pc \in PastURLMap /\ pc' # "done"
  BY DEF createHTTPProxy, createRule, createSSLCert, createHTTPSProxy, AfterHTTP,
     PastIngress, PastHealthChecks, PastBackends, PastURLMap, PastHTTP, PastCert
<1>2. UNCHANGED <<um, ing, nodePort>> /\ cmd' = cmd /\ ~err
  BY DEF createHTTPProxy, createRule, createSSLCert, createHTTPSProxy, Record
<1>3. loc'.ports = loc.ports /\ loc'.bes = loc.bes
  BY DEF createHTTPProxy, createRule, createSSLCert, createHTTPSProxy,
     BaseInv, TypeInv, TypeOK, Locals
<1> QED BY <1>1, <1>2, <1>3, FitKept

\* The firewall rule: every cluster has answered, and has a network tag.
LEMMA createFirewallFits ==
  ASSUME BaseInv, IGsInv, FitInv, Creating, createFirewall, ~err'
  PROVE  FitSoFar'
<1>1. pc = "firewall" /\ pc' = "done" /\ UNCHANGED <<um, ing, nodePort, loc>>
  BY createFirewallEffect
<1>2. PICK e, f \in BOOLEAN :
        Ended(e, f) /\ (~e => None \notin getTargetTags(KnownClusters))
  BY createFirewallEffect
<1>3. cmd' = cmd /\ ~err /\ ~e
  BY <1>2 DEF Ended
<1>4. KnownClusters = cmd.clusters
  BY <1>1, <1>3, AllKnown DEF AskedAll, Creating
<1>5. \A c \in cmd.clusters : loc.igs[c] = ing[c].igs
  BY <1>1, <1>4 DEF IGsInv, IGsKnown, KnownClusters
<1>6. pc \in PastIngress /\ pc \in PastHealthChecks /\ pc \in PastURLMap
  BY <1>1 DEF PastIngress, PastHealthChecks, PastBackends, PastURLMap, PastHTTP, PastCert
<1> QED BY <1>1, <1>2, <1>3, <1>4, <1>5, <1>6, FitKept

\* FitInv is inductive while services do not change.
LEMMA NextFit ==
  CommandInv /\ FitInv /\ [Next]_vars /\ [ServicesKept]_vars => FitInv'
<1> SUFFICES ASSUME CommandInv, FitInv, [Next]_vars, [ServicesKept]_vars, Creating', ~err'
             PROVE  FitSoFar'
  BY DEF FitInv
<1>1. ASSUME NEW c \in Commands, Run(c) PROVE FitSoFar'
  <2>1. cmd' = c /\ pc' = FirstStep(c)
    BY <1>1 DEF Run
  <2>2. pc' = "validate"
    BY <2>1 DEF Creating, FirstStep
  <2> QED BY <2>2 DEF FitSoFar, PastIngress,
          PastHealthChecks, PastBackends, PastURLMap, PastHTTP, PastCert
<1>2. CASE pc # "idle" /\ Ends
  BY <1>2 DEF Ends, Creating
<1>3. CASE Bystander
  <2>1. UNCHANGED <<um, pc, cmd, err, loc>>
    BY <1>3 DEF Bystander, cloud
  <2>2. Creating /\ ~err /\ FitSoFar
    BY <2>1 DEF Creating, FitInv
  <2>3. nodePort' = nodePort
    BY <2>2 DEF Creating, ServicesKept, vars
  <2>4. cmd.clusters \subseteq Clusters /\ IGsKnown
    BY <2>2, RunningCommand DEF CommandInv, BaseInv, TypeInv, Creating, IGsInv
  <2>5. (cmd.validate /\ pc # "validate" => serverVersionsNewEnough(cmd.clusters))'
    BY <2>1, <2>2 DEF FitSoFar, serverVersionsNewEnough
  <2>6. (pc \in PastIngress => \A c \in cmd.clusters : ing[c] # None /\ ing[c].spec = cmd.spec)'
    BY <1>3, <2>1, <2>2, <2>4 DEF FitSoFar, Bystander, Annotated
  <2>7. (pc \in PastHealthChecks \cup {"healthCheck"} => PortsAsked)'
    BY <2>1, <2>2, <2>3 DEF FitSoFar, PortsAsked
  <2>8. (pc \in PastHealthChecks => ProbesAgree)'
    BY <2>1, <2>2 DEF FitSoFar, ProbesAgree, PathsAgree, ProbePaths
  <2>9. (pc \in PastURLMap => URLMapWanted)'
    BY <2>1, <2>2 DEF FitSoFar, URLMapWanted, desiredURLMap
  <2>10. ASSUME pc = "done"
         PROVE  (/\ None \notin getTargetTags(cmd.clusters)
                 /\ \A c \in cmd.clusters : loc.igs[c] = ing[c].igs)'
    <3>1. \A c \in cmd.clusters : loc.igs[c] # {} /\ loc.igs[c] = ing[c].igs
      BY <2>2, <2>4, <2>10 DEF FitSoFar, IGsKnown, AskedAll, Creating
    <3>2. \A c \in cmd.clusters : ing'[c] = ing[c]
      BY <1>3, <2>4, <3>1 DEF Bystander, Annotated
    <3> QED BY <2>1, <2>2, <2>10, <3>1, <3>2 DEF FitSoFar, getTargetTags
  <2> QED BY <2>1, <2>5, <2>6, <2>7, <2>8, <2>9, <2>10 DEF FitSoFar
<1>4. CASE pc # "idle" /\ cmd' = cmd /\ OwnStepOf(cmd.op)
  <2>1. Creating /\ CreateStep
    BY <1>4 DEF Creating, OwnStepOf
  <2> QED BY <2>1, createIngressFits, createNodePortsFits, createHealthChecksFits, getIGsFits,
          createBackendServicesFits, createURLMapFits, createFrontendFits, createFirewallFits
          DEF CreateStep, CreateLoadBalancer, CommandInv
<1> QED BY <1>1, <1>2, <1>3, <1>4, StepKinds DEF CommandInv

\* The load balancer that a create leaves when it has met no error fits it.
LEMMA DoneFits ==
  ASSUME CommandInv, CreateInv, FitInv, PortsAgree, Creating, pc = "done", ~err,
         cmd.spec.orders = 1
  PROVE  Creatable(cmd) /\ Fits(cmd)
<1>1. /\ FitSoFar /\ PortsAsked /\ ProbesAgree /\ URLMapWanted
      /\ HealthChecksBuilt /\ BackendsBuilt /\ URLMapBuilt /\ FrontendBuilt
  BY DEF CreateInv, FitInv, FitSoFar, BuiltSoFar, PastHealthChecks, PastBackends, PastURLMap,
     PastHTTP, PastCert
<1>2. cmd.spec \in SpecType /\ cmd.clusters \subseteq Clusters
  BY RunningCommand DEF CommandInv, BaseInv, TypeInv, Creating
<1>3. \A s \in ServicesOf(cmd.spec) : s \in Services /\ s # None
  BY <1>2 DEF ServicesOf, SpecType
<1>4. ASSUME NEW s \in ServicesOf(cmd.spec)
      PROVE  /\ loc.bes[s] \in NodePorts /\ loc.ports[loc.bes[s]] = s
             /\ \A k \in cmd.clusters : nodePort[k][s] = loc.bes[s]
  <2>1. loc.bes[s] \in NodePorts /\ loc.ports[loc.bes[s]] = s
    BY <1>1, <1>3 DEF URLMapBuilt, BackendsBuilt
  <2>2. PICK c \in cmd.clusters : nodePort[c][s] = loc.bes[s]
    BY <1>1, <1>3, <2>1 DEF PortsAsked
  <2> QED BY <2>1, <2>2 DEF PortsAgree, Done, Creating
<1>5. Creatable(cmd)
  <2>1. /\ cmd.clusters # {} /\ cmd.spec.default # None /\ cmd.spec.ip # None
        /\ None \notin getTargetTags(cmd.clusters)
        /\ cmd.validate => serverVersionsNewEnough(cmd.clusters)
    BY <1>1 DEF PortsAsked, URLMapBuilt, FitSoFar
  <2>2. ASSUME NEW s \in ServicesOf(cmd.spec)
        PROVE  nodePortSameInAllClusters(s, cmd.clusters) /\ PathsAgree(s, cmd.clusters)
    BY <1>1, <1>3, <1>4, NoneAssumption DEF nodePortSameInAllClusters, ProbesAgree
  <2> QED BY <2>1, <2>2 DEF Creatable
<1>6. \A c \in cmd.clusters : loc.igs[c] # {} /\ loc.igs[c] = ing[c].igs
  BY <1>1, <1>2 DEF FitSoFar, CommandInv, IGsInv, IGsKnown, AskedAll, Creating
<1>7. IngressFits(cmd)
  BY <1>1, <1>6 DEF FitSoFar, IngressFits, PastIngress, PastHealthChecks, PastBackends,
     PastURLMap, PastHTTP, PastCert
<1>8. AllIGs = GroupsOf(cmd)
  <2>1. \A c \in Clusters : c \notin cmd.clusters => loc.igs[c] = {}
    BY DEF CommandInv, IGsInv, IGsKnown, Creating
  <2> QED BY <1>2, <1>6, <2>1 DEF AllIGs, GroupsOf
<1>9. BackendsFit(cmd)
  BY <1>1, <1>3, <1>4, <1>8 DEF BackendsFit, HealthChecksBuilt, BackendsBuilt
<1>10. URLMapFits(cmd)
  <2>1. um = desiredURLMap(cmd.spec, cmd.clusters, loc.bes, 1)
    BY <1>1 DEF URLMapWanted
  <2>2. \A k \in cmd.clusters : desiredURLMap(cmd.spec, cmd.clusters, loc.bes, 1)
                                  = desiredURLMap(cmd.spec, cmd.clusters, nodePort[k], 1)
    BY <1>2, <1>4, <1>5, SameURLMap DEF Creatable
  <2> QED BY <2>1, <2>2 DEF URLMapFits
<1>11. FrontendFits(cmd)
  BY <1>1 DEF FrontendFits, FrontendBuilt, URLMapBuilt, ServesOver, CertBuilt, HTTPSProxyBuilt,
     PastHTTP, PastCert
<1>12. FirewallFits(cmd)
  <2>1. fw # None /\ fw = desiredFirewallRule(loc.ports, cmd.clusters)
    BY <1>1 DEF FrontendBuilt
  <2>2. ASSUME NEW k \in cmd.clusters
        PROVE  {p \in NodePorts : loc.ports[p] # None}
                 = {nodePort[k][s] : s \in ServicesOf(cmd.spec)}
    <3>1. ASSUME NEW p \in NodePorts, loc.ports[p] # None
          PROVE  loc.ports[p] \in ServicesOf(cmd.spec) /\ nodePort[k][loc.ports[p]] = p
      BY <1>1, <3>1 DEF PortsAsked, PortsAgree, Done, Creating
    <3>2. ASSUME NEW s \in ServicesOf(cmd.spec)
          PROVE  nodePort[k][s] \in NodePorts /\ loc.ports[nodePort[k][s]] # None
      BY <1>3, <1>4
    <3> QED BY <3>1, <3>2
  <2> QED BY <2>1, <2>2 DEF FirewallFits, desiredFirewallRule
<1> QED BY <1>5, <1>7, <1>9, <1>10, <1>11, <1>12 DEF Fits

\* What fits goes on to fit while nothing it is made of changes.
LEMMA StableFits ==
  ASSUME stable' = stable, UNCHANGED <<cloud, nodePort>>,
         \A k \in stable.clusters : ing'[k] = ing[k]
  PROVE  /\ Creatable(stable) => Creatable(stable)'
         /\ Fits(stable) => Fits(stable)'
<1> USE DEF cloud
<1>1. Creatable(stable) => Creatable(stable)'
  BY DEF Creatable, nodePortSameInAllClusters, getTargetTags, serverVersionsNewEnough,
     PathsAgree, ProbePaths
<1>2. IngressFits(stable) => IngressFits(stable)'
  BY DEF IngressFits
<1>3. GroupsOf(stable)' = GroupsOf(stable)
  BY DEF GroupsOf
<1>4. BackendsFit(stable) => BackendsFit(stable)'
  BY <1>3 DEF BackendsFit
<1>5. URLMapFits(stable) => URLMapFits(stable)'
  BY DEF URLMapFits
<1>6. FrontendFits(stable) => FrontendFits(stable)'
  BY DEF FrontendFits
<1>7. FirewallFits(stable) => FirewallFits(stable)'
  BY DEF FirewallFits
<1> QED BY <1>1, <1>2, <1>4, <1>5, <1>6, <1>7 DEF Fits

\* No step of a command forgets a fault.
LEMMA FaultKept ==
  ASSUME createValidate \/ createIngress \/ LoadBalancerStep \/ deleteIngress
  PROVE  fault => fault'
<1> USE DEF Record
<1>1. CASE createValidate \/ createIngress \/ deleteIngress
  BY <1>1 DEF createValidate, createIngress, deleteIngress
<1>2. CASE CreateLoadBalancer
  BY <1>2 DEF CreateLoadBalancer, createNodePorts, readNodePorts, noIPAddress,
     createHealthChecks, getIGs, getIGsForCluster, getNamedPorts, createBackendServices,
     createURLMap, createHTTPProxy, createRule, createSSLCert, createHTTPSProxy, createFirewall
<1>3. CASE DeleteLoadBalancer
  BY <1>3 DEF DeleteLoadBalancer, deleteFirewall, deleteRules, deleteProxies, deleteCert,
     deleteURLMap, deletePorts, readNodePorts, deleteBackends, deleteHealthChecks
<1>4. CASE RemoveLoadBalancerFromClusters
  BY <1>4 DEF RemoveLoadBalancerFromClusters, removeStatusCheck, removeNodePorts,
     readNodePorts, getIGs, getIGsForCluster, afterRemoveIGs, removeFromFirewall,
     removeFromBackends, removeFromStatus
<1> QED BY <1>1, <1>2, <1>3, <1>4 DEF LoadBalancerStep

\* RepeatInv is inductive, with FitInv for the create that is repeated.
LEMMA NextRepeat ==
  CommandInv /\ CreateInv /\ FitInv /\ RepeatInv /\ PortsAgree /\ [Next]_vars => RepeatInv'
<1> SUFFICES ASSUME CommandInv, CreateInv, FitInv, RepeatInv, PortsAgree, [Next]_vars,
                    stable' # None, stable'.spec.orders = 1,
                    pc' = "idle" \/ (cmd' = stable' /\ ~fault')
             PROVE  /\ stable'.op = "create" /\ Creatable(stable)' /\ Fits(stable)'
                    /\ pc' # "idle" => ~err' /\ PortsKnown'
  BY DEF RepeatInv
<1>1. ASSUME NEW c \in Commands, Run(c)
      PROVE  /\ stable'.op = "create" /\ Creatable(stable)' /\ Fits(stable)'
             /\ pc' # "idle" => ~err' /\ PortsKnown'
  <2>1. /\ pc = "idle" /\ cmd' = c /\ pc' = FirstStep(c) /\ err' = err /\ stable' = stable
        /\ UNCHANGED <<cloud, ing, nodePort>>
    BY <1>1 DEF Run
  <2>2. stable.op = "create" /\ Creatable(stable) /\ Fits(stable) /\ ~err
    BY <2>1 DEF RepeatInv, CommandInv, BaseInv, OwnSteps
  <2>3. c.op \in {"create", "delete", "remove"}
    BY ConfigAssumption DEF CommandType
  <2>4. pc' # "idle"
    BY <2>1, <2>3 DEF FirstStep
  <2>5. pc' = "validate"
    BY <2>1, <2>2, <2>4 DEF FirstStep
  <2>6. PortsKnown'
    BY <2>5 DEF PortsKnown, PastHealthChecks, PastBackends, PastURLMap, PastHTTP, PastCert
  <2> QED BY <2>1, <2>2, <2>6, StableFits
<1>2. CASE createValidate \/ createIngress \/ LoadBalancerStep \/ deleteIngress
  <2>1. OwnSteps' /\ cmd' = cmd /\ pc # "idle"
    BY <1>2, CreateSteppedOn, DeleteSteppedOn, RemoveSteppedOn, OtherSteppedOn
       DEF LoadBalancerStep, CommandInv
  <2>2. pc' # "idle" /\ stable' = stable
    <3>1. BaseInv'
      BY NextBase DEF CommandInv
    <3>2. stable' = stable
      BY <1>2 DEF createValidate, createIngress, LoadBalancerStep, deleteIngress
    <3> QED BY <2>1, <3>1, <3>2, RunningCommand DEF CommandInv, BaseInv, TypeInv, TypeOK
  <2>3. ~fault'
    BY <2>2
  <2>4. fault => fault'
    BY <1>2, FaultKept
  <2>5. /\ stable.op = "create" /\ Creatable(stable) /\ Fits(stable) /\ ~err /\ PortsKnown
        /\ cmd = stable
    BY <2>1, <2>2, <2>3, <2>4 DEF RepeatInv
  <2>6. Repeating
    BY <2>1, <2>2, <2>3, <2>4, <2>5 DEF Repeating, Creating, CommandInv
  <2>7. CreateStep
    <3>1. ~DeleteLoadBalancer /\ ~RemoveLoadBalancerFromClusters /\ ~deleteIngress
      BY <2>5, DeleteSteppedOn, RemoveSteppedOn, OtherSteppedOn DEF CommandInv
    <3> QED BY <1>2, <3>1 DEF CreateStep, LoadBalancerStep
  <2>8. Repeated
    BY <2>3, <2>6, <2>7, CreateStepRepeats
  <2> QED BY <2>2, <2>5, <2>8, StableFits DEF Repeated
<1>3. CASE Return
  <2>1. /\ pc = "done" /\ cmd.op = "create" /\ ~err /\ stable' = cmd /\ pc' = "idle"
        /\ UNCHANGED <<cloud, ing, nodePort>>
    BY <1>3 DEF Return
  <2>2. Creatable(cmd) /\ Fits(cmd)
    BY <2>1, DoneFits DEF Creating
  <2>3. Creatable(stable)'
    BY <2>1, <2>2 DEF Creatable, nodePortSameInAllClusters, getTargetTags,
       serverVersionsNewEnough, PathsAgree, ProbePaths
  <2>4. GroupsOf(stable)' = GroupsOf(cmd)
    BY <2>1 DEF GroupsOf
  <2>5. IngressFits(stable)' /\ BackendsFit(stable)'
    BY <2>1, <2>2, <2>4 DEF Fits, IngressFits, BackendsFit, cloud
  <2>6. URLMapFits(stable)' /\ FirewallFits(stable)'
    BY <2>1, <2>2 DEF Fits, URLMapFits, FirewallFits, cloud
  <2>7. FrontendFits(stable)'
    BY <2>1, <2>2 DEF Fits, FrontendFits, cloud
  <2> QED BY <2>1, <2>3, <2>5, <2>6, <2>7 DEF Fits
<1>4. CASE ChangeServices \/ Crash
  BY <1>4 DEF ChangeServices, Crash
<1>5. CASE UNCHANGED vars \/ \E c \in Clusters : Annotate(c)
  <2>1. /\ UNCHANGED <<cloud, nodePort, pc, cmd, err, fault, loc>> /\ stable' = stable
    BY <1>5 DEF vars, Annotate, cloud
  <2>2. /\ stable.op = "create" /\ Creatable(stable) /\ Fits(stable)
        /\ pc # "idle" => ~err /\ PortsKnown
    BY <2>1 DEF RepeatInv
  <2>3. stable.clusters \subseteq Clusters
    BY <2>1, ConfigAssumption DEF CommandInv, BaseInv, TypeInv, TypeOK, CommandType
  <2>4. Bystander
    BY <1>5, BystanderStep DEF CommandInv, BaseInv
  <2>5. \A k \in stable.clusters : ing'[k] = ing[k]
    BY <2>2, <2>3, <2>4 DEF Bystander, Annotated, Fits, IngressFits
  <2>6. PortsKnown => PortsKnown'
    BY <2>1 DEF PortsKnown, PortsFound, PortsNamed
  <2> QED BY <2>1, <2>2, <2>5, <2>6, StableFits
<1> QED BY <1>1, <1>2, <1>3, <1>4, <1>5 DEF Next, CommandStep

(***************************************************************************)
(* RecreatesSucceed: running the create that just succeeded once more      *)
(* succeeds unless one of its calls fails: the second run finds, at every  *)
(* step, what it looks for.  The hypotheses are about the services.  They  *)
(* must not change while a command runs, and when a create ends its        *)
(* clusters must have them on the same node ports, which validation does   *)
(* not make sure of: create reads the ports of any one cluster, and the    *)
(* second run may read another.                                            *)
(***************************************************************************)
THEOREM RecreatesSucceed ==
  Spec /\ [][pc # "idle" => nodePort' = nodePort]_vars
       /\ [](Done("create") =>
              \A s \in ServicesOf(cmd.spec) : \A c, d \in cmd.clusters :
                nodePort[c][s] = nodePort[d][s])
    => []RecreateSucceeds
<1>1. Init => FitInv /\ RepeatInv
  BY DEF Init, Idle, FitInv, Creating, RepeatInv
<1>2. CommandInv /\ RepeatInv => RecreateSucceeds
  <2> SUFFICES ASSUME CommandInv, RepeatInv, Done("create"), cmd = stable,
                      cmd.spec.orders = 1, ~fault
               PROVE  ~err
    BY DEF RecreateSucceeds
  <2>1. pc # "idle" /\ cmd # None
    BY RunningCommand DEF Done, CommandInv, BaseInv, TypeInv
  <2> QED BY <2>1 DEF RepeatInv
<1>3. /\ ServicesKept <=> (pc # "idle" => nodePort' = nodePort)
      /\ PortsAgree <=> (Done("create") =>
                         \A s \in ServicesOf(cmd.spec) : \A c, d \in cmd.clusters :
                           nodePort[c][s] = nodePort[d][s])
  BY DEF ServicesKept, PortsAgree
<1> QED BY <1>1, <1>2, <1>3, NextFit, NextRepeat, CreateInvariant, PTL DEF Spec

-----------------------------------------------------------------------------
(***************************************************************************)
(* PART 5: kubemci implements MultiClusterIngress.                         *)
(***************************************************************************)

(***************************************************************************)
(* The annotations name instance groups of the cluster they are found in,  *)
(* and so do the links that a command got from them.                       *)
(***************************************************************************)
OwnGroups ==
  \A c \in Clusters : /\ ing[c] # None => ing[c].igs \subseteq IGsOf[c]
                      /\ loc.igs[c] \subseteq IGsOf[c]

\* What a command does to the annotations and to its links.
GroupsKept ==
  \A c \in Clusters :
    /\ ing'[c] = ing[c] \/ ing'[c] = None \/ ing'[c].igs = {}
    /\ loc'.igs[c] = loc.igs[c] \/ (ing[c] # None /\ loc'.igs[c] = ing[c].igs)

\* Most steps leave the links alone.
LEMMA LinksKept ==
  ASSUME loc \in Locals,
         \/ loc' = loc
         \/ \E v : \/ loc' = [loc EXCEPT !.ports = v] \/ loc' = [loc EXCEPT !.nps = v]
                   \/ loc' = [loc EXCEPT !.hcs = v] \/ loc' = [loc EXCEPT !.bes = v]
                   \/ loc' = [loc EXCEPT !.um = v] \/ loc' = [loc EXCEPT !.tp = v]
                   \/ loc' = [loc EXCEPT !.cert = v]
  PROVE  loc'.igs = loc.igs
BY DEF Locals

\* getIGs takes over the annotation of one cluster.
LEMMA getIGsGroups ==
  ASSUME BaseInv, NEW here, getIGs(here)
  PROVE  GroupsKept
<1>1. ing' = ing /\ loc \in Locals
  BY DEF getIGs, BaseInv, TypeInv, TypeOK
<1>2. PICK c \in loc.todo : getIGsForCluster(c)
  BY DEF getIGs
<1>3. c \in Clusters
  BY <1>1 DEF Locals
<1>4. CASE ing[c] # None /\ loc' = [loc EXCEPT !.igs[c] = ing[c].igs, !.todo = @ \ {c}]
  <2>1. loc'.igs = [loc.igs EXCEPT ![c] = ing[c].igs]
    BY <1>1, <1>4 DEF Locals
  <2>2. loc.igs \in [Clusters -> SUBSET InstanceGroups]
    BY <1>1 DEF Locals
  <2> QED BY <1>1, <1>3, <1>4, <2>1, <2>2 DEF GroupsKept
<1>5. CASE loc' = [loc EXCEPT !.todo = @ \ {c}]
  BY <1>1, <1>5 DEF GroupsKept, Locals
<1> QED BY <1>2, <1>4, <1>5 DEF getIGsForCluster

\* Reading node ports leaves the links to instance groups alone.
LEMMA readNodePortsLinks ==
  ASSUME BaseInv, NEW here, NEW next, readNodePorts(here, next)
  PROVE  ing' = ing /\ loc'.igs = loc.igs
<1>1. loc \in Locals /\ ing' = ing
  BY DEF BaseInv, TypeInv, TypeOK, readNodePorts
<1>2. loc' = loc \/ \E v : loc' = [loc EXCEPT !.ports = v]
  BY DEF readNodePorts
<1> QED BY <1>1, <1>2, LinksKept

\* The steps of create.
LEMMA CreateStepGroups ==
  ASSUME BaseInv, IGsInv, Creating, CreateStep
  PROVE  GroupsKept
<1>1. loc \in Locals
  BY DEF BaseInv, TypeInv, TypeOK
<1>2. CASE ing' = ing /\ loc'.igs = loc.igs
  BY <1>2 DEF GroupsKept
<1>3. CASE createIngress
  <2>1. PICK o : IngressesEnsured(cmd.spec, cmd.clusters, cmd.force, o) /\ ing' = Results(o)
    BY <1>3, createIngressEffect
  <2>2. loc' = loc
    BY <1>3, createIngressEffect
  <2>3. \A c \in Clusters : ing'[c] \in {ing[c], desiredIngress(cmd.spec)}
    BY <2>1 DEF IngressesEnsured
  <2> QED BY <2>2, <2>3 DEF GroupsKept, desiredIngress
<1>4. CASE createNodePorts \/ noIPAddress \/ createValidate
  BY <1>2, <1>4, readNodePortsLinks DEF createNodePorts, noIPAddress, createValidate
<1>5. CASE getIGs("getIGs")
  BY <1>5, getIGsGroups
<1>6. CASE createHealthChecks \/ createBackendServices
  <2>1. loc' = loc \/ \E v : loc' = [loc EXCEPT !.hcs = v] \/ loc' = [loc EXCEPT !.bes = v]
    BY <1>6 DEF createHealthChecks, createBackendServices
  <2>2. ing' = ing
    BY <1>6 DEF createHealthChecks, createBackendServices
  <2> QED BY <1>1, <1>2, <2>1, <2>2, LinksKept
<1>7. CASE getNamedPorts \/ createURLMap \/ createHTTPProxy
  <2>1. loc' = loc \/ \E v : \/ loc' = [loc EXCEPT !.nps = v] \/ loc' = [loc EXCEPT !.um = v]
                             \/ loc' = [loc EXCEPT !.tp = v]
    BY <1>7 DEF getNamedPorts, createURLMap, createHTTPProxy
  <2>2. ing' = ing
    BY <1>7 DEF getNamedPorts, createURLMap, createHTTPProxy
  <2> QED BY <1>1, <1>2, <2>1, <2>2, LinksKept
<1>8. CASE createSSLCert \/ createHTTPSProxy \/ createFirewall
  <2>1. loc' = loc \/ \E v : loc' = [loc EXCEPT !.cert = v] \/ loc' = [loc EXCEPT !.tp = v]
    BY <1>8 DEF createSSLCert, createHTTPSProxy, createFirewall
  <2>2. ing' = ing
    BY <1>8 DEF createSSLCert, createHTTPSProxy, createFirewall
  <2> QED BY <1>1, <1>2, <2>1, <2>2, LinksKept
<1>9. ASSUME NEW here, NEW q, NEW next, createRule(here, q, next) PROVE GroupsKept
  BY <1>2, <1>9 DEF createRule
<1> QED BY <1>3, <1>4, <1>5, <1>6, <1>7, <1>8, <1>9 DEF CreateStep, CreateLoadBalancer

\* The steps of delete and remove-clusters.
LEMMA OtherStepGroups ==
  ASSUME BaseInv, pc # "idle",
         DeleteLoadBalancer \/ RemoveLoadBalancerFromClusters \/ deleteIngress
  PROVE  GroupsKept
<1>1. CASE ing' = ing /\ loc'.igs = loc.igs
  BY <1>1 DEF GroupsKept
<1>2. CASE deleteIngress
  <2>1. PICK o \in DeleteIngress(cmd.clusters) : ing' = Results(o)
    BY <1>2 DEF deleteIngress
  <2>2. \A c \in Clusters : ing'[c] \in {ing[c], None}
    BY <2>1, DeleteIngressOutcome DEF BaseInv, TypeInv, TypeOK
  <2>3. loc' = loc
    BY <1>2 DEF deleteIngress
  <2> QED BY <2>2, <2>3 DEF GroupsKept
<1>3. CASE DeleteLoadBalancer
  BY <1>1, <1>3, readNodePortsLinks DEF DeleteLoadBalancer, deleteFirewall, deleteRules,
     deleteProxies, deleteCert, deleteURLMap, deletePorts, deleteBackends,
     deleteHealthChecks
<1>4. CASE RemoveLoadBalancerFromClusters
  BY <1>1, <1>4, readNodePortsLinks, getIGsGroups DEF RemoveLoadBalancerFromClusters,
     removeStatusCheck, removeNodePorts, afterRemoveIGs, removeFromFirewall,
     removeFromBackends, removeFromStatus
<1> QED BY <1>2, <1>3, <1>4

\* The annotations of a load balancer of an earlier version are its own too.
LEMMA InitOwnGroups ==
  Init => OwnGroups
<1> SUFFICES ASSUME Init PROVE OwnGroups
  OBVIOUS
<1>1. \A c \in Clusters : loc.igs[c] = {}
  BY DEF Init, Idle, NoLocals
<1>2. PICK lb \in LegacyLBs \cup {NoLoadBalancer} : ing = lb.ing
  BY DEF Init
<1>3. \A c \in Clusters : ing[c] # None => ing[c].igs \subseteq IGsOf[c]
  BY <1>2, LegacyAssumption DEF NoLoadBalancer
<1> QED BY <1>1, <1>3 DEF OwnGroups

\* OwnGroups is inductive.
LEMMA NextOwnGroups ==
  CommandInv /\ OwnGroups /\ [Next]_vars => OwnGroups'
<1> SUFFICES ASSUME CommandInv, OwnGroups, [Next]_vars PROVE OwnGroups'
  OBVIOUS
<1>1. CASE GroupsKept
  BY <1>1, ConfigAssumption DEF GroupsKept, OwnGroups
<1>2. ASSUME NEW c \in Commands, Run(c) PROVE OwnGroups'
  <2>1. \A d \in Clusters : loc'.igs[d] = {}
    BY <1>2 DEF Run, NoLocals
  <2>2. ing' = ing
    BY <1>2 DEF Run
  <2> QED BY <2>1, <2>2 DEF OwnGroups
<1>3. CASE Return \/ Crash
  <2>1. \A d \in Clusters : loc'.igs[d] = {}
    BY <1>3 DEF Return, Crash, NoLocals
  <2>2. ing' = ing
    BY <1>3 DEF Return, Crash
  <2> QED BY <2>1, <2>2 DEF OwnGroups
<1>4. CASE Bystander
  BY <1>4 DEF Bystander, Annotated, OwnGroups
<1>5. CASE \/ createValidate \/ createIngress \/ LoadBalancerStep \/ deleteIngress
  <2>1. CASE CreateStep
    BY <1>1, <2>1, CreateSteppedOn, OtherSteppedOn, CreateStepGroups
       DEF CreateStep, Creating, CommandInv
  <2>2. CASE DeleteLoadBalancer \/ RemoveLoadBalancerFromClusters \/ deleteIngress
    BY <1>1, <2>2, DeleteSteppedOn, RemoveSteppedOn, OtherSteppedOn, OtherStepGroups
       DEF CommandInv
  <2> QED BY <1>5, <2>1, <2>2 DEF LoadBalancerStep, CreateStep
<1> QED BY <1>2, <1>3, <1>4, <1>5, BystanderStep
        DEF Next, CommandStep, CommandInv, BaseInv

-----------------------------------------------------------------------------
(***************************************************************************)
(* A create goes on past getNamedPorts only with the instance groups of    *)
(* some cluster, and loses them no more.  So it never makes a firewall     *)
(* rule without tags, which would be open to every instance.               *)
(***************************************************************************)
PastGroups == {"backendService", "urlMap", "httpProxy", "httpRule", "sslCert",
               "httpsProxy", "httpsRule", "firewall"}

SomeKnown ==
  Creating /\ (pc \in PastGroups \/ (pc = "done" /\ ~err)) => KnownClusters # {}

\* The steps that still look for the instance groups.
LEMMA SearchKnows ==
  ASSUME BaseInv, Creating,
         \/ createValidate \/ createIngress \/ createNodePorts \/ noIPAddress
         \/ createHealthChecks \/ getIGs("getIGs") \/ getNamedPorts
  PROVE  SomeKnown'
<1> USE DEF PastGroups, SomeKnown
<1>1. CASE createValidate \/ createIngress
  BY <1>1, createValidateEffect, createIngressEffect DEF Ended
<1>2. CASE createNodePorts \/ noIPAddress
  BY <1>2, createNodePortsEffect, noIPAddressEffect DEF Ended
<1>3. CASE createHealthChecks
  BY <1>3, createHealthChecksEffect
<1>4. CASE getIGs("getIGs")
  BY <1>4 DEF getIGs
<1>5. CASE getNamedPorts
  <2>1. CASE pc' = "done" /\ \E f \in BOOLEAN : Ended(TRUE, f)
    BY <2>1 DEF Ended
  <2>2. CASE \E c \in KnownClusters : \E nps \in SUBSET NodePorts :
               loc' = [loc EXCEPT !.nps = nps]
    <3>1. loc'.igs = loc.igs
      BY <2>2, LinksKept DEF BaseInv, TypeInv, TypeOK
    <3>2. KnownClusters' = KnownClusters
      BY <3>1 DEF KnownClusters
    <3> QED BY <2>2, <3>2
  <2> QED BY <1>5, <2>1, <2>2, getNamedPortsEffect
<1> QED BY <1>1, <1>2, <1>3, <1>4, <1>5

\* The steps that use them.
LEMMA BuildKnows ==
  ASSUME BaseInv, SomeKnown, Creating,
         \/ createBackendServices \/ createURLMap \/ createHTTPProxy \/ createSSLCert
         \/ createHTTPSProxy \/ createFirewall
         \/ createRule("httpRule", "http", AfterHTTP)
         \/ createRule("httpsRule", "https", "firewall")
  PROVE  SomeKnown'
<1>1. loc \in Locals
  BY DEF BaseInv, TypeInv, TypeOK
<1>2. pc \in PastGroups
  BY DEF PastGroups, createBackendServices, createURLMap, createHTTPProxy, createSSLCert,
     createHTTPSProxy, createFirewall, createRule
<1>3. \/ loc' = loc
      \/ \E v : \/ loc' = [loc EXCEPT !.bes = v] \/ loc' = [loc EXCEPT !.um = v]
                \/ loc' = [loc EXCEPT !.tp = v] \/ loc' = [loc EXCEPT !.cert = v]
  BY DEF createBackendServices, createURLMap, createHTTPProxy, createSSLCert,
     createHTTPSProxy, createFirewall, createRule
<1>4. loc'.igs = loc.igs
  BY <1>1, <1>3, LinksKept
<1> QED BY <1>2, <1>4 DEF SomeKnown, KnownClusters

\* SomeKnown is inductive.
LEMMA NextKnown ==
  BaseInv /\ SomeKnown /\ [Next]_vars => SomeKnown'
<1> SUFFICES ASSUME BaseInv, SomeKnown, [Next]_vars PROVE SomeKnown'
  OBVIOUS
<1>1. ASSUME NEW c \in Commands, Run(c) PROVE SomeKnown'
  <2>1. c.op \in {"create", "delete", "remove"}
    BY ConfigAssumption DEF CommandType
  <2> QED BY <1>1, <2>1 DEF Run, FirstStep, SomeKnown, PastGroups
<1>2. CASE pc # "idle" /\ Ends
  BY <1>2 DEF Ends, SomeKnown, Creating
<1>3. CASE Bystander
  BY <1>3 DEF Bystander, SomeKnown, Creating, KnownClusters
<1>4. CASE pc # "idle" /\ cmd' = cmd /\ OwnStepOf(cmd.op)
  <2>1. CASE cmd.op = "create"
    BY <1>4, <2>1, SearchKnows, BuildKnows DEF OwnStepOf, CreateStep, CreateLoadBalancer,
       Creating
  <2>2. CASE cmd.op # "create"
    BY <1>4, <2>2 DEF SomeKnown, Creating
  <2> QED BY <2>1, <2>2
<1> QED BY <1>1, <1>2, <1>3, <1>4, StepKinds

-----------------------------------------------------------------------------
(***************************************************************************)
(* Traffic, pair by pair.                                                  *)
(***************************************************************************)
LEMMA TrafficPairs ==
  /\ Traffic \subseteq Protocols \X Clusters
  /\ \A q \in Protocols, c \in Clusters :
       <<q, c>> \in Traffic <=> Exposed(q) /\ Backed(c)
BY DEF Traffic

\* More is exposed and backed: there is more traffic.
LEMMA TrafficGrows ==
  ASSUME \A q \in Protocols : Exposed(q) => Exposed(q)',
         \A c \in Clusters : Backed(c) => Backed(c)'
  PROVE  Traffic \subseteq Traffic'
BY DEF Traffic

\* Less is exposed and backed: there is less.
LEMMA TrafficShrinks ==
  ASSUME \A q \in Protocols : Exposed(q)' => Exposed(q),
         \A c \in Clusters : Backed(c)' => Backed(c)
  PROVE  Traffic' \subseteq Traffic
BY DEF Traffic

\* Traffic is only lost where clusters are no longer backed.
LEMMA TrafficLost ==
  ASSUME NEW S, \A q \in Protocols : Exposed(q) => Exposed(q)',
         \A c \in Clusters : Backed(c) => Backed(c)' \/ c \in S
  PROVE  Traffic \ Traffic' \subseteq Protocols \X S
BY DEF Traffic

\* Without the resources of the chain nothing changes.
LEMMA TrafficKept ==
  ASSUME UNCHANGED <<be, um, tp, fr, fw>>
  PROVE  Traffic' = Traffic /\ Open' = Open
<1>1. Open' = Open
  BY DEF Open
<1>2. \A c \in Clusters : Backed(c)' <=> Backed(c)
  BY DEF Backed, Open
<1>3. \A q \in Protocols : Exposed(q)' <=> Exposed(q)
  BY DEF Exposed
<1> QED BY <1>1, <1>2, <1>3 DEF Traffic

\* A create without --force only adds.
LEMMA CreateAddsTraffic ==
  ASSUME TypeOK, KeptAll
  PROVE  Traffic \subseteq Traffic'
<1>1. \A q \in Protocols : Exposed(q) => Exposed(q)'
  BY DEF KeptAll, Kept, Exposed
<1>2. \A c \in Clusters : Backed(c) => Backed(c)'
  <2>1. um # None => um.default \in NodePorts
    BY DEF TypeOK, URLMapTypeOK, URLMaps
  <2> QED BY <2>1 DEF KeptAll, Kept, Backed, Open
<1> QED BY <1>1, <1>2, TrafficGrows

\* A create does not open the firewall for every cluster.
LEMMA CreateKeepsClosed ==
  ASSUME BaseInv, SomeKnown, Creating, CreateStep
  PROVE  Open' => Open
<1>1. CASE createFirewall
  <2>1. KnownClusters # {}
    BY <1>1, createFirewallEffect DEF SomeKnown, PastGroups
  <2>2. desiredFirewallRule(loc.ports, KnownClusters).tags # {}
    BY <2>1 DEF desiredFirewallRule, getTargetTags
  <2> QED BY <1>1, <2>2, createFirewallEffect DEF Open
<1>2. CASE fw' = fw
  BY <1>2 DEF Open
<1> QED BY <1>1, <1>2 DEF CreateStep, CreateLoadBalancer, createValidate, createIngress,
        createNodePorts, readNodePorts, noIPAddress, createHealthChecks, getIGs,
        getNamedPorts, createBackendServices, createURLMap, createHTTPProxy, createRule,
        createSSLCert, createHTTPSProxy, cloud

\* A delete only takes away.
LEMMA DeleteStopsTraffic ==
  ASSUME TypeOK, pc # "idle", DeleteLoadBalancer \/ deleteIngress
  PROVE  Traffic' \subseteq Traffic /\ (Open' => Open)
<1> USE DEF Open
<1>1. CASE UNCHANGED <<be, um, tp, fr, fw>>
  BY <1>1, TrafficKept
<1>2. CASE deleteFirewall
  <2>1. UNCHANGED <<be, um, tp, fr>> /\ (fw' = fw \/ \E o \in DeleteFirewallRules : fw' = o.res)
    BY <1>2 DEF deleteFirewall
  <2>2. fw' \in {fw, None}
    BY <2>1, DeleteFirewallRulesOutcome DEF TypeOK
  <2> QED BY <2>1, <2>2, TrafficShrinks DEF Exposed, Backed
<1>3. CASE deleteRules
  <2>1. UNCHANGED <<be, um, tp, fw>> /\ \E o \in DeleteForwardingRules : fr' = Results(o)
    BY <1>3 DEF deleteRules
  <2>2. \A q \in Protocols : fr'[q] \in {fr[q], None}
    BY <2>1, DeleteForwardingRulesOutcome DEF TypeOK
  <2> QED BY <2>1, <2>2, TrafficShrinks DEF Exposed, Backed
<1>4. CASE deleteProxies
  <2>1. /\ UNCHANGED <<be, um, fr, fw>>
        /\ \E o \in DeleteTargetProxies(TargetProxiesInUse) : tp' = Results(o)
    BY <1>4 DEF deleteProxies
  <2>2. \A q \in Protocols : tp'[q] \in {tp[q], None}
    BY <2>1, DeleteTargetProxiesOutcome DEF TypeOK
  <2> QED BY <2>1, <2>2, TrafficShrinks DEF Exposed, Backed
<1>5. CASE deleteURLMap
  <2>1. UNCHANGED <<be, tp, fr, fw>> /\ \E o \in DeleteURLMap(URLMapInUse) : um' = o.res
    BY <1>5 DEF deleteURLMap
  <2>2. um' \in {um, None}
    BY <2>1, DeleteURLMapOutcome DEF TypeOK
  <2> QED BY <2>1, <2>2, TrafficShrinks DEF Exposed, Backed
<1>6. CASE deleteBackends
  <2>1. /\ UNCHANGED <<um, tp, fr, fw>>
        /\ \E o \in DeleteBackendServices(loc.ports, BackendServicesInUse) : be' = Results(o)
    BY <1>6 DEF deleteBackends
  <2>2. \A p \in NodePorts : be'[p] \in {be[p], None}
    BY <2>1, DeleteBackendServicesOutcome DEF TypeOK
  <2>3. um # None => um.default \in NodePorts
    BY DEF TypeOK, URLMapTypeOK, URLMaps
  <2> QED BY <2>1, <2>2, <2>3, TrafficShrinks DEF Exposed, Backed
<1> QED BY <1>1, <1>2, <1>3, <1>4, <1>5, <1>6 DEF DeleteLoadBalancer, deleteCert, deletePorts,
        readNodePorts, deleteHealthChecks, deleteIngress, cloud

(***************************************************************************)
(* Clusters do not share instance groups, nor the network tags by which    *)
(* the firewall rule selects their instances.                              *)
(***************************************************************************)
ClustersApart ==
  \A c, d \in Clusters : c # d => /\ IGsOf[c] \cap IGsOf[d] = {}
                                  /\ TagOf[c] = TagOf[d] => TagOf[c] = None

(***************************************************************************)
(* A remove-clusters takes away what its clusters had, and nothing else;   *)
(* and it adds nothing, unless it takes the last tag out of the firewall   *)
(* rule, when all that was reached are its clusters.                       *)
(***************************************************************************)
LEMMA RemoveStopsTraffic ==
  ASSUME ClustersApart, TypeOK, IGsInv, OwnGroups, pc # "idle",
         RemoveLoadBalancerFromClusters \/ deleteIngress
  PROVE  /\ Traffic \ Traffic' \subseteq Protocols \X cmd.clusters
         /\ IF Open' /\ ~Open THEN Traffic \subseteq Protocols \X cmd.clusters
                              ELSE Traffic' \subseteq Traffic
<1>1. CASE UNCHANGED <<be, um, tp, fr, fw>>
  BY <1>1, TrafficKept
<1>2. \A c \in Clusters : loc.igs[c] # {} => c \in cmd.clusters
  BY DEF IGsInv, IGsKnown
<1>3. CASE removeFromFirewall
  <2>1. UNCHANGED <<be, um, tp, fr>>
    BY <1>3 DEF removeFromFirewall
  <2>2. PICK o \in FirewallRemoveFromClusters(KnownClusters) : fw' = o.res
    BY <1>3 DEF removeFromFirewall
  <2>3. /\ fw' = None <=> fw = None
        /\ fw # None => /\ fw'.ports = fw.ports
                        /\ fw'.tags \subseteq fw.tags
                        /\ fw.tags \ getTargetTags(KnownClusters) \subseteq fw'.tags
    BY <2>2, FirewallRemoveOutcome DEF TypeOK
  <2>4. Open => Open'
    BY <2>3 DEF Open
  <2>5. \A q \in Protocols : Exposed(q)' <=> Exposed(q)
    BY <2>1 DEF Exposed
  <2>6. ASSUME NEW c \in Clusters, Backed(c), ~Open, TagOf[c] \notin fw'.tags
        PROVE  c \in cmd.clusters
    <3>1. fw # None /\ TagOf[c] \in fw.tags
      BY <2>6 DEF Backed
    <3>2. PICK d \in KnownClusters : TagOf[d] = TagOf[c]
      BY <2>3, <2>6, <3>1 DEF getTargetTags
    <3>3. TagOf[c] # None
      BY <3>1, NoneAssumption DEF TypeOK, FirewallRuleTypeOK, FirewallRules
    <3>4. d = c
      BY <3>2, <3>3 DEF ClustersApart, KnownClusters
    <3> QED BY <1>2, <3>4 DEF KnownClusters
  <2>7. \A c \in Clusters : Backed(c) => Backed(c)' \/ c \in cmd.clusters
    BY <2>1, <2>3, <2>4, <2>6 DEF Backed
  <2>8. Traffic \ Traffic' \subseteq Protocols \X cmd.clusters
    BY <2>5, <2>7, TrafficLost
  <2>9. CASE Open' /\ ~Open
    <3>1. \A c \in Clusters : Backed(c) => c \in cmd.clusters
      BY <2>6, <2>9 DEF Open
    <3> QED BY <2>8, <2>9, <3>1 DEF Traffic
  <2>10. CASE Open \/ ~Open'
    <3>1. \A c \in Clusters : Backed(c)' => Backed(c)
      BY <2>1, <2>3, <2>10 DEF Backed
    <3> QED BY <2>5, <2>8, <2>10, <3>1, TrafficShrinks
  <2> QED BY <2>9, <2>10
<1>4. CASE removeFromBackends
  <2>1. UNCHANGED <<fw, um, tp, fr>>
    BY <1>4 DEF removeFromBackends
  <2>2. PICK o \in RemoveFromClusters(loc.ports, AllIGs) : be' = Results(o)
    BY <1>4 DEF removeFromBackends
  <2>3. \A p \in NodePorts :
          /\ be'[p] = None <=> be[p] = None
          /\ be[p] # None => /\ be'[p].igs \subseteq be[p].igs
                             /\ be[p].igs \ AllIGs \subseteq be'[p].igs
    BY <2>2, RemoveFromClustersOutcome DEF TypeOK
  <2>4. um # None => um.default \in NodePorts
    BY DEF TypeOK, URLMapTypeOK, URLMaps
  <2>5. (Open' <=> Open) /\ \A c \in Clusters : Backed(c)' => Backed(c)
    BY <2>1, <2>3, <2>4 DEF Backed, Open
  <2>6. \A q \in Protocols : Exposed(q)' <=> Exposed(q)
    BY <2>1 DEF Exposed
  <2>7. ASSUME NEW c \in Clusters, Backed(c), ~Backed(c)'
        PROVE  c \in cmd.clusters
    <3>1. um.default \in NodePorts /\ be[um.default] # None
          /\ be[um.default].igs \cap IGsOf[c] # {}
          /\ be'[um.default].igs \cap IGsOf[c] = {}
      BY <2>1, <2>3, <2>4, <2>7 DEF Backed, Open
    <3>2. PICK g \in be[um.default].igs \cap IGsOf[c] : g \in AllIGs
      BY <2>3, <3>1
    <3>3. PICK d \in Clusters : g \in loc.igs[d]
      BY <3>2 DEF AllIGs
    <3>4. g \in IGsOf[d]
      BY <3>3 DEF OwnGroups
    <3>5. d = c
      BY <3>2, <3>4 DEF ClustersApart
    <3> QED BY <1>2, <3>3, <3>5
  <2> QED BY <2>5, <2>6, <2>7, TrafficShrinks, TrafficLost
<1>5. CASE removeFromStatus
  <2>1. UNCHANGED <<be, fw, tp>>
    BY <1>5 DEF removeFromStatus
  <2>2. PICK o \in ForwardingRuleRemoveClustersFromStatus(cmd.clusters),
             u \in URLMapRemoveClustersFromStatus(cmd.clusters) :
          fr' = Results(o) /\ um' = u.res
    BY <1>5 DEF removeFromStatus
  <2>3. \A q \in Protocols : fr'[q] = fr[q]
    BY <2>2, ForwardingRuleRemoveOutcome DEF TypeOK
  <2>4. (um' = None <=> um = None) /\ (um # None => um'.default = um.default)
    BY <2>2, URLMapRemoveOutcome DEF TypeOK
  <2>5. (Open' <=> Open) /\ \A c \in Clusters : Backed(c)' <=> Backed(c)
    BY <2>1, <2>4 DEF Backed, Open
  <2>6. \A q \in Protocols : Exposed(q)' <=> Exposed(q)
    BY <2>1, <2>3 DEF Exposed
  <2> QED BY <2>5, <2>6, TrafficShrinks, TrafficLost
<1> QED BY <1>1, <1>3, <1>4, <1>5 DEF RemoveLoadBalancerFromClusters, removeStatusCheck,
        removeNodePorts, readNodePorts, getIGs, afterRemoveIGs, deleteIngress, cloud

-----------------------------------------------------------------------------
(***************************************************************************)
(* What a command that reports success has achieved.                       *)
(***************************************************************************)
LEMMA CreateAchieves ==
  ASSUME CommandInv, CreateInv, SomeKnown, OwnGroups, CreateComplete, Done("create"), ~err
  PROVE  ProtocolsOf(cmd.spec) \X cmd.clusters \subseteq Traffic /\ ~Open
<1>1. pc = "done" /\ pc # "idle" /\ cmd.op = "create"
  BY DEF Done
<1>2. /\ cmd.spec \in SpecType /\ cmd.clusters \subseteq Clusters
  BY <1>1, RunningCommand DEF CommandInv, BaseInv, TypeInv
<1>3. URLMapBuilt /\ BackendsBuilt
  BY <1>1 DEF CreateInv, Creating, BuiltSoFar, PastBackends, PastURLMap, PastHTTP, PastCert
<1>4. cmd.spec.ip \in IPs /\ cmd.spec.default \in Services /\ cmd.spec.default # None
  BY <1>2, <1>3 DEF URLMapBuilt, SpecType
<1>5. desiredForwardingRule(cmd.spec.ip) # None
  <2>1. desiredForwardingRule(cmd.spec.ip) \in ForwardingRules
    BY <1>4 DEF desiredForwardingRule, ForwardingRules
  <2> QED BY <2>1, NoneOfForwardingRules
<1>6. \A q \in ProtocolsOf(cmd.spec) : q \in Protocols /\ Exposed(q)
  BY <1>5 DEF CreateComplete, ProtocolsOf, ServesOver, Exposed
<1>7. ASSUME NEW c \in cmd.clusters PROVE Backed(c)
  <2> DEFINE p == um.default
  <2>1. um # None /\ p = loc.bes[cmd.spec.default]
    BY <1>3 DEF URLMapBuilt
  <2>2. p \in NodePorts /\ loc.ports[p] = cmd.spec.default
    BY <1>3, <1>4, <2>1 DEF URLMapBuilt, BackendsBuilt, ServicesOf
  <2>3. be[p] = desiredBackendService(cmd.spec.default, AllIGs)
    BY <1>3, <1>4, <2>2 DEF BackendsBuilt
  <2>4. be[p] # None /\ be[p].igs = AllIGs
    <3>1. be[p] \in BackendServices
      BY <1>4, <2>3, AllIGsType DEF CommandInv, BaseInv, TypeInv, desiredBackendService,
         BackendServices
    <3> QED BY <2>3, <3>1, NoneOfBackendServices DEF desiredBackendService
  <2>5. loc.igs[c] # {} /\ loc.igs[c] \subseteq IGsOf[c] /\ c \in Clusters
    BY <1>2 DEF CreateComplete, KnownClusters, OwnGroups
  <2>6. be[p].igs \cap IGsOf[c] # {}
    BY <2>4, <2>5 DEF AllIGs
  <2>7. fw = desiredFirewallRule(loc.ports, cmd.clusters)
    BY DEF CreateComplete
  <2>8. fw.ports = {x \in NodePorts : loc.ports[x] # None} /\ TagOf[c] \in fw.tags
    BY <2>7 DEF desiredFirewallRule, getTargetTags
  <2>9. p \in fw.ports
    BY <1>4, <2>2, <2>8
  <2>10. fw # None
    BY <1>1 DEF CreateInv, Creating, BuiltSoFar, FrontendBuilt
  <2> QED BY <2>1, <2>4, <2>6, <2>8, <2>9, <2>10 DEF Backed
<1>8. ~Open
  <2>1. cmd.clusters # {}
    BY <1>1 DEF SomeKnown, Creating, CreateComplete
  <2>2. fw = desiredFirewallRule(loc.ports, cmd.clusters)
    BY DEF CreateComplete
  <2> QED BY <2>1, <2>2 DEF Open, desiredFirewallRule, getTargetTags
<1> QED BY <1>2, <1>6, <1>7, <1>8 DEF Traffic

\* What Return sees of a command without an error.
LEMMA SuccessAchieves ==
  ASSUME CommandInv, CreateInv, SomeKnown, OwnGroups, CreateComplete, DeleteComplete,
         RemoveComplete, pc = "done", ~err
  PROVE  Service!Achieved(JobOf(cmd))
<1>1. cmd.op \in {"create", "delete", "remove"} /\ cmd.clusters \subseteq Clusters
  BY RunningCommand DEF CommandInv, BaseInv, TypeInv
<1>2. CASE cmd.op = "create"
  BY <1>2, CreateAchieves DEF Done, Service!Achieved, JobOf
<1>3. CASE cmd.op = "delete"
  <2>1. um = None /\ fw = None
    BY <1>3 DEF Done, DeleteComplete
  <2>2. Traffic = {} /\ ~Open
    BY <2>1 DEF Traffic, Backed, Open
  <2> QED BY <1>3, <2>2 DEF Service!Achieved, JobOf
<1>4. CASE cmd.op = "remove"
  <2>1. fw.tags \cap getTargetTags(cmd.clusters) = {}
    BY <1>4 DEF Done, RemoveComplete
  <2>2. Open \/ \A c \in cmd.clusters : ~Backed(c)
    BY <2>1 DEF Backed, getTargetTags
  <2>3. Open \/ Traffic \cap (Protocols \X cmd.clusters) = {}
    BY <2>2 DEF Traffic
  <2> QED BY <1>4, <2>3 DEF Service!Achieved, Service!All, JobOf
<1> QED BY <1>1, <1>2, <1>3, <1>4

\* What a step of a command does to the traffic is allowed.
LEMMA StepAllowed ==
  ASSUME ClustersApart, CommandInv, SomeKnown, OwnGroups, pc # "idle", OwnStepOf(cmd.op)
  PROVE  Service!Allowed(JobOf(cmd), Traffic, Traffic', Open' /\ ~Open)
<1>1. cmd.op \in {"create", "delete", "remove"} /\ TypeOK
  BY RunningCommand DEF CommandInv, BaseInv, TypeInv
<1>2. CASE cmd.op = "create"
  <2>1. Open' => Open
    BY <1>2, CreateKeepsClosed DEF Creating, OwnStepOf, CommandInv
  <2>2. CASE cmd.force
    BY <1>2, <2>1, <2>2 DEF Service!Allowed, JobOf
  <2>3. CASE ~cmd.force
    <3>1. KeptAll
      BY <1>2, <2>3, CreateStepKeeps DEF Creating, OwnStepOf, CommandInv
    <3>2. Traffic \subseteq Traffic'
      BY <1>1, <3>1, CreateAddsTraffic
    <3> QED BY <1>2, <2>1, <3>2 DEF Service!Allowed, JobOf
  <2> QED BY <2>2, <2>3
<1>3. CASE cmd.op = "delete"
  <2>1. Traffic' \subseteq Traffic /\ (Open' => Open)
    BY <1>1, <1>3, DeleteStopsTraffic DEF OwnStepOf
  <2> QED BY <1>3, <2>1 DEF Service!Allowed, JobOf
<1>4. CASE cmd.op = "remove"
  <2>1. /\ Traffic \ Traffic' \subseteq Protocols \X cmd.clusters
        /\ IF Open' /\ ~Open THEN Traffic \subseteq Protocols \X cmd.clusters
                             ELSE Traffic' \subseteq Traffic
    BY <1>1, <1>4, RemoveStopsTraffic DEF OwnStepOf, CommandInv
  <2> QED BY <1>4, <2>1 DEF Service!Allowed, Service!All, JobOf
<1> QED BY <1>1, <1>2, <1>3, <1>4

\* An own step leaves the command running and forgets no error.
LEMMA StepRuns ==
  ASSUME BaseInv, IGsInv, pc # "idle", OwnStepOf(cmd.op), BaseInv', cmd' = cmd
  PROVE  pc' # "idle" /\ err' \in {err, TRUE}
<1>1. cmd # None /\ cmd.op \in {"create", "delete", "remove"} /\ err \in BOOLEAN
  BY RunningCommand DEF BaseInv, TypeInv, TypeOK
<1>2. pc' # "idle" /\ err' \in BOOLEAN
  BY <1>1 DEF BaseInv, TypeInv, TypeOK
<1>3. err => err'
  <2>1. \E e, f : Record(e, f)
    BY <1>1 DEF OwnStepOf, CreateStep, CreateLoadBalancer, DeleteLoadBalancer,
       RemoveLoadBalancerFromClusters, createValidate, createIngress, createNodePorts,
       readNodePorts, noIPAddress, createHealthChecks, getIGs, getIGsForCluster,
       getNamedPorts, createBackendServices, createURLMap, createHTTPProxy, createRule,
       createSSLCert, createHTTPSProxy, createFirewall, deleteFirewall, deleteRules,
       deleteProxies, deleteCert, deleteURLMap, deletePorts, deleteBackends,
       deleteHealthChecks, deleteIngress, removeStatusCheck, removeNodePorts,
       afterRemoveIGs, removeFromFirewall, removeFromBackends, removeFromStatus
  <2> QED BY <2>1, Recorded
<1> QED BY <1>1, <1>2, <1>3

\* Every step is a step of the service, or leaves what it shows alone.
LEMMA NextImplements ==
  ASSUME ClustersApart, CommandInv, CommandInv', CreateInv, SomeKnown, OwnGroups,
         CreateComplete, DeleteComplete, RemoveComplete, [Next]_vars
  PROVE  [Service!Next]_(Service!vars)
<1> DEFINE j == IF pc = "idle" THEN None ELSE JobOf(cmd)
<1>1. pc # "idle" => cmd \in Commands /\ JobOf(cmd) # None
  BY RunningCommand, NoneOfJobs DEF CommandInv, BaseInv, TypeInv
<1>2. Traffic \subseteq Service!All(Clusters) /\ Traffic' \subseteq Service!All(Clusters)
  BY DEF Traffic, Service!All
<1>3. Open' \in BOOLEAN
  BY DEF Open
<1>4. ASSUME NEW c \in Commands, Run(c)
      PROVE  Service!Begin(JobOf(c))
  <2>1. c.op \in {"create", "delete", "remove"}
    BY ConfigAssumption DEF CommandType
  <2>2. pc = "idle" /\ pc' # "idle" /\ cmd' = c /\ err' = err /\ UNCHANGED cloud
    BY <1>4, <2>1 DEF Run, FirstStep
  <2>3. err = FALSE
    BY <2>2 DEF CommandInv, BaseInv, OwnSteps, TypeInv, TypeOK
  <2>4. Traffic' = Traffic /\ Open' = Open
    BY <2>2, TrafficKept DEF cloud
  <2>5. JobOf(cmd)' = JobOf(c)
    BY <2>2 DEF JobOf
  <2> QED BY <2>2, <2>3, <2>4, <2>5 DEF Service!Begin
<1>5. CASE Crash
  <2>1. pc # "idle" /\ pc' = "idle" /\ err' = FALSE /\ UNCHANGED cloud
    BY <1>5 DEF Crash
  <2>2. Traffic' = Traffic /\ Open' = Open
    BY <2>1, TrafficKept DEF cloud
  <2>3. Service!Fail
    BY <1>1, <2>1, <2>2 DEF Service!Fail
  <2> QED BY <2>3 DEF Service!Next
<1>6. CASE Return
  <2>1. pc = "done" /\ pc' = "idle" /\ err' = FALSE /\ UNCHANGED cloud
    BY <1>6 DEF Return
  <2>2. Traffic' = Traffic /\ Open' = Open
    BY <2>1, TrafficKept DEF cloud
  <2>3. CASE err
    <3>1. Service!Fail
      BY <1>1, <2>1, <2>2 DEF Service!Fail
    <3> QED BY <3>1 DEF Service!Next
  <2>4. CASE ~err
    <3>1. err = FALSE
      BY <2>4 DEF CommandInv, BaseInv, TypeInv, TypeOK
    <3>2. Service!Achieved(JobOf(cmd))
      BY <2>1, <2>4, SuccessAchieves
    <3>3. Service!Succeed
      BY <1>1, <2>1, <2>2, <3>1, <3>2 DEF Service!Succeed
    <3> QED BY <3>3 DEF Service!Next
  <2> QED BY <2>3, <2>4
<1>7. CASE Bystander
  <2>1. UNCHANGED <<pc, cmd, err>> /\ UNCHANGED cloud
    BY <1>7 DEF Bystander
  <2>2. Traffic' = Traffic /\ Open' = Open
    BY <2>1, TrafficKept DEF cloud
  <2> QED BY <2>1, <2>2 DEF Service!vars, JobOf
<1>8. CASE pc # "idle" /\ cmd' = cmd /\ OwnStepOf(cmd.op)
  <2>1. pc' # "idle" /\ err' \in {err, TRUE}
    BY <1>8, StepRuns DEF CommandInv
  <2>2. Service!Allowed(JobOf(cmd), Traffic, Traffic', Open' /\ ~Open)
    BY <1>8, StepAllowed
  <2>3. JobOf(cmd)' = JobOf(cmd)
    BY <1>8 DEF JobOf
  <2>4. Service!Work
    BY <1>3, <1>1, <1>2, <1>8, <2>1, <2>2, <2>3 DEF Service!Work
  <2> QED BY <2>4 DEF Service!Next
<1> QED
  <2>1. CASE \E c \in Commands : Run(c)
    <3>1. PICK c \in Commands : Run(c)
      BY <2>1
    <3>2. Service!Begin(JobOf(c))
      BY <1>4, <3>1
    <3> QED BY <3>2 DEF Service!Next
  <2>2. CASE createValidate \/ createIngress \/ LoadBalancerStep \/ deleteIngress
    <3>1. CASE createValidate \/ createIngress \/ CreateLoadBalancer
      BY <1>8, <3>1, CreateSteppedOn, OtherSteppedOn DEF OwnStepOf, CreateStep, CommandInv
    <3>2. CASE DeleteLoadBalancer
      BY <1>8, <3>2, DeleteSteppedOn DEF OwnStepOf, CommandInv
    <3>3. CASE RemoveLoadBalancerFromClusters
      BY <1>8, <3>3, RemoveSteppedOn DEF OwnStepOf, CommandInv
    <3>4. CASE deleteIngress
      <4>1. pc # "idle" /\ cmd' = cmd /\ cmd.op \in {"delete", "remove"}
        BY <3>4, OtherSteppedOn, RunningCommand DEF CommandInv, BaseInv, TypeInv
      <4> QED BY <1>8, <3>4, <4>1 DEF OwnStepOf
    <3> QED BY <2>2, <3>1, <3>2, <3>3, <3>4 DEF LoadBalancerStep
  <2>3. CASE (\E c \in Clusters : Annotate(c)) \/ ChangeServices \/ UNCHANGED vars
    BY <1>7, <2>3, BystanderStep DEF CommandInv, BaseInv
  <2> QED BY <1>5, <1>6, <2>1, <2>2, <2>3 DEF Next, CommandStep

(***************************************************************************)
(* CommandsImplementService: every behaviour of kubemci, of the            *)
(* controllers and of the user is one of MultiClusterIngress: no step of a *)
(* create without --force takes traffic away, no step of a delete adds     *)
(* any, a remove-clusters takes it from no other cluster and adds some     *)
(* only when it takes the last tag out of the firewall rule and nothing    *)
(* but its clusters was reached, and a command that reports success has    *)
(* achieved what it is for, a remove-clusters unless the rule is left      *)
(* without tags.  The hypothesis is that the cloud gives clusters instance *)
(* groups and network tags of their own.                                   *)
(***************************************************************************)
THEOREM CommandsImplementService ==
  ASSUME ClustersApart
  PROVE  Spec => ImplementsService
<1>1. Init => Service!Init
  <2> SUFFICES ASSUME Init PROVE Service!Init
    OBVIOUS
  <2>1. pc = "idle" /\ err = FALSE
    BY DEF Init, Idle
  <2>2. Traffic \in SUBSET Service!All(Clusters) /\ Open \in BOOLEAN
    BY DEF Traffic, Open, Service!All
  <2> QED BY <2>1, <2>2 DEF Service!Init
<1>2. Init => OwnGroups
  BY InitOwnGroups
<1>3. CommandInv /\ OwnGroups /\ [Next]_vars => OwnGroups'
  BY NextOwnGroups
<1>4. Init => SomeKnown
  BY DEF Init, Idle, SomeKnown, Creating
<1>5. CommandInv /\ SomeKnown /\ [Next]_vars => SomeKnown'
  BY NextKnown DEF CommandInv
<1>6. CommandInv /\ CommandInv' /\ CreateInv /\ SomeKnown /\ OwnGroups /\ CreateComplete
        /\ DeleteComplete /\ RemoveComplete /\ [Next]_vars => [Service!Next]_(Service!vars)
  BY NextImplements
<1> QED BY <1>1, <1>2, <1>3, <1>4, <1>5, <1>6, CreateInvariant, CreateCompletes,
        DeleteCompletes, RemoveCompletes, PTL DEF Spec, ImplementsService, Service!Spec
-----------------------------------------------------------------------------
(***************************************************************************)
(* PART 6: a create --force does not interrupt the traffic of the clusters *)
(* that it was given, while it rewrites the resources one after the other. *)
(***************************************************************************)

(***************************************************************************)
(* From the url map on, the port of the default backend is one of those    *)
(* that the firewall rule will open, and it will open them on all the      *)
(* clusters.  CreateInv tells this of a create without an error; but a     *)
(* create --force goes on after the certificate has failed.                *)
(***************************************************************************)
KeepSteps == {"httpProxy", "httpRule", "sslCert", "httpsProxy", "httpsRule", "firewall"}

DefaultFound ==
  /\ um # None /\ um.default \in NodePorts /\ loc.ports[um.default] # None
  /\ cmd.clusters \subseteq KnownClusters

KeepInv == Forced /\ pc \in KeepSteps => DefaultFound

\* The ports that the command did not find keep their backend services.
LEMMA EnsureBackendServiceSkips ==
  ASSUME NEW ports, NEW hcs, NEW nps, NEW igs, NEW force,
         NEW o \in EnsureBackendService(ports, hcs, nps, igs, force),
         NEW p \in NodePorts, ports[p] = None
  PROVE  Results(o)[p] = be[p]
<1> DEFINE f == [x \in NodePorts |->
        IF ports[x] = None
          THEN {Ok(be[x])}
          ELSE ensureBackendService(x, ports[x], hcs, nps, igs, force)]
<1>1. o \in Choices(f) /\ f[p] = {Ok(be[p])} /\ DOMAIN f = NodePorts
  BY DEF EnsureBackendService
<1> HIDE DEF f
<1>2. DOMAIN o = NodePorts /\ o[p] \in f[p]
  BY <1>1 DEF Choices
<1>3. o[p].res = be[p]
  BY <1>1, <1>2, AnsweredOutcome
<1> QED BY <1>2, <1>3 DEF Results

\* The url map points to a port that was found.
LEMMA createURLMapFinds ==
  ASSUME CommandInv, CreateInv, ForcedInv, Creating, createURLMap, Forced'
  PROVE  DefaultFound'
<1>1. pc = "urlMap" /\ nodePort' = nodePort
  BY createURLMapEffect DEF CommandInv
<1>2. PICK o : /\ URLMapEnsured(cmd.spec, cmd.clusters, loc.bes, cmd.force, o)
               /\ um' = o.res /\ loc' = [loc EXCEPT !.um = ~o.err]
               /\ Ended(o.err, o.fault)
  BY createURLMapEffect DEF CommandInv
<1>3. Forced /\ ~o.fault /\ cmd.spec.default # None
  BY <1>1, <1>2, StillForced DEF CommandInv
<1>4. ~err /\ PortsFound
  BY <1>1, <1>3 DEF ForcedInv, PastCert, PastHealthChecks, PastBackends
<1>5. BackendsBuilt
  BY <1>1, <1>4 DEF CreateInv, BuiltSoFar, PastBackends
<1>6. \A s \in ServicesOf(cmd.spec) : s \in Services
  BY RunningCommand DEF Creating, CommandInv, BaseInv, TypeInv, ServicesOf, SpecType
<1>7. ~ingToURLMapFails(cmd.spec, loc.bes)
  BY <1>3, <1>4, <1>5, <1>6 DEF ingToURLMapFails, PortsFound, BackendsBuilt
<1>8. ~o.err
  BY <1>2, <1>3, <1>7 DEF URLMapEnsured, Forced
<1>9. KnownClusters = cmd.clusters
  BY <1>1, <1>4, AllKnown DEF AskedAll, CommandInv, Creating
<1>10. loc'.ports = loc.ports /\ loc'.igs = loc.igs /\ cmd' = cmd
  BY <1>2 DEF Ended, CommandInv, BaseInv, TypeInv, TypeOK, Locals
<1>11. KnownClusters' = KnownClusters
  BY <1>10 DEF KnownClusters
<1> DEFINE s == cmd.spec.default
<1>12. s \in ServicesOf(cmd.spec) /\ s \in Services
  BY <1>3, <1>6 DEF ServicesOf
<1>13. um' # None /\ um'.default = loc.bes[s] /\ loc.bes[s] # None
  BY <1>2, <1>8, <1>12 DEF URLMapEnsured
<1>14. loc.bes[s] \in NodePorts /\ loc.ports[loc.bes[s]] = s
  BY <1>5, <1>12, <1>13 DEF BackendsBuilt
<1> QED BY <1>3, <1>9, <1>10, <1>11, <1>13, <1>14 DEF DefaultFound

\* The front end is built with what was found.
LEMMA DefaultKept ==
  ASSUME FrontendStep, DefaultFound
  PROVE  DefaultFound'
BY DEF FrontendStep, DefaultFound, KnownClusters

LEMMA createFrontendKeeps ==
  ASSUME BaseInv, Creating,
         \/ createHTTPProxy \/ createSSLCert \/ createHTTPSProxy
         \/ createRule("httpRule", "http", AfterHTTP)
         \/ createRule("httpsRule", "https", "firewall")
  PROVE  FrontendStep /\ nodePort' = nodePort /\ fw' = fw /\ pc \in KeepSteps
         /\ \E e, f : Ended(e, f)
<1>1. CASE createHTTPProxy
  <2>1. PICK e, f \in BOOLEAN : Ended(e, f) /\ loc' = [loc EXCEPT !.tp = ~e]
    BY <1>1, createHTTPProxyEffect
  <2>2. FrontendStep
    BY <1>1, <2>1, createHTTPProxyEffect DEF Ended, FrontendStep, BaseInv, TypeInv, TypeOK,
       Locals
  <2> QED BY <1>1, <2>1, <2>2, createHTTPProxyEffect DEF KeepSteps
<1>2. CASE createSSLCert
  <2>1. PICK e, f \in BOOLEAN :
          /\ Ended(e, f)
          /\ loc' = [loc EXCEPT !.cert = IF e THEN None ELSE certLink(cmd.spec.tls)]
    BY <1>2, createSSLCertEffect
  <2>2. FrontendStep
    BY <1>2, <2>1, createSSLCertEffect DEF Ended, FrontendStep, BaseInv, TypeInv, TypeOK,
       Locals
  <2> QED BY <1>2, <2>1, <2>2, createSSLCertEffect DEF KeepSteps
<1>3. CASE createHTTPSProxy
  <2>1. PICK e, f \in BOOLEAN : Ended(e, f) /\ loc' = [loc EXCEPT !.tp = ~e]
    BY <1>3, createHTTPSProxyEffect
  <2>2. FrontendStep
    BY <1>3, <2>1, createHTTPSProxyEffect DEF Ended, FrontendStep, BaseInv, TypeInv, TypeOK,
       Locals
  <2> QED BY <1>3, <2>1, <2>2, createHTTPSProxyEffect DEF KeepSteps
<1>4. ASSUME NEW here \in {"httpRule", "httpsRule"}, NEW next, NEW q \in Protocols,
             createRule(here, q, next)
      PROVE  FrontendStep /\ nodePort' = nodePort /\ fw' = fw /\ pc \in KeepSteps
             /\ \E e, f : Ended(e, f)
  <2>1. PICK e, f \in BOOLEAN : Ended(e, f)
    BY <1>4, createRuleEffect
  <2>2. pc = here /\ UNCHANGED <<hc, be, um, fw, ing, nodePort, loc>>
    BY <1>4, createRuleEffect
  <2> QED BY <2>1, <2>2 DEF Ended, FrontendStep, KeepSteps
<1> QED BY <1>1, <1>2, <1>3, <1>4 DEF Protocols

\* The other steps of a create do not lead to one of KeepSteps.
LEMMA EarlySteps ==
  ASSUME BaseInv, Creating,
         \/ createValidate \/ createIngress \/ createNodePorts \/ noIPAddress
         \/ createHealthChecks \/ getIGs("getIGs") \/ getNamedPorts
  PROVE  UNCHANGED <<be, um, fw>> /\ pc' \notin KeepSteps
<1> USE DEF KeepSteps, cloud
<1>1. CASE createValidate
  BY <1>1 DEF createValidate
<1>2. CASE createIngress
  BY <1>2 DEF createIngress
<1>3. CASE createNodePorts \/ noIPAddress
  BY <1>3 DEF createNodePorts, noIPAddress, readNodePorts, AfterSyncer
<1>4. CASE createHealthChecks
  BY <1>4 DEF createHealthChecks
<1>5. CASE getIGs("getIGs")
  BY <1>5 DEF getIGs
<1>6. CASE getNamedPorts
  BY <1>6 DEF getNamedPorts
<1> QED BY <1>1, <1>2, <1>3, <1>4, <1>5, <1>6

\* KeepInv is inductive while services do not change.
LEMMA NextKeep ==
  CommandInv /\ CreateInv /\ ForcedInv /\ KeepInv /\ [Next]_vars /\ [ServicesKept]_vars
    => KeepInv'
<1> SUFFICES ASSUME CommandInv, CreateInv, ForcedInv, KeepInv, [Next]_vars,
                    [ServicesKept]_vars, Forced', pc' \in KeepSteps
             PROVE  DefaultFound'
  BY DEF KeepInv
<1>1. ASSUME NEW c \in Commands, Run(c) PROVE FALSE
  <2>1. c.op \in {"create", "delete", "remove"}
    BY ConfigAssumption DEF CommandType
  <2> QED BY <1>1, <2>1 DEF Run, FirstStep, KeepSteps
<1>2. CASE pc # "idle" /\ Ends
  BY <1>2 DEF Ends, Forced, Creating
<1>3. CASE Bystander
  <2>1. UNCHANGED <<um, pc, cmd, err, fault, loc>>
    BY <1>3 DEF Bystander, cloud
  <2>2. pc # "idle" => nodePort' = nodePort
    BY DEF ServicesKept, vars
  <2>3. Forced
    BY <2>1, <2>2 DEF Forced, Creating, Creatable, nodePortSameInAllClusters
  <2> QED BY <2>1, <2>3 DEF KeepInv, DefaultFound, KnownClusters
<1>4. CASE pc # "idle" /\ cmd' = cmd /\ OwnStepOf(cmd.op)
  <2>1. Creating /\ CreateStep
    BY <1>4 DEF Forced, Creating, OwnStepOf
  <2>2. CASE createURLMap
    BY <2>1, <2>2, createURLMapFinds
  <2>3. CASE \/ createHTTPProxy \/ createSSLCert \/ createHTTPSProxy
             \/ createRule("httpRule", "http", AfterHTTP)
             \/ createRule("httpsRule", "https", "firewall")
    <3>1. /\ FrontendStep /\ nodePort' = nodePort /\ pc \in KeepSteps
          /\ \E e, f : Ended(e, f)
      BY <2>1, <2>3, createFrontendKeeps DEF CommandInv
    <3>2. Forced
      BY <2>1, <3>1, StillForced DEF CommandInv
    <3> QED BY <3>1, <3>2, DefaultKept DEF KeepInv
  <2>4. CASE createBackendServices \/ createFirewall
    BY <2>4, createBackendServicesEffect, createFirewallEffect DEF KeepSteps, CommandInv
  <2> QED BY <2>1, <2>2, <2>3, <2>4, EarlySteps DEF CreateStep, CreateLoadBalancer, CommandInv
<1> QED BY <1>1, <1>2, <1>3, <1>4, StepKinds DEF CommandInv

\* A step that leaves the chain of resources alone.
LEMMA BackedKept ==
  ASSUME NEW c, UNCHANGED <<be, um, fw>>, Backed(c)
  PROVE  Backed(c)'
BY DEF Backed, Open

\* The backend services are rewritten with the groups of all clusters.
LEMMA createBackendServicesBacked ==
  ASSUME CommandInv, CreateInv, ForcedInv, OwnGroups, Creating, createBackendServices,
         Forced', NEW c \in cmd.clusters, Backed(c)
  PROVE  Backed(c)'
<1> DEFINE d == um.default
<1>1. pc = "backendService" /\ UNCHANGED <<um, fw, nodePort>>
  BY createBackendServicesEffect DEF CommandInv
<1>2. PICK o : /\ BackendServicesEnsured(loc.ports, loc.hcs, loc.nps, AllIGs, cmd.force, o)
               /\ be' = Results(o) /\ Ended(AnyErr(o), AnyFault(o))
  BY createBackendServicesEffect DEF CommandInv
<1>3. \A p \in NodePorts : loc.ports[p] = None => be'[p] = be[p]
  BY EnsureBackendServiceSkips DEF createBackendServices
<1>4. Forced /\ ~AnyFault(o)
  BY <1>1, <1>2, StillForced DEF CommandInv
<1>5. ~err /\ PortsNamed /\ HealthChecksBuilt
  <2>1. ~err /\ PortsNamed
    BY <1>1, <1>4 DEF ForcedInv, PastCert
  <2> QED BY <1>1, <2>1 DEF CreateInv, BuiltSoFar, PastHealthChecks
<1>6. um # None /\ d \in NodePorts /\ c \in Clusters
  BY <1>1, RunningCommand DEF Backed, CommandInv, BaseInv, TypeInv, TypeOK, URLMapTypeOK, URLMaps
<1>7. be'[d] # None /\ be'[d].igs \cap IGsOf[c] # {}
  <2>1. CASE loc.ports[d] = None
    BY <1>3, <1>6, <2>1 DEF Backed
  <2>2. CASE loc.ports[d] # None
    <3>1. d \in loc.hcs /\ d \in loc.nps
      BY <1>5, <1>6, <2>2 DEF PortsNamed, HealthChecksBuilt
    <3>2. ~o[d].err
      BY <1>2, <1>4, <1>6, <3>1 DEF BackendServicesEnsured, Forced
    <3>3. be'[d] # None /\ be'[d] = desiredBackendService(loc.ports[d], AllIGs)
      BY <1>2, <1>6, <2>2, <3>2 DEF BackendServicesEnsured
    <3>4. KnownClusters = cmd.clusters
      BY <1>1, <1>5, AllKnown DEF AskedAll, CommandInv, Creating
    <3>5. loc.igs[c] # {} /\ loc.igs[c] \subseteq IGsOf[c] /\ loc.igs[c] \subseteq AllIGs
      BY <1>6, <3>4 DEF KnownClusters, OwnGroups, AllIGs
    <3> QED BY <3>3, <3>5 DEF desiredBackendService
  <2> QED BY <2>1, <2>2
<1> QED BY <1>1, <1>7 DEF Backed, Open

\* The firewall rule is rewritten with the port of the url map and all tags.
LEMMA createFirewallBacked ==
  ASSUME CommandInv, KeepInv, Creating, createFirewall, Forced',
         NEW c \in cmd.clusters, Backed(c)
  PROVE  Backed(c)'
<1>1. pc = "firewall" /\ UNCHANGED <<be, um, nodePort>>
  BY createFirewallEffect DEF CommandInv
<1>2. PICK e, f \in BOOLEAN :
        /\ Ended(e, f)
        /\ ~e => fw' # None /\ fw' = desiredFirewallRule(loc.ports, KnownClusters)
        /\ e /\ cmd.force => f \/ None \in getTargetTags(KnownClusters)
  BY createFirewallEffect DEF CommandInv
<1>3. Forced /\ ~f /\ None \notin getTargetTags(cmd.clusters)
  BY <1>1, <1>2, StillForced DEF CommandInv
<1>4. DefaultFound
  BY <1>1, <1>3 DEF KeepInv, KeepSteps
<1>5. KnownClusters \subseteq cmd.clusters
  BY DEF CommandInv, IGsInv, IGsKnown, KnownClusters, Creating
<1>6. ~e
  BY <1>2, <1>3, <1>5 DEF Forced, getTargetTags
<1>7. fw' # None /\ um.default \in fw'.ports /\ TagOf[c] \in fw'.tags
  BY <1>2, <1>4, <1>6 DEF DefaultFound, desiredFirewallRule, getTargetTags
<1> QED BY <1>1, <1>7 DEF Backed

\* What a step of a forced create does to the clusters it was given.
LEMMA ForcedStepBacked ==
  ASSUME CommandInv, CreateInv, ForcedInv, KeepInv, OwnGroups, Creating, CreateStep,
         Forced', NEW c \in cmd.clusters, Backed(c), um' # None => um'.default = um.default
  PROVE  Backed(c)'
<1>1. CASE createURLMap
  <2>1. um' # None
    BY <1>1, createURLMapFinds DEF DefaultFound
  <2>2. UNCHANGED <<be, fw>>
    BY <1>1, createURLMapEffect DEF CommandInv
  <2> QED BY <2>1, <2>2 DEF Backed, Open
<1>2. CASE \/ createHTTPProxy \/ createSSLCert \/ createHTTPSProxy
           \/ createRule("httpRule", "http", AfterHTTP)
           \/ createRule("httpsRule", "https", "firewall")
  BY <1>2, createFrontendKeeps, BackedKept DEF FrontendStep, CommandInv
<1>3. CASE \/ createValidate \/ createIngress \/ createNodePorts \/ noIPAddress
           \/ createHealthChecks \/ getIGs("getIGs") \/ getNamedPorts
  BY <1>3, EarlySteps, BackedKept DEF CommandInv
<1> QED BY <1>1, <1>2, <1>3, createBackendServicesBacked, createFirewallBacked
        DEF CreateStep, CreateLoadBalancer

(***************************************************************************)
(* ForcedCreatesKeepClusters: a create --force whose calls do not fail     *)
(* never interrupts the way from the url map to a cluster that it was      *)
(* given and that was served before, unless it moves the default backend   *)
(* to another port.  As for ForcedCreatesRecover, the services must not    *)
(* change while a command runs, and a create --force must be one that can  *)
(* succeed: one without a default backend keeps the old url map and then   *)
(* closes the firewall for the port that the map still points to.          *)
(***************************************************************************)
THEOREM ForcedCreatesKeepClusters ==
  /\ Spec
  /\ [][pc # "idle" => nodePort' = nodePort]_vars
  /\ [](pc # "idle" /\ cmd.op = "create" /\ cmd.force => Creatable(cmd))
  => ForcedCreateKeepsClusters
<1> DEFINE Able == pc # "idle" /\ cmd.op = "create" /\ cmd.force => Creatable(cmd)
           A == pc # "idle" /\ cmd.op = "create" /\ ~fault' =>
                  \A c \in cmd.clusters :
                    Backed(c) /\ (um' # None => um'.default = um.default) => Backed(c)'
           I == CommandInv /\ CreateInv /\ ForcedInv /\ KeepInv /\ OwnGroups
<1>1. Init => ForcedInv /\ KeepInv
  BY DEF Init, Idle, ForcedInv, KeepInv, Forced, Creating
<1>2. Init => OwnGroups
  BY InitOwnGroups
<1>3. I /\ [Next]_vars /\ [ServicesKept]_vars => ForcedInv' /\ KeepInv' /\ OwnGroups'
  BY NextForced, NextKeep, NextOwnGroups
<1>4. I /\ CommandInv' /\ Able /\ [Next]_vars /\ [ServicesKept]_vars => [A]_vars
  <2> SUFFICES ASSUME I, CommandInv', Able, [Next]_vars, [ServicesKept]_vars, Creating,
                      ~fault', NEW c \in cmd.clusters, Backed(c),
                      um' # None => um'.default = um.default
               PROVE  Backed(c)'
    BY DEF Creating
  <2>1. CASE UNCHANGED cloud
    BY <2>1, BackedKept DEF cloud
  <2>2. CASE cmd' = cmd /\ OwnStepOf(cmd.op)
    <3>1. CreateStep
      BY <2>2 DEF OwnStepOf, Creating
    <3>2. CASE ~cmd.force
      <4>1. KeptAll
        BY <3>1, <3>2, CreateStepKeeps DEF CommandInv
      <4>2. um # None => um.default \in NodePorts
        BY DEF CommandInv, BaseInv, TypeInv, TypeOK, URLMapTypeOK, URLMaps
      <4> QED BY <4>1, <4>2 DEF KeptAll, Kept, Backed, Open
    <3>3. CASE cmd.force
      <4>1. nodePort' = nodePort
        BY DEF ServicesKept, vars, Creating
      <4>2. Creating'
        BY <2>2, StepRuns DEF CommandInv, Creating
      <4>3. Creatable(cmd)'
        BY <2>2, <3>3, <4>1 DEF Creatable, nodePortSameInAllClusters, Creating
      <4>4. Forced'
        BY <2>2, <3>3, <4>2, <4>3 DEF Forced
      <4> QED BY <3>1, <4>4, ForcedStepBacked
    <3> QED BY <3>2, <3>3
  <2>3. \A d \in Commands : ~Run(d)
    BY DEF Run, Creating
  <2> QED BY <2>1, <2>2, <2>3, StepKinds DEF CommandInv, Ends, Bystander
<1>5. ServicesKept <=> (pc # "idle" => nodePort' = nodePort)
  BY DEF ServicesKept
<1> QED BY <1>1, <1>2, <1>3, <1>4, <1>5, CreateInvariant, PTL
        DEF Spec, ForcedCreateKeepsClusters

=============================================================================
