-------------------------- MODULE KubemciProperties --------------------------
(***************************************************************************)
(* What kubemci promises.  "Done" is the moment a command is about to      *)
(* return; err tells what it reports.                                      *)
(***************************************************************************)
EXTENDS Kubemci

Done(op) == pc = "done" /\ cmd.op = op

-----------------------------------------------------------------------------
(***************************************************************************)
(* References: at every moment, whatever has failed, been killed or been   *)
(* retried, a resource of the load balancer that points to another one     *)
(* points to one that exists: rules to proxies, proxies to the url map and *)
(* the certificate, the url map to backend services, those to health       *)
(* checks.  CreateLoadBalancer goes on after errors, so each syncer has to *)
(* notice that what it should point to is missing.                         *)
(***************************************************************************)
References ==
  /\ \A q \in Protocols : fr[q] # None => tp[q] # None
  /\ \A q \in Protocols : tp[q] # None => um # None
  /\ tp["https"] # None /\ tp["https"].cert = OwnCert => cert # None
  /\ \A p \in BackendServicesInUse : be[p] # None
  /\ \A p \in NodePorts : be[p] # None => hc[p] # None

(***************************************************************************)
(* CreateComplete: a create that reports no error has built the whole      *)
(* chain, whatever it found in the cloud: the address, the proxies, the    *)
(* url map with the status of the load balancer, a backend service with    *)
(* the instance groups of every cluster for each service, its health       *)
(* check, the certificate and the firewall rule.  (Under --force the       *)
(* certificate of an existing HTTPS proxy is another matter, see           *)
(* HTTPSProxyServesWantedCert.)                                            *)
(***************************************************************************)
Routed(s, spec, p) ==
  /\ loc.ports[p] = s
  /\ s = spec.default => um.default = p
  /\ s \in spec.paths => um.rules[s] = p

ServesOver(q) == tp[q] # None /\ fr[q] = desiredForwardingRule(cmd.spec.ip)

CreateComplete ==
  Done("create") /\ ~err =>
    /\ um # None /\ um.st = [clusters |-> cmd.clusters, ip |-> cmd.spec.ip]
    /\ cmd.clusters = KnownClusters
    /\ \A s \in ServicesOf(cmd.spec) : \E p \in NodePorts :
         /\ Routed(s, cmd.spec, p)
         /\ be[p] = desiredBackendService(s, AllIGs)
         /\ hc[p] = desiredHealthCheck(s, getHealthCheckPath(s, cmd.clusters))
    /\ cmd.spec.http => ServesOver("http")
    /\ cmd.spec.tls # None => ServesOver("https")
    /\ cmd.spec.tls \in CertData => cert = cmd.spec.tls
    /\ cmd.spec.tls # None /\ ~cmd.force => tp["https"].cert = certLink(cmd.spec.tls)
    /\ fw = desiredFirewallRule(loc.ports, cmd.clusters)

(***************************************************************************)
(* RecreateSucceeds: running the create that just succeeded once more      *)
(* succeeds, unless one of its calls fails ("Running create again should   *)
(* not return any error", the end-to-end tests): what create builds, and   *)
(* what the controllers add to it, matches what create looks for.  (Rules  *)
(* that Go can list in several orders need not match.)                     *)
(***************************************************************************)
RecreateSucceeds ==
  Done("create") /\ cmd = stable /\ cmd.spec.orders = 1 /\ ~fault => ~err

(***************************************************************************)
(* ForcedCreateRecovers: whatever failed or killed commands left behind, a *)
(* create --force whose calls do not fail repairs it.  The one exception   *)
(* is a certificate that a proxy uses, which cannot be replaced.  The      *)
(* clusters must agree on node ports and probes, and have network tags.    *)
(***************************************************************************)
Creatable(c) ==
  /\ c.clusters # {} /\ c.spec.default # None /\ c.spec.ip # None
  /\ None \notin getTargetTags(c.clusters)
  /\ c.validate => serverVersionsNewEnough(c.clusters)
  /\ \A s \in ServicesOf(c.spec) : /\ nodePortSameInAllClusters(s, c.clusters)
                                   /\ PathsAgree(s, c.clusters)

ForcedCreateRecovers ==
  Done("create") /\ cmd.force /\ ~fault /\ Creatable(cmd) /\ err =>
    cmd.spec.tls \in CertData /\ cert # cmd.spec.tls /\ OwnCertInUse

(***************************************************************************)
(* NoOverwriteWithoutForce: a create without --force only ever adds; it    *)
(* never changes or deletes a resource that exists, even one it left half  *)
(* built before.                                                           *)
(***************************************************************************)
Kept(old, new) == old = None \/ new = old

NoOverwriteWithoutForce ==
  [][pc # "idle" /\ cmd.op = "create" /\ ~cmd.force =>
       /\ \A p \in NodePorts : Kept(hc[p], hc'[p]) /\ Kept(be[p], be'[p])
       /\ \A q \in Protocols : Kept(tp[q], tp'[q]) /\ Kept(fr[q], fr'[q])
       /\ Kept(um, um') /\ Kept(cert, cert') /\ Kept(fw, fw')
       /\ \A c \in Clusters :
            ing[c] # None => ing'[c] # None /\ ing'[c].spec = ing[c].spec]_vars

-----------------------------------------------------------------------------
(***************************************************************************)
(* DeleteComplete: a delete that reports no error has left nothing behind  *)
(* of what it knew of: all resources with fixed names, the backend         *)
(* services and health checks of the ports it found, and the ingresses.    *)
(***************************************************************************)
DeleteComplete ==
  Done("delete") /\ ~err =>
    /\ um = None /\ cert = None /\ fw = None
    /\ \A q \in Protocols : tp[q] = None /\ fr[q] = None
    /\ \A p \in NodePorts : loc.ports[p] # None => be[p] = None /\ hc[p] = None
    /\ \A c \in cmd.clusters : ing[c] = None

(***************************************************************************)
(* DeleteInOrder: a delete whose calls do not fail never meets a resource  *)
(* that is still in use, whatever partly built or partly deleted load      *)
(* balancer it starts from ("We delete resources in the reverse order in   *)
(* which they were created").                                              *)
(***************************************************************************)
DeleteInOrder ==
  Done("delete") /\ ~fault /\ cmd.clusters # {} => ~err

(***************************************************************************)
(* IngressDeletedLast: without --force, the ingress leaves a cluster only  *)
(* when no backend service of the ports found uses its instance groups any *)
(* more: the controller deletes the instance groups when the ingress goes, *)
(* and cannot while they are in use (comment in runDelete).                *)
(***************************************************************************)
IngressDeletedLast ==
  [][\A c \in Clusters :
       ing[c] # None /\ ing'[c] = None /\ ~cmd.force =>
         \A p \in NodePorts : loc.ports[p] # None /\ be[p] # None =>
                                be[p].igs \cap ing[c].igs = {}]_vars

-----------------------------------------------------------------------------
(***************************************************************************)
(* RemoveComplete: a remove-clusters that reports no error has taken the   *)
(* clusters out of the backend services of the ports it found, of the      *)
(* firewall rule and of the status on the url map, and has deleted their   *)
(* ingresses.                                                              *)
(***************************************************************************)
RemoveComplete ==
  Done("remove") /\ ~err =>
    /\ KnownClusters = cmd.clusters
    /\ \A p \in NodePorts :
         loc.ports[p] # None => be[p] # None /\ be[p].igs \cap AllIGs = {}
    /\ fw # None /\ fw.tags \cap getTargetTags(cmd.clusters) = {}
    /\ um # None /\ um.st # None => um.st.clusters \cap cmd.clusters = {}
    /\ \A c \in cmd.clusters : ing[c] = None

(***************************************************************************)
(* StatusKeepsSomeCluster: a remove-clusters without --force whose calls   *)
(* do not fail never takes the last cluster out of the status, which it    *)
(* reads long before it writes it.  (If the url map cannot be read, the    *)
(* check is made on the status of a rule, which may be an old one.)        *)
(***************************************************************************)
HasStatus == um # None /\ um.st # None

StatusKeepsSomeCluster ==
  [][pc # "idle" /\ cmd.op = "remove" /\ ~cmd.force /\ ~fault' /\ HasStatus =>
       HasStatus' /\ (um.st.clusters # {} => um'.st.clusters # {})]_vars

-----------------------------------------------------------------------------
(***************************************************************************)
(* Terminates: every command returns or is killed in the end, although     *)
(* getIGsForCluster polls without a limit: an ingress that exists gets its *)
(* annotation, and one that does not makes the poll fail.                  *)
(***************************************************************************)
Terminates == pc # "idle" ~> pc = "idle"

-----------------------------------------------------------------------------
(***************************************************************************)
(* Statements of the repository that the code does not keep.               *)
(***************************************************************************)

(***************************************************************************)
(* RemovedFromStatus: after a successful remove-clusters the status that   *)
(* get-status reads does not list the removed clusters.                    *)
(***************************************************************************)
RemovedFromStatus ==
  Done("remove") /\ ~err /\ getLoadBalancerStatus # None =>
    getLoadBalancerStatus.clusters \cap cmd.clusters = {}

(***************************************************************************)
(* HTTPSProxyServesWantedCert: a successful create makes the HTTPS proxy   *)
(* use the certificate of the ingress.                                     *)
(***************************************************************************)
HTTPSProxyServesWantedCert ==
  Done("create") /\ ~err /\ cmd.spec.tls # None =>
    tp["https"].cert = certLink(cmd.spec.tls)
=============================================================================
