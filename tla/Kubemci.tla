------------------------------- MODULE Kubemci -------------------------------
(***************************************************************************)
(* The kubemci command line tool at work on one multicluster ingress.  The *)
(* user runs create, delete and remove-clusters one at a time; a command   *)
(* can be killed at any point, and its calls can fail.  Meanwhile the      *)
(* ingress-gce controllers annotate the ingresses of their clusters and    *)
(* the user changes the services.                                          *)
(***************************************************************************)
EXTENDS LoadBalancerSyncer

CONSTANT
  LegacyLBs         \* load balancers that an old kubemci may have left

VARIABLE
  stable            \* the last create that succeeded, if nothing was done since

vars == <<hc, be, um, tp, fr, cert, fw, ing, nodePort, pc, cmd, err, fault,
          faults, loc, stable>>

\* The whole state that the cloud keeps of a load balancer.
LoadBalancers == [hc : [NodePorts -> HealthChecks \cup {None}],
                  be : [NodePorts -> BackendServices \cup {None}],
                  um : URLMaps \cup {None},
                  tp : [Protocols -> TargetProxies \cup {None}],
                  fr : [Protocols -> ForwardingRules \cup {None}],
                  cert : CertData \cup {None},
                  fw : FirewallRules \cup {None},
                  ing : [Clusters -> Ingresses \cup {None}]]

NoLoadBalancer == [hc |-> [p \in NodePorts |-> None],
                   be |-> [p \in NodePorts |-> None],
                   um |-> None, tp |-> [q \in Protocols |-> None],
                   fr |-> [q \in Protocols |-> None], cert |-> None,
                   fw |-> None, ing |-> [c \in Clusters |-> None]]

\* In a load balancer that is found, the references are as create makes them,
\* and the annotations as the controllers write them.
ASSUME LegacyAssumption ==
  /\ LegacyLBs \subseteq LoadBalancers
  /\ \A lb \in LegacyLBs :
       /\ \A q \in Protocols : /\ lb.fr[q] # None => lb.tp[q] # None
                               /\ lb.tp[q] # None => lb.um # None
       /\ lb.tp["https"] # None /\ lb.tp["https"].cert = OwnCert => lb.cert # None
       /\ lb.um # None =>
            /\ lb.be[lb.um.default] # None
            /\ \A s \in Services :
                 lb.um.rules[s] # None => lb.be[lb.um.rules[s]] # None
       /\ \A p \in NodePorts : lb.be[p] # None => lb.hc[p] # None
       /\ \A c \in Clusters : lb.ing[c] # None => lb.ing[c].igs \subseteq IGsOf[c]

Steps == CreateSteps \cup DeleteSteps \cup RemoveSteps
         \cup {"validate", "ensureIngress", "delIngress", "done"}

TypeOK ==
  /\ HealthCheckTypeOK
  /\ BackendServiceTypeOK
  /\ URLMapTypeOK
  /\ TargetProxyTypeOK
  /\ ForwardingRuleTypeOK
  /\ SSLCertTypeOK
  /\ FirewallRuleTypeOK
  /\ IngressTypeOK
  /\ pc \in Steps \cup {"idle"}
  /\ cmd \in Commands \cup {None}
  /\ pc = "idle" <=> cmd = None
  /\ err \in BOOLEAN /\ fault \in BOOLEAN
  /\ faults \in 0..MaxFaults
  /\ loc \in Locals
  /\ stable \in Commands \cup {None}

Idle == /\ pc = "idle" /\ cmd = None /\ err = FALSE /\ fault = FALSE
        /\ loc = NoLocals

Init ==
  /\ \E lb \in LegacyLBs \cup {NoLoadBalancer} :
       /\ hc = lb.hc /\ be = lb.be /\ um = lb.um /\ tp = lb.tp
       /\ fr = lb.fr /\ cert = lb.cert /\ fw = lb.fw /\ ing = lb.ing
  /\ nodePort \in PortMaps
  /\ Idle
  /\ faults = 0
  /\ stable = None

-----------------------------------------------------------------------------
(***************************************************************************)
(* The commands.                                                           *)
(***************************************************************************)

FirstStep(c) == CASE c.op = "create" -> "validate"
                  [] c.op = "delete" -> "delFirewall"
                  [] c.op = "remove" -> "rmStatusCheck"

Run(c) ==
  /\ pc = "idle"
  /\ cmd' = c
  /\ pc' = FirstStep(c)
  /\ loc' = [NoLocals EXCEPT !.todo = c.clusters]
  /\ UNCHANGED <<cloud, ing, nodePort, err, fault, faults, stable>>

\* createIngressAndLoadBalancer: validation is optional and comes first.
createValidate ==
  /\ pc = "validate"
  /\ \E o \in IF cmd.validate THEN Validate(cmd.clusters, cmd.spec)
                              ELSE {Ok(None)} :
       /\ pc' = IF o.err THEN "done" ELSE "ensureIngress"
       /\ Record(o.err, o.fault)
  /\ UNCHANGED <<cloud, ing, nodePort, loc, stable>>

createIngress ==
  /\ pc = "ensureIngress"
  /\ \E o \in EnsureIngress(cmd.spec, cmd.clusters, cmd.force) :
       /\ ing' = Results(o)
       /\ pc' = IF AnyErr(o) THEN "done" ELSE "nodePorts"
       /\ Record(AnyErr(o), AnyFault(o))
  /\ UNCHANGED <<cloud, nodePort, loc, stable>>

\* runDelete and runRemoveClusters delete the ingress last.
deleteIngress ==
  /\ pc = "delIngress"
  /\ pc' = "done"
  /\ \E o \in DeleteIngress(cmd.clusters) :
       /\ ing' = Results(o)
       /\ Record(AnyErr(o), AnyFault(o))
  /\ UNCHANGED <<cloud, nodePort, loc, stable>>

LoadBalancerStep ==
  /\ \/ CreateLoadBalancer
     \/ DeleteLoadBalancer
     \/ RemoveLoadBalancerFromClusters
  /\ UNCHANGED stable

\* The command exits; the user sees whether it failed.
Return ==
  /\ pc = "done"
  /\ pc' = "idle" /\ cmd' = None /\ err' = FALSE /\ fault' = FALSE
  /\ loc' = NoLocals
  /\ stable' = IF cmd.op = "create" /\ ~err THEN cmd ELSE None
  /\ UNCHANGED <<cloud, ing, nodePort, faults>>

\* The command is killed between two calls.
Crash ==
  /\ pc \notin {"idle", "done"}
  /\ faults < MaxFaults
  /\ faults' = faults + 1
  /\ pc' = "idle" /\ cmd' = None /\ err' = FALSE /\ fault' = FALSE
  /\ loc' = NoLocals
  /\ stable' = None
  /\ UNCHANGED <<cloud, ing, nodePort>>

-----------------------------------------------------------------------------
(***************************************************************************)
(* The other actors.                                                       *)
(***************************************************************************)

\* The ingress-gce controller of cluster c (external).
Annotate(c) ==
  /\ ing[c] # None /\ ing[c].igs = {}
  /\ \E igs \in (SUBSET IGsOf[c]) \ {{}} :
       ing' = [ing EXCEPT ![c].igs = igs]
  /\ UNCHANGED <<cloud, nodePort, pc, cmd, err, fault, faults, loc, stable>>

\* The user creates, deletes or changes services.
ChangeServices ==
  /\ \E m \in PortMaps \ {nodePort} : nodePort' = m
  /\ stable' = None
  /\ UNCHANGED <<cloud, ing, pc, cmd, err, fault, faults, loc>>

CommandStep == \/ createValidate
               \/ createIngress
               \/ LoadBalancerStep
               \/ deleteIngress
               \/ Return

Next == \/ \E c \in Commands : Run(c)
        \/ CommandStep
        \/ Crash
        \/ \E c \in Clusters : Annotate(c)
        \/ ChangeServices

(***************************************************************************)
(* A running command goes on, and a controller annotates its ingress in    *)
(* the end; nothing obliges the user to run or to kill a command.          *)
(***************************************************************************)
Fairness == /\ WF_vars(CommandStep)
            /\ \A c \in Clusters : WF_vars(Annotate(c))

Spec == Init /\ [][Next]_vars
FairSpec == Spec /\ Fairness

=============================================================================
