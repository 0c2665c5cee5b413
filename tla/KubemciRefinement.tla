------------------------- MODULE KubemciRefinement -------------------------
(***************************************************************************)
(* kubemci implements MultiClusterIngress.  Traffic is derived from the    *)
(* whole chain of resources; no single syncer keeps it.                    *)
(***************************************************************************)
EXTENDS KubemciProperties

\* In the cloud a rule without tags applies to all instances of the network.
Open == fw # None /\ fw.tags = {}

\* The default backend sends traffic to cluster c, and the firewall of c lets
\* it pass.
Backed(c) ==
  /\ um # None
  /\ be[um.default] # None /\ be[um.default].igs \cap IGsOf[c] # {}
  /\ fw # None /\ um.default \in fw.ports /\ (Open \/ TagOf[c] \in fw.tags)

\* Clients of protocol q reach a proxy.
Exposed(q) == fr[q] # None /\ tp[q] # None

Traffic == {x \in Protocols \X Clusters : Exposed(x[1]) /\ Backed(x[2])}

ProtocolsOf(spec) == {q \in Protocols : \/ q = "http" /\ spec.http
                                        \/ q = "https" /\ spec.tls # None}

JobOf(c) == [kind |-> c.op, protocols |-> ProtocolsOf(c.spec),
             clusters |-> c.clusters, force |-> c.force]

\* None is not a job, so that it can stand for "no command is running".
ASSUME NoneOfJobs == \A c \in Commands : JobOf(c) # None

Service == INSTANCE MultiClusterIngress
             WITH Jobs <- {JobOf(c) : c \in Commands}, NoJob <- None,
                  traffic <- Traffic, open <- Open,
                  job <- IF pc = "idle" THEN None ELSE JobOf(cmd),
                  failed <- err

(***************************************************************************)
(* ImplementsService: every behaviour of the commands, the controllers and *)
(* the user, with all their faults, is one that MultiClusterIngress        *)
(* allows.  A create without --force never takes traffic away, delete      *)
(* never adds any, remove-clusters never takes it from another cluster     *)
(* than those named, and adds some only if it empties the tags of the      *)
(* firewall rule, when no cluster is reached but those it removes.  When a *)
(* command reports success, the traffic is what the user asked for; for a  *)
(* remove, unless the firewall rule is left without tags.                  *)
(***************************************************************************)
ImplementsService == Service!Spec

(***************************************************************************)
(* ForcedCreateKeepsClusters: create --force rebuilds a load balancer that *)
(* is serving.  As long as its calls do not fail and the default service   *)
(* stays on its port, it never interrupts the way from the url map to a    *)
(* cluster that it was given, although it rewrites the backend services,   *)
(* the url map and the firewall rule one after the other.                  *)
(***************************************************************************)
ForcedCreateKeepsClusters ==
  [][pc # "idle" /\ cmd.op = "create" /\ ~fault' =>
       \A c \in cmd.clusters :
         Backed(c) /\ (um' # None => um'.default = um.default) => Backed(c)']_vars
=============================================================================
