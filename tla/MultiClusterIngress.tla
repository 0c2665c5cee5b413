------------------------ MODULE MultiClusterIngress ------------------------
(***************************************************************************)
(* What kubemci is for, seen from the outside: a load balancer lets the    *)
(* clients of a protocol reach some clusters, and commands change which.   *)
(* A command changes the traffic in any number of steps, and may be killed *)
(* or fail between them; the specification says which changes each command *)
(* may make on its way and what has to be true when it reports success.    *)
(***************************************************************************)
CONSTANTS
  Protocols, Clusters,
  Jobs,             \* [kind, protocols, clusters, force]: the commands
  NoJob             \* no command is running

VARIABLES
  traffic,          \* pairs of a protocol and a cluster that it reaches
  open,             \* the firewall lets the traffic into every cluster
  job,              \* the running command
  failed            \* the command has met an error

vars == <<traffic, open, job, failed>>

All(clusters) == Protocols \X clusters

Init == /\ traffic \in SUBSET All(Clusters)
        /\ open \in BOOLEAN
        /\ job = NoJob
        /\ failed = FALSE

Begin(j) ==
  /\ job = NoJob
  /\ job' = j /\ failed' = FALSE
  /\ UNCHANGED <<traffic, open>>

(***************************************************************************)
(* What a step of a command may do to the traffic.  The firewall opens for *)
(* every cluster when a remove takes out the last one that it was open to; *)
(* then no cluster is left that is reached and stays, and others, whose    *)
(* create did not get as far as the firewall, may be reached all at once.  *)
(***************************************************************************)
Allowed(j, old, new, opens) ==
  CASE j.kind = "create" -> ~opens /\ (old \subseteq new \/ j.force)
    [] j.kind = "delete" -> ~opens /\ new \subseteq old
    [] j.kind = "remove" -> /\ old \ new \subseteq All(j.clusters)
                            /\ IF opens THEN old \subseteq All(j.clusters)
                                        ELSE new \subseteq old

\* A command works; an error that it has met is not forgotten.
Work ==
  /\ job # NoJob
  /\ traffic' \in SUBSET All(Clusters)
  /\ open' \in BOOLEAN
  /\ Allowed(job, traffic, traffic', open' /\ ~open)
  /\ failed' \in {failed, TRUE}
  /\ UNCHANGED job

\* What a command has achieved when it reports success.
Achieved(j) ==
  CASE j.kind = "create" -> j.protocols \X j.clusters \subseteq traffic /\ ~open
    [] j.kind = "delete" -> traffic = {} /\ ~open
    [] j.kind = "remove" -> traffic \cap All(j.clusters) = {} \/ open

Succeed ==
  /\ job # NoJob /\ ~failed
  /\ Achieved(job)
  /\ job' = NoJob
  /\ UNCHANGED <<traffic, open, failed>>

\* The command reports an error, or is killed and reports nothing.
Fail ==
  /\ job # NoJob
  /\ failed' = FALSE
  /\ job' = NoJob
  /\ UNCHANGED <<traffic, open>>

Next == \/ \E j \in Jobs : Begin(j)
        \/ Work
        \/ Succeed
        \/ Fail

Spec == Init /\ [][Next]_vars
=============================================================================
