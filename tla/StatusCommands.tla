--------------------------- MODULE StatusCommands ---------------------------
(***************************************************************************)
(* get-status and list: what a user is told of the load balancer between   *)
(* two commands.  They read the url map and the forwarding rules and       *)
(* change nothing.                                                         *)
(***************************************************************************)
EXTENDS Kubemci, Sequences

\* The url map syncer lists the statuses that it can parse.
ListURLMapStatuses == IF um = None \/ um.st = None THEN <<>> ELSE <<um.st>>

\* The forwarding rule syncer lists the status of the first rule that has
\* one; the cloud lists the rules in any order.
ListRuleStatuses ==
  LET with == {q \in Protocols : fr[q] # None /\ fr[q].st # None}
  IN  IF with = {} THEN {<<>>} ELSE {<<fr[q].st>> : q \in with}

\* The lines that list prints.
ListLoadBalancers == {ListURLMapStatuses \o r : r \in ListRuleStatuses}

\* What get-status prints; None is an error.
PrintStatus == getLoadBalancerStatus

(***************************************************************************)
(* ListedAsBuilt: after a create that succeeded, get-status and list both  *)
(* show the load balancer with the clusters and the address of that        *)
(* create, and list shows it once, even if an old kubemci had kept the     *)
(* status on the forwarding rule that the create replaced.  (An ingress    *)
(* for HTTPS only leaves that rule alone, and list shows both.)            *)
(***************************************************************************)
ListedAsBuilt ==
  pc = "idle" /\ stable # None /\ stable.spec.http =>
    LET st == [clusters |-> stable.clusters, ip |-> stable.spec.ip]
    IN  PrintStatus = st /\ ListLoadBalancers = {<<st>>}
=============================================================================
