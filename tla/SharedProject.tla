---------------------------- MODULE SharedProject ----------------------------
(***************************************************************************)
(* Several load balancers in one Google Cloud project.  Commands find      *)
(* their resources by name alone, and names that were cut can be the same  *)
(* for two load balancers.  A resource is abstracted to the load balancer  *)
(* that its description names; create compares descriptions, delete looks  *)
(* at nothing.                                                             *)
(***************************************************************************)
EXTENDS Namer, CloudAPI

CONSTANT
  TypeOf            \* [Kinds -> Types]: the collection that holds the resource

Types == {"healthcheck", "backend", "urlmap", "rule", "firewall"}

ASSUME ProjectAssumption == TypeOf \in [Kinds -> Types] /\ None \notin LBNames

VARIABLES
  owner,            \* resource -> the load balancer in its description
  run               \* the running command, None when idle

vars == <<owner, run>>

Id(lb, k) == <<TypeOf[k], NameOf(lb, k)>>
Ids == {Id(lb, k) : lb \in LBNames, k \in Kinds}
KindsOf(type) == {k \in Kinds : TypeOf[k] = type}

Init == owner = [i \in Ids |-> None] /\ run = None

Start(op, lb, force) ==
  /\ run = None
  /\ run' = [op |-> op, lb |-> lb, force |-> force, todo |-> Kinds, failed |-> {}]
  /\ UNCHANGED owner

\* Seeded fault: the url map does not wait for the backend services.
BeforeBackends(type) == CASE type = "healthcheck" -> {}
                          [] type \in {"backend", "urlmap"} -> {"healthcheck"}
                          [] type = "rule" -> {"healthcheck", "backend", "urlmap"}
                          [] type = "firewall" -> Types \ {"firewall"}

\* What CreateLoadBalancer ensures before a resource of the type, and
\* DeleteLoadBalancer deletes after it.
Before(type) == CASE type = "healthcheck" -> {}
                  [] type = "backend" -> {"healthcheck"}
                  [] type = "urlmap" -> {"healthcheck", "backend"}
                  [] type = "rule" -> {"healthcheck", "backend", "urlmap"}
                  [] type = "firewall" -> Types \ {"firewall"}

\* DeleteLoadBalancer starts with the firewall rule.
Ready(k) ==
  IF run.op = "create"
    THEN \A l \in run.todo : TypeOf[l] \notin Before(TypeOf[k])
    ELSE \A l \in run.todo : TypeOf[k] \notin Before(TypeOf[l])

\* The kinds of resource that one of the given kind points to; a rule points
\* to the url map through a proxy.
PointsTo(k) == CASE TypeOf[k] = "backend" -> KindsOf("healthcheck")
                 [] TypeOf[k] = "urlmap" -> KindsOf("backend")
                 [] TypeOf[k] = "rule" -> KindsOf("urlmap")
                 [] TypeOf[k] \in {"healthcheck", "firewall"} -> {}

Finished(k, failed) ==
  run' = [run EXCEPT !.todo = @ \ {k}, !.failed = @ \cup failed]

\* Without what it points to a resource is not ensured; one that names another
\* load balancer is only replaced under --force.
ensureKind(k) ==
  LET i == Id(run.lb, k)
  IN  /\ run.op = "create" /\ Ready(k)
      /\ \/ /\ PointsTo(k) \cap run.failed = {}
            /\ owner[i] \in {None, run.lb} \/ run.force
            /\ owner' = [owner EXCEPT ![i] = run.lb]
            /\ Finished(k, {})
         \/ /\ \/ PointsTo(k) \cap run.failed # {}
               \/ owner[i] \notin {None, run.lb} /\ ~run.force
            /\ UNCHANGED owner
            /\ Finished(k, {k})

\* Some resource in the project points to i.
InUse(i) ==
  \E lb \in LBNames, l \in Kinds :
    owner[Id(lb, l)] = lb /\ i \in {Id(lb, k) : k \in PointsTo(l)}

deleteKind(k) ==
  LET i == Id(run.lb, k)
  IN  /\ run.op = "delete" /\ Ready(k)
      /\ IF owner[i] # None /\ InUse(i)
           THEN UNCHANGED owner /\ Finished(k, {k})
           ELSE owner' = [owner EXCEPT ![i] = None] /\ Finished(k, {})

\* The command ends or is killed.
Stop == run # None /\ run' = None /\ UNCHANGED owner

Next == \/ \E op \in {"create", "delete"}, lb \in LBNames, force \in BOOLEAN :
             Start(op, lb, force)
        \/ run # None /\ \E k \in run.todo : ensureKind(k) \/ deleteKind(k)
        \/ Stop

Spec == Init /\ [][Next]_vars

-----------------------------------------------------------------------------
(***************************************************************************)
(* NamesAccepted: every name that is used is short enough for the cloud,   *)
(* and ends in "-" only if the name of the load balancer itself does:      *)
(* wherever the cut falls, it leaves no such name.                         *)
(***************************************************************************)
NamesAccepted ==
  \A i \in Ids : owner[i] # None =>
    Len(i[2]) <= NameLenLimit + 1 /\ (EndsInDash(i[2]) => EndsInDash(owner[i]))

(***************************************************************************)
(* ShortNamesApart: a load balancer whose names need not be cut is never   *)
(* touched by a command for another one, whatever their names have in      *)
(* common and with or without --force.                                     *)
(***************************************************************************)
ShortNamesApart ==
  [][\A i \in Ids : owner'[i] # owner[i] /\ owner[i] # None /\ Short(owner[i])
       => run.lb = owner[i]]_vars

(***************************************************************************)
(* ReferencesAcross: whatever names two load balancers share, whichever of *)
(* them a create --force has taken a resource for and wherever a command   *)
(* was killed, a resource points to resources that exist: a create does    *)
(* not go on to what points to a resource that it was refused, and a       *)
(* delete of one load balancer takes nothing away from under the other.    *)
(***************************************************************************)
ReferencesAcross ==
  \A lb \in LBNames, k \in Kinds : owner[Id(lb, k)] = lb =>
    \A l \in PointsTo(k) : owner[Id(lb, l)] # None
=============================================================================
