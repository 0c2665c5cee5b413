---------------------------- MODULE HealthProbes ----------------------------
(***************************************************************************)
(* How the path of a health check is found.  getHealthCheckPath asks the   *)
(* clusters, in the order of a Go map, for the readiness probe of the pods *)
(* behind a service port; GetProbe takes the first container that fits.    *)
(* HealthCheckSyncer takes one probe per service and cluster as given;     *)
(* here the pods have containers, ports and probes of all kinds.           *)
(***************************************************************************)
EXTENDS CloudAPI, Naturals, Sequences

CONSTANTS
  Clusters,
  Numbers, Names,   \* of container ports
  Rooted, NoPath, Bare,  \* paths with a leading "/", "", and other ones
  WithSlash,        \* [Bare \cup {NoPath} -> Rooted]: "/" put in front
  SvcPort,          \* port of the service, as the ingress refers to it
  Protocol,         \* protocol of the service port
  PodLists,         \* what a cluster can return: sequences of containers
  MaxFaults         \* bound on failed calls

VARIABLES
  pods,             \* cluster -> containers of the pods, in order
  hc,               \* path of the health check in the cloud
  pc, force,        \* the running create
  todo,             \* clusters that have not been asked
  path, err,        \* local variables of getHealthCheckPath
  fault, faults     \* a call has failed; how many (ghost)

vars == <<pods, hc, pc, force, todo, path, err, fault, faults>>

\* The API server puts "/" for an empty path in a probe (external).
Probes == [http : BOOLEAN, plain : BOOLEAN, scheme : {"HTTP", "HTTPS"},
           port : Numbers \cup Names, path : Rooted \cup Bare]
Ports == [number : Numbers, name : Names]
Containers == [probe : Probes \cup {None}, ports : SUBSET Ports]

ASSUME ProbeAssumption ==
  /\ NoPath \notin Rooted \cup Bare
  /\ None \notin Rooted /\ None \notin Probes
  /\ \A l \in PodLists : \A x \in DOMAIN l : l[x] \in Containers
  /\ WithSlash \in [Bare \cup {NoPath} -> Rooted]
  /\ SvcPort \in Numbers \cup Names
  /\ MaxFaults \in Nat

Init == /\ pods \in [Clusters -> PodLists]
        /\ hc = None
        /\ pc = "idle" /\ force = FALSE /\ todo = {} /\ path = NoPath /\ err = FALSE
        /\ fault = FALSE /\ faults = 0

-----------------------------------------------------------------------------
\* A probe by HTTP without a host or headers of its own.
isSimpleHTTPProbe(probe) == probe # None /\ probe.http /\ probe.plain

\* A reference by number or by name to the container port p.
RefersTo(ref, p) == ref = p.number \/ ref = p.name

\* The service port and the probe refer to the same port of the container.
Matches(c) ==
  /\ isSimpleHTTPProbe(c.probe) /\ c.probe.scheme = Protocol
  /\ \E p \in c.ports : RefersTo(SvcPort, p) /\ RefersTo(c.probe.port, p)

\* The first container that matches.
First(l, x) == Matches(l[x]) /\ \A y \in 1..x-1 : ~Matches(l[y])
GetProbe(l) == IF \E x \in DOMAIN l : First(l, x)
                 THEN l[CHOOSE x \in DOMAIN l : First(l, x)].probe ELSE None

\* A path for the cloud has a leading "/".
normalise(p) == IF p \in Rooted THEN p ELSE WithSlash[p]

Run(f) ==
  /\ pc = "idle"
  /\ pc' = "paths" /\ force' = f /\ todo' = Clusters
  /\ UNCHANGED <<pods, hc, path, err, fault, faults>>

\* Seeded fault: a later path replaces an earlier one.
getPathLast(c) ==
  /\ pc = "paths" /\ c \in todo
  /\ LET probe == GetProbe(pods[c])
     IN  /\ path' = IF probe = None THEN path ELSE probe.path
         /\ pc' = pc
         /\ UNCHANGED err
  /\ todo' = todo \ {c}
  /\ UNCHANGED <<pods, hc, force, fault, faults>>

\* The answer of cluster c.  A path that differs from the one found earlier
\* ends the loop; "" stands for no path yet.
getPath(c) ==
  /\ pc = "paths" /\ c \in todo
  /\ LET probe == GetProbe(pods[c])
         differs == probe # None /\ path # NoPath /\ path # probe.path
     IN  /\ path' = IF probe # None /\ path = NoPath THEN probe.path ELSE path
         /\ err' = (err \/ differs)
         /\ pc' = IF differs THEN "done" ELSE pc
  /\ todo' = todo \ {c}
  /\ UNCHANGED <<pods, hc, force, fault, faults>>

\* The service or the pods cannot be read; the loop goes on.
getPathFails(c) ==
  /\ pc = "paths" /\ c \in todo /\ faults < MaxFaults
  /\ err' = TRUE /\ fault' = TRUE /\ faults' = faults + 1
  /\ todo' = todo \ {c}
  /\ UNCHANGED <<pods, hc, pc, force, path>>

\* The health check is ensured if there was no error.
ensureHealthCheck ==
  /\ pc = "paths" /\ todo = {}
  /\ pc' = "done"
  /\ LET new == normalise(path)
     IN  \E o \in IF err THEN {Refused(hc)}
                  ELSE Ensure(hc, Create(hc, new), hc = new, force, Call(hc, new)) :
           /\ o.fault => faults < MaxFaults
           /\ hc' = o.res /\ err' = (err \/ o.err) /\ fault' = (fault \/ o.fault)
           /\ faults' = IF o.fault THEN faults + 1 ELSE faults
  /\ UNCHANGED <<pods, force, todo, path>>

Return ==
  /\ pc = "done"
  /\ pc' = "idle" /\ force' = FALSE /\ todo' = {} /\ path' = NoPath
  /\ err' = FALSE /\ fault' = FALSE
  /\ UNCHANGED <<pods, hc, faults>>

\* The user deploys other pods in cluster c.
Deploy(c) ==
  /\ pc = "idle"
  /\ \E l \in PodLists \ {pods[c]} : pods' = [pods EXCEPT ![c] = l]
  /\ UNCHANGED <<hc, pc, force, todo, path, err, fault, faults>>

Next == \/ \E f \in BOOLEAN : Run(f)
        \/ \E c \in Clusters : getPath(c) \/ getPathFails(c) \/ Deploy(c)
        \/ ensureHealthCheck
        \/ Return

Spec == Init /\ [][Next]_vars

-----------------------------------------------------------------------------
\* The paths that the clusters ask for.
PathsWanted == {GetProbe(pods[c]).path : c \in {d \in Clusters : GetProbe(pods[d]) # None}}

(***************************************************************************)
(* PathOfEveryProbe: whatever the order in which the clusters are asked, a *)
(* create that reports no error leaves a health check on the path of the   *)
(* probes in all clusters, or on "/" if there is none; and one that may    *)
(* overwrite and whose calls do not fail reports an error only if two      *)
(* clusters disagree.                                                      *)
(***************************************************************************)
PathOfEveryProbe ==
  pc = "done" =>
    /\ ~err => /\ \A p \in PathsWanted : hc = normalise(p)
               /\ PathsWanted = {} => hc = WithSlash[NoPath]
    /\ err /\ force /\ ~fault => \E p, q \in PathsWanted : p # q
=============================================================================
