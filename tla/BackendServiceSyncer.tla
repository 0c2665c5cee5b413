------------------------ MODULE BackendServiceSyncer ------------------------
(***************************************************************************)
(* pkg/gcp/backendservice: one backend service per node port.  It points   *)
(* to the health check of the same port and to the instance groups of all  *)
(* clusters of the load balancer.                                          *)
(***************************************************************************)
EXTENDS KubemciTypes

VARIABLE be         \* node port -> backend service

BackendServices == [svc : Services, igs : SUBSET InstanceGroups]

ASSUME NoneOfBackendServices == None \notin BackendServices

BackendServiceTypeOK == be \in [NodePorts -> BackendServices \cup {None}]

desiredBackendService(svc, igs) == [svc |-> svc, igs |-> igs]

\* Seeded fault: the missing health check is not noticed.
ensureBackendServiceUnchecked(p, svc, hcs, nps, igs, force) ==
  LET desired == desiredBackendService(svc, igs)
  IN  IF p \notin nps
        THEN {Refused(be[p])}
        ELSE Ensure(be[p], Create(be[p], desired), be[p] = desired, force,
                    Call(be[p], desired))

\* Seeded fault: the comparison ignores the instance groups.
ensureBackendServiceIgnoringGroups(p, svc, hcs, nps, igs, force) ==
  LET desired == desiredBackendService(svc, igs)
  IN  IF p \notin hcs \/ p \notin nps
        THEN {Refused(be[p])}
        ELSE Ensure(be[p], Create(be[p], desired), be[p].svc = svc, force,
                    Call(be[p], desired))

\* Seeded fault: the --force flag is not passed on.
ensureBackendServiceUnforced(p, svc, hcs, nps, igs, force) ==
  LET desired == desiredBackendService(svc, igs)
  IN  IF p \notin hcs \/ p \notin nps
        THEN {Refused(be[p])}
        ELSE Ensure(be[p], Create(be[p], desired), be[p] = desired, FALSE,
                    Call(be[p], desired))

\* A backend service without a health check or a named port is not created.
ensureBackendService(p, svc, hcs, nps, igs, force) ==
  LET desired == desiredBackendService(svc, igs)
  IN  IF p \notin hcs \/ p \notin nps
        THEN {Refused(be[p])}
        ELSE Ensure(be[p], Create(be[p], desired), be[p] = desired, force,
                    Call(be[p], desired))

EnsureBackendService(ports, hcs, nps, igs, force) ==
  Choices([p \in NodePorts |->
    IF ports[p] = None
      THEN {Ok(be[p])}
      ELSE ensureBackendService(p, ports[p], hcs, nps, igs, force)])

\* used is the set of ports whose backend service the url map points to.
DeleteBackendServices(ports, used) ==
  Choices([p \in NodePorts |->
    IF ports[p] = None THEN {Ok(be[p])} ELSE Delete(be[p], p \in used)])

desiredBackendServiceWithoutClusters(existing, igs) ==
  [existing EXCEPT !.igs = @ \ igs]

removeFromClusters(p, igs) ==
  IF be[p] = None
    THEN {Refused(None)} \cup Faulty({None})
    ELSE Call(be[p], desiredBackendServiceWithoutClusters(be[p], igs))

RemoveFromClusters(ports, igs) ==
  Choices([p \in NodePorts |->
    IF ports[p] = None THEN {Ok(be[p])} ELSE removeFromClusters(p, igs)])

\* The health checks that backend services point to.
HealthChecksInUse == {p \in NodePorts : be[p] # None}
=============================================================================
