-------------------------- MODULE HealthCheckSyncer --------------------------
(***************************************************************************)
(* pkg/gcp/healthcheck: one health check per node port, named after the    *)
(* port.  Its description names the service, its request path comes from   *)
(* the readiness probes; the remaining fields are constants.               *)
(***************************************************************************)
EXTENDS KubemciTypes

VARIABLE hc         \* node port -> health check

HealthChecks == [svc : Services, path : Paths]

ASSUME NoneOfHealthChecks == None \notin HealthChecks

HealthCheckTypeOK == hc \in [NodePorts -> HealthChecks \cup {None}]

\* The distinct probe paths that the pods of svc declare in the clusters.
ProbePaths(svc, clients) == {Probe[c][svc] : c \in clients} \ {None}

\* The loop returns an error at the second distinct path.
PathsAgree(svc, clients) ==
  \A p, q \in ProbePaths(svc, clients) : p = q

getHealthCheckPath(svc, clients) ==
  IF ProbePaths(svc, clients) = {}
    THEN RootPath
    ELSE CHOOSE p \in ProbePaths(svc, clients) : TRUE

desiredHealthCheck(svc, path) == [svc |-> svc, path |-> path]

\* Seeded fault: only the path is compared.
ensureHealthCheckByPath(p, svc, path, force) ==
  LET desired == desiredHealthCheck(svc, path)
  IN  Ensure(hc[p], Create(hc[p], desired), hc[p].path = path, force,
             Call(hc[p], desired))

ensureHealthCheck(p, svc, path, force) ==
  LET desired == desiredHealthCheck(svc, path)
  IN  Ensure(hc[p], Create(hc[p], desired), hc[p] = desired, force,
             Call(hc[p], desired))

\* The result is a choice: for every port the outcome of its iteration.
\* Getting a probe from a cluster may fail.
EnsureHealthCheck(ports, clients, force) ==
  Choices([p \in NodePorts |->
    CASE ports[p] = None -> {Ok(hc[p])}
      [] ports[p] # None /\ ~PathsAgree(ports[p], clients) ->
           {Refused(hc[p])} \cup Faulty({hc[p]})
      [] ports[p] # None /\ PathsAgree(ports[p], clients) ->
           Faulty({hc[p]}) \cup
           ensureHealthCheck(p, ports[p],
                             getHealthCheckPath(ports[p], clients), force)])

\* used is the set of ports whose health check a backend service points to.
DeleteHealthChecks(ports, used) ==
  Choices([p \in NodePorts |->
    IF ports[p] = None THEN {Ok(hc[p])} ELSE Delete(hc[p], p \in used)])
=============================================================================
