--------------------------- MODULE IngressRouting ---------------------------
(***************************************************************************)
(* How create gets from the rules of an ingress to the routes of the url   *)
(* map.  Kubemci takes an ingress for a set of services; here it has hosts *)
(* and paths, a service has several ports, and the loops over them are     *)
(* taken one iteration at a time: ingToNodePorts lists the ports,          *)
(* EnsureHealthCheck and EnsureBackendService go through the list, and     *)
(* ingToURLMap goes through the rules.                                     *)
(***************************************************************************)
EXTENDS CloudAPI, Naturals, Sequences, FiniteSets

CONSTANTS
  Services, NodePorts,
  PortRefs,         \* numbers and names of service ports
  Hosts, NoHost, DefaultHost,   \* "" and "*"
  URLPaths, NoPath, DefaultPath,  \* "" and "/*"
  Sites,            \* ingress specifications
  Tables,           \* [Services -> Seq(ServicePorts)]: the services of the clusters
  MaxFaults         \* bound on failed calls

VARIABLES
  hc, be,           \* node port -> health check, backend service in the cloud
  um,               \* url map in the cloud, with the order of its lists
  table,            \* the services
  pc, site, force,  \* the running create, or the last one
  ports,            \* the ServicePort list
  k, j,             \* loop counters
  hcMap, beMap,     \* node ports, and node port by service name, ensured
  matcher, routes,  \* pathToBackend and hostPathBackend
  err,              \* the create has met an error
  stable,           \* the last create, if it succeeded: its site, the faults so far
  faults            \* number of faults so far (ghost, bounded by MaxFaults)

cloud == <<hc, be, um>>
locals == <<ports, k, j, hcMap, beMap, matcher, routes>>
vars == <<cloud, table, pc, site, force, locals, err, stable, faults>>

Backends == [svc : Services, port : PortRefs]
HTTPPaths == [path : URLPaths \cup {NoPath, DefaultPath}, be : Backends]
Rules == [host : Hosts \cup {NoHost}, http : BOOLEAN, paths : Seq(HTTPPaths)]
ServicePorts == [port : PortRefs, name : PortRefs, node : NodePorts]

\* Kubernetes gives no node port to two services, and takes no HTTP rule without
\* a path.
ASSUME RoutingAssumption ==
  /\ Sites \subseteq [backend : Backends \cup {None}, rules : Seq(Rules)]
  /\ \A s \in Sites : \A x \in DOMAIN s.rules : s.rules[x].http => s.rules[x].paths # <<>>
  /\ Tables \subseteq [Services -> Seq(ServicePorts)]
  /\ \A t \in Tables : \A r, s \in Services :
       \A x \in DOMAIN t[r], y \in DOMAIN t[s] : t[r][x].node = t[s][y].node => r = s
  /\ None \notin Backends /\ None \notin [site : Sites, faults : Nat]
  /\ MaxFaults \in Nat

\* A function with no arguments.
Empty == [x \in {} |-> None]
Put(f, x, v) == [y \in DOMAIN f \cup {x} |-> IF y = x THEN v ELSE f[y]]

Init == /\ hc = [n \in NodePorts |-> None] /\ be = [n \in NodePorts |-> None]
        /\ um = None
        /\ table \in Tables
        /\ pc = "idle" /\ site \in Sites /\ force = FALSE /\ err = FALSE
        /\ ports = <<>> /\ k = 1 /\ j = 1 /\ hcMap = {}
        /\ beMap = [s \in Services |-> None]
        /\ matcher = Empty /\ routes = Empty
        /\ stable = None /\ faults = 0

-----------------------------------------------------------------------------
\* The first port of a list that a reference by number or by name fits.
First(l, ref, x) ==
  LET match(q) == q.port = ref \/ q.name = ref
  IN  match(l[x]) /\ \A y \in 1..x-1 : ~match(l[y])
PortIn(l, ref) == IF \E x \in DOMAIN l : First(l, ref, x)
                    THEN l[CHOOSE x \in DOMAIN l : First(l, ref, x)].node ELSE None

GetServiceNodePort(b) == PortIn(table[b.svc], b.port)

\* ingToNodePorts lists the backends that have a node port, the default one
\* first.
Listed(list, b) ==
  IF b = None \/ GetServiceNodePort(b) = None THEN list ELSE Append(list, b)

Run(s, f) ==
  /\ pc = "idle"
  /\ pc' = "ports" /\ site' = s /\ force' = f
  /\ ports' = Listed(<<>>, s.backend)
  /\ UNCHANGED <<cloud, table, k, j, hcMap, beMap, matcher, routes, err, stable, faults>>

\* The rule that a loop over the rules has come to.
Rule == site.rules[k]

\* One path of a rule.
listPath ==
  /\ pc = "ports" /\ k <= Len(site.rules) /\ Rule.http /\ j <= Len(Rule.paths)
  /\ ports' = Listed(ports, Rule.paths[j].be)
  /\ j' = j + 1
  /\ UNCHANGED <<cloud, table, pc, site, force, k, hcMap, beMap, matcher, routes,
                 err, stable, faults>>

\* The end of a rule; other rules than HTTP ones are passed over.
listRule ==
  /\ pc = "ports" /\ k <= Len(site.rules)
  /\ Rule.http => j > Len(Rule.paths)
  /\ j' = 1 /\ k' = k + 1
  /\ UNCHANGED <<cloud, table, pc, site, force, ports, hcMap, beMap, matcher, routes,
                 err, stable, faults>>

endOfList ==
  /\ pc = "ports" /\ k > Len(site.rules)
  /\ pc' = "health" /\ k' = 1
  /\ UNCHANGED <<cloud, table, site, force, ports, j, hcMap, beMap, matcher, routes,
                 err, stable, faults>>

\* A call with outcome o has been made.
Record(o) == /\ o.fault => faults < MaxFaults
             /\ faults' = IF o.fault THEN faults + 1 ELSE faults
             /\ err' = (err \/ o.err)

\* Seeded fault: fields that the cloud fills in are compared too.
ensureExactly(cur, b) == Ensure(cur, Create(cur, b), FALSE, force, Call(cur, b))

\* The description of both resources names the service and its port, the way
\* the ingress refers to it.
ensure(cur, b) == Ensure(cur, Create(cur, b), cur = b, force, Call(cur, b))

ensureHealthCheck ==
  /\ pc = "health" /\ k <= Len(ports)
  /\ LET b == ports[k]
         n == GetServiceNodePort(b)
     IN  \E o \in ensure(hc[n], b) :
           /\ hc' = [hc EXCEPT ![n] = o.res]
           /\ hcMap' = IF o.err THEN hcMap ELSE hcMap \cup {n}
           /\ Record(o)
  /\ k' = k + 1
  /\ UNCHANGED <<be, um, table, pc, site, force, ports, j, beMap, matcher, routes, stable>>

\* Seeded fault: a backend service that could not be ensured is recorded.
ensureBackendServiceAnyway ==
  /\ pc = "backends" /\ k <= Len(ports)
  /\ LET b == ports[k]
         n == GetServiceNodePort(b)
     IN  \E o \in IF n \in hcMap THEN ensure(be[n], b) ELSE {Refused(be[n])} :
           /\ be' = [be EXCEPT ![n] = o.res]
           /\ beMap' = [beMap EXCEPT ![b.svc] = n]
           /\ Record(Ok(None))
  /\ k' = k + 1
  /\ UNCHANGED <<hc, um, table, pc, site, force, ports, j, hcMap, matcher, routes, stable>>

\* The map of backend services is keyed by the name of the service.
ensureBackendService ==
  /\ pc = "backends" /\ k <= Len(ports)
  /\ LET b == ports[k]
         n == GetServiceNodePort(b)
     IN  \E o \in IF n \in hcMap THEN ensure(be[n], b) ELSE {Refused(be[n])} :
           /\ be' = [be EXCEPT ![n] = o.res]
           /\ beMap' = IF o.err THEN beMap ELSE [beMap EXCEPT ![b.svc] = n]
           /\ Record(o)
  /\ k' = k + 1
  /\ UNCHANGED <<hc, um, table, pc, site, force, ports, j, hcMap, matcher, routes, stable>>

\* The end of the loops over the ports.
endOfPorts ==
  /\ pc \in {"health", "backends"} /\ k > Len(ports)
  /\ pc' = IF pc = "health" THEN "backends" ELSE "rules"
  /\ k' = 1
  /\ UNCHANGED <<cloud, table, site, force, ports, j, hcMap, beMap, matcher, routes,
                 err, stable, faults>>

-----------------------------------------------------------------------------
\* One path of a rule; a path without a backend service is skipped.
routePath ==
  /\ pc = "rules" /\ k <= Len(site.rules) /\ Rule.http /\ j <= Len(Rule.paths)
  /\ LET p == Rule.paths[j]
         path == IF p.path = NoPath THEN DefaultPath ELSE p.path
         n == beMap[p.be.svc]
     IN  /\ matcher' = IF n = None THEN matcher ELSE Put(matcher, path, n)
         /\ err' = (err \/ n = None)
  /\ j' = j + 1
  /\ UNCHANGED <<cloud, table, pc, site, force, ports, k, hcMap, beMap, routes, stable, faults>>

\* Seeded fault: the first rule of a host wins.
routeRuleFirst ==
  /\ pc = "rules" /\ k <= Len(site.rules)
  /\ Rule.http => j > Len(Rule.paths)
  /\ LET host == IF Rule.host = NoHost THEN DefaultHost ELSE Rule.host
     IN  routes' = IF Rule.http /\ host \notin DOMAIN routes
                     THEN Put(routes, host, matcher) ELSE routes
  /\ matcher' = Empty /\ j' = 1 /\ k' = k + 1
  /\ UNCHANGED <<cloud, table, pc, site, force, ports, hcMap, beMap, err, stable, faults>>

\* The end of a rule; it replaces an earlier one of the same host.
routeRule ==
  /\ pc = "rules" /\ k <= Len(site.rules)
  /\ Rule.http => j > Len(Rule.paths)
  /\ LET host == IF Rule.host = NoHost THEN DefaultHost ELSE Rule.host
     IN  routes' = IF Rule.http THEN Put(routes, host, matcher) ELSE routes
  /\ matcher' = Empty /\ j' = 1 /\ k' = k + 1
  /\ UNCHANGED <<cloud, table, pc, site, force, ports, hcMap, beMap, err, stable, faults>>

endOfRules ==
  /\ pc = "rules" /\ k > Len(site.rules)
  /\ pc' = "urlMap"
  /\ UNCHANGED <<cloud, table, site, force, locals, err, stable, faults>>

(***************************************************************************)
(* The rest of ingToURLMap and of EnsureURLMap.  An error on a path leads  *)
(* to no url map; every backend with an error so far is missing in beMap.  *)
(***************************************************************************)
Unrouted(s) == \E x \in DOMAIN s.rules :
                 s.rules[x].http /\ \E y \in DOMAIN s.rules[x].paths :
                                      beMap[s.rules[x].paths[y].be.svc] = None

(***************************************************************************)
(* desiredURLMap lists the hosts, and the paths of each host, in the order *)
(* of Go's map iteration, which is another one every time; urlMapMatches   *)
(* compares the lists.                                                     *)
(***************************************************************************)
Listings(S) == {l \in [1..Cardinality(S) -> S] : \A x \in S : \E i \in DOMAIN l : l[i] = x}

Orders(r) == [hosts : Listings(DOMAIN r),
              paths : Choices([h \in DOMAIN r |-> Listings(DOMAIN r[h])])]

EnsureURLMap ==
  /\ pc = "urlMap"
  /\ pc' = "done"
  /\ IF Unrouted(site) \/ site.backend = None \/ beMap[site.backend.svc] = None
       THEN um' = um /\ Record(Refused(um))
       ELSE \E order \in Orders(routes) :
              LET new == [default |-> beMap[site.backend.svc], rules |-> routes,
                          order |-> order]
              IN  \E o \in ensure(um, new) : um' = o.res /\ Record(o)
  /\ UNCHANGED <<hc, be, table, site, force, locals, stable>>

Return ==
  /\ pc = "done"
  /\ pc' = "idle" /\ force' = FALSE /\ err' = FALSE
  /\ ports' = <<>> /\ k' = 1 /\ j' = 1 /\ hcMap' = {}
  /\ beMap' = [s \in Services |-> None]
  /\ matcher' = Empty /\ routes' = Empty
  /\ stable' = IF err THEN None ELSE [site |-> site, faults |-> faults]
  /\ UNCHANGED <<cloud, table, site, faults>>

\* The user changes the services.
ChangeServices ==
  /\ pc = "idle"
  /\ table' \in Tables \ {table}
  /\ stable' = None
  /\ UNCHANGED <<cloud, pc, site, force, locals, err, faults>>

Next == \/ \E s \in Sites, f \in BOOLEAN : Run(s, f)
        \/ listPath \/ listRule \/ endOfList
        \/ ensureHealthCheck \/ ensureBackendService \/ endOfPorts
        \/ routePath \/ routeRule \/ endOfRules \/ EnsureURLMap
        \/ Return
        \/ ChangeServices

Spec == Init /\ [][Next]_vars

-----------------------------------------------------------------------------
(***************************************************************************)
(* The routes that an ingress asks for, as a definition without loops: the *)
(* last HTTP rule of a host counts, and in it the last entry of a path.    *)
(***************************************************************************)
HostOf(r) == IF r.host = NoHost THEN DefaultHost ELSE r.host
PathOf(p) == IF p.path = NoPath THEN DefaultPath ELSE p.path

HTTPRules(s) == {x \in DOMAIN s.rules : s.rules[x].http}

LastRule(s, h) == CHOOSE x \in HTTPRules(s) :
  /\ HostOf(s.rules[x]) = h
  /\ \A y \in HTTPRules(s) : y > x => HostOf(s.rules[y]) # h

LastPath(r, u) == CHOOSE x \in DOMAIN r.paths :
  /\ PathOf(r.paths[x]) = u
  /\ \A y \in DOMAIN r.paths : y > x => PathOf(r.paths[y]) # u

WantedOf(r) == [u \in {PathOf(r.paths[x]) : x \in DOMAIN r.paths} |->
                  r.paths[LastPath(r, u)].be]
Wanted(s) == [h \in {HostOf(s.rules[x]) : x \in HTTPRules(s)} |->
                WantedOf(s.rules[LastRule(s, h)])]

BackendsOf(s) == ({s.backend} \ {None}) \cup
                 UNION {{s.rules[x].paths[y].be : y \in DOMAIN s.rules[x].paths} :
                          x \in HTTPRules(s)}

\* No service is used with two ports.
OnePortPerService(s) ==
  \A b, c \in BackendsOf(s) : b.svc = c.svc => GetServiceNodePort(b) = GetServiceNodePort(c)

RoutedTo(b, n) == n = GetServiceNodePort(b)

\* The url map has the wanted routes, with targets in the relation To.
RoutesMatch(s, To(_, _)) ==
  /\ To(s.backend, um.default)
  /\ DOMAIN um.rules = DOMAIN Wanted(s)
  /\ \A h \in DOMAIN um.rules :
       /\ DOMAIN um.rules[h] = DOMAIN Wanted(s)[h]
       /\ \A u \in DOMAIN um.rules[h] : To(Wanted(s)[h][u], um.rules[h][u])

(***************************************************************************)
(* RoutesAsWritten: a create that reports no error has made the url map    *)
(* that the ingress asks for, with every host and path leading to its own  *)
(* port, provided that the ingress does not use two ports of one service.  *)
(***************************************************************************)
RoutesAsWritten ==
  pc = "done" /\ ~err /\ OnePortPerService(site) => RoutesMatch(site, RoutedTo)

(***************************************************************************)
(* RoutedToItsService: a create that reports no error has, for every route *)
(* of the url map, a backend service and a health check that belong to the *)
(* service of that route, even if the services have changed their ports    *)
(* since an earlier create made them.                                      *)
(***************************************************************************)
BelongsTo(b, n) == /\ hc[n] # None /\ hc[n].svc = b.svc
                   /\ be[n] # None /\ be[n].svc = b.svc

RoutedToItsService ==
  pc = "done" /\ ~err => RoutesMatch(site, BelongsTo)

(***************************************************************************)
(* RecreateWithoutForce: running the create that just succeeded once more  *)
(* fails only if a call fails, although it may not overwrite anything      *)
(* ("Running create again should not return any error"), provided that the *)
(* ingress refers to each port in one way only (the descriptions of health *)
(* checks and backend services contain the reference) and that it has one  *)
(* host with one path, or no host at all: two can be listed in another     *)
(* order by the second create, which then takes the url map for another.   *)
(***************************************************************************)
OneNamePerPort(s) ==
  \A b, c \in BackendsOf(s) :
    GetServiceNodePort(b) # None /\ GetServiceNodePort(b) = GetServiceNodePort(c) => b = c

OneOrder(s) ==
  \A g, h \in DOMAIN Wanted(s) :
    g = h /\ \A u, v \in DOMAIN Wanted(s)[h] : u = v

RecreateWithoutForce ==
  /\ pc = "done" /\ stable = [site |-> site, faults |-> faults]
  /\ OneNamePerPort(site) /\ OneOrder(site)
  => ~err

-----------------------------------------------------------------------------
(***************************************************************************)
(* A statement of the repository that the code does not keep.              *)
(***************************************************************************)

(***************************************************************************)
(* RoutesToOwnPort: "In case of no error, the map will contain services    *)
(* for all the given array of ports", so every route leads to its port.    *)
(***************************************************************************)
RoutesToOwnPort ==
  pc = "done" /\ ~err => RoutesMatch(site, RoutedTo)
=============================================================================
