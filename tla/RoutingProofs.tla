---------------------------- MODULE RoutingProofs ----------------------------
(***************************************************************************)
(* Proofs about IngressRouting, for every ingress, every table of services *)
(* and every number of faults: the routes of the url map are the ones that *)
(* the ingress asks for, they lead to resources of their own services, and *)
(* a create that succeeded can be repeated.                                *)
(***************************************************************************)
EXTENDS IngressRouting, CloudAPIProofs, SequenceTheorems

-----------------------------------------------------------------------------
(***************************************************************************)
(* The entries of an ingress, in the order in which ingToNodePorts meets   *)
(* them: the default backend is at position 0, 0, path y of rule x at x, y. *)
(***************************************************************************)
Entry(s, x, y) == \/ x = 0 /\ y = 0 /\ s.backend # None
                  \/ x \in HTTPRules(s) /\ y \in DOMAIN s.rules[x].paths
At(s, x, y) == IF x = 0 THEN s.backend ELSE s.rules[x].paths[y].be
Known(s, x, y) == Entry(s, x, y) /\ GetServiceNodePort(At(s, x, y)) # None

\* z, w comes after x, y.
Later(x, y, z, w) == z > x \/ (z = x /\ w > y)

\* The last entry of a service counts, and gives its port.
LastOf(s, v, x, y) ==
  /\ Known(s, x, y) /\ At(s, x, y).svc = v
  /\ \A z, w \in Nat : Known(s, z, w) /\ At(s, z, w).svc = v => ~Later(x, y, z, w)
LastPort(s, v, n) ==
  \E x, y \in Nat : LastOf(s, v, x, y) /\ n = GetServiceNodePort(At(s, x, y))
Targets(s) == [v \in Services |-> CHOOSE n \in NodePorts : LastPort(s, v, n)]

\* The routes of an ingress, when services have the given node ports.
MatcherFor(r, port) == [u \in DOMAIN WantedOf(r) |-> port[WantedOf(r)[u].svc]]
RoutesFor(s, port) == [h \in DOMAIN Wanted(s) |->
                         MatcherFor(s.rules[LastRule(s, h)], port)]

-----------------------------------------------------------------------------
(***************************************************************************)
(* The inductive invariant.  Every loop has a part that says what it has   *)
(* done up to its counters.                                                *)
(***************************************************************************)
RoutingTypeOK ==
  /\ hc \in [NodePorts -> Backends \cup {None}] /\ be \in [NodePorts -> Backends \cup {None}]
  /\ table \in Tables /\ site \in Sites
  /\ pc \in {"idle", "ports", "health", "backends", "rules", "urlMap", "done"}
  /\ force \in BOOLEAN /\ err \in BOOLEAN /\ faults \in Nat
  /\ ports \in Seq(Backends) /\ k \in Nat \ {0} /\ j \in Nat \ {0}
  /\ hcMap \subseteq NodePorts /\ beMap \in [Services -> NodePorts \cup {None}]
  /\ stable # None => stable \in [site : Sites, faults : Nat] /\ stable.faults <= faults

Passed(x, y, z, w) == Known(site, x, y) /\ Later(x, y, z, w)

\* The list has the entries before z, w, and the last of a service in the
\* list is the last of that service in the ingress.
PortsUpTo(z, w) ==
  /\ \A x, y \in Nat : Passed(x, y, z, w) => \E i \in 1..Len(ports) : ports[i] = At(site, x, y)
  /\ \A i \in 1..Len(ports) : \E x, y \in Nat :
       /\ Passed(x, y, z, w) /\ ports[i] = At(site, x, y)
       /\ (\A l \in 1..Len(ports) : l > i => ports[l].svc # ports[i].svc) =>
            \A p, q \in Nat : Passed(p, q, z, w) /\ At(site, p, q).svc = ports[i].svc
                                => ~Later(x, y, p, q)
ListDone == PortsUpTo(Len(site.rules) + 1, 1)

Port(i) == GetServiceNodePort(ports[i])

\* The resource of an entry of the list belongs to its service.
Holds(res, i) == /\ res[Port(i)] # None /\ res[Port(i)].svc = ports[i].svc
                 /\ OneNamePerPort(site) => res[Port(i)] = ports[i]
HealthUpTo(n) == \A i \in 1..n-1 : Port(i) \in hcMap /\ Holds(hc, i)
BackendsUpTo(n) ==
  /\ \A i \in 1..n-1 : beMap[ports[i].svc] # None /\ Holds(be, i)
  /\ \A v \in Services : beMap[v] # None =>
       \E i \in 1..n-1 : /\ ports[i].svc = v /\ beMap[v] = Port(i)
                         /\ \A l \in 1..n-1 : l > i => ports[l].svc # v
AllEnsured == HealthUpTo(Len(ports) + 1) /\ BackendsUpTo(Len(ports) + 1)

MatcherUpTo(m, r, n, port) ==
  /\ DOMAIN m = {PathOf(r.paths[y]) : y \in 1..n-1} /\ m = [u \in DOMAIN m |-> m[u]]
  /\ \A u \in DOMAIN m : \E y \in 1..n-1 :
       /\ PathOf(r.paths[y]) = u /\ m[u] = port[r.paths[y].be.svc]
       /\ \A z \in 1..n-1 : z > y => PathOf(r.paths[z]) # u

RulesBefore(s, n) == {x \in HTTPRules(s) : x < n}
RoutesUpTo(m, s, n, port) ==
  /\ DOMAIN m = {HostOf(s.rules[x]) : x \in RulesBefore(s, n)}
  /\ m = [h \in DOMAIN m |-> m[h]]
  /\ \A h \in DOMAIN m : \E x \in RulesBefore(s, n) :
       /\ HostOf(s.rules[x]) = h
       /\ MatcherUpTo(m[h], s.rules[x], Len(s.rules[x].paths) + 1, port)
       /\ \A z \in RulesBefore(s, n) : z > x => HostOf(s.rules[z]) # h

\* Every route is to a backend of the ingress.
WantedListed == \A h \in DOMAIN Wanted(site) : \A u \in DOMAIN Wanted(site)[h] :
                  Wanted(site)[h][u] \in BackendsOf(site)

\* A url map for the ingress, its lists in some order.
MadeFor(m, s, port) ==
  /\ m = [default |-> port[s.backend.svc], rules |-> RoutesFor(s, port), order |-> m.order]
  /\ m.order \in Orders(RoutesFor(s, port))

\* The maps are still empty.
NoRoutes == matcher = Empty /\ routes = Empty
NoBackends == beMap = [s \in Services |-> None]

WorkInv ==
  /\ pc = "idle" => NoRoutes /\ NoBackends /\ k = 1 /\ j = 1 /\ ~err
  /\ pc = "ports" => /\ NoRoutes /\ NoBackends /\ ~err /\ PortsUpTo(k, j)
                     /\ k <= Len(site.rules) + 1 /\ (k > Len(site.rules) => j = 1)
  /\ pc = "health" => /\ NoRoutes /\ NoBackends /\ j = 1 /\ ListDone
                      /\ k <= Len(ports) + 1
                      /\ ~err => HealthUpTo(k)
  /\ pc = "backends" => /\ NoRoutes /\ j = 1 /\ ListDone
                        /\ k <= Len(ports) + 1
                        /\ ~err => HealthUpTo(Len(ports) + 1) /\ BackendsUpTo(k)
  /\ pc = "rules" => /\ ListDone
                     /\ k <= Len(site.rules) + 1
                     /\ k <= Len(site.rules) =>
                          j <= (IF Rule.http THEN Len(Rule.paths) + 1 ELSE 1)
                     /\ ~err => /\ AllEnsured /\ RoutesUpTo(routes, site, k, beMap)
                                /\ k <= Len(site.rules) => MatcherUpTo(matcher, Rule, j, beMap)
  /\ pc = "urlMap" => /\ ListDone
                      /\ ~err => /\ AllEnsured
                                 /\ RoutesUpTo(routes, site, Len(site.rules) + 1, beMap)
  /\ pc = "done" => /\ ListDone
                    /\ ~err =>
                         /\ AllEnsured
                         /\ site.backend # None
                         /\ \A b \in BackendsOf(site) : beMap[b.svc] # None
                         /\ WantedListed
                         /\ MadeFor(um, site, beMap)

\* The cloud has what a create for the ingress makes.
Settled ==
  /\ site.backend # None
  /\ \A b \in BackendsOf(site) : \E n \in NodePorts : LastPort(site, b.svc, n)
  /\ \A x, y \in Nat : Known(site, x, y) =>
       LET b == At(site, x, y) IN hc[GetServiceNodePort(b)] = b /\ be[GetServiceNodePort(b)] = b
  /\ MadeFor(um, site, Targets(site))

\* The running create repeats the last one, and no call has failed since.
Again == /\ stable # None /\ stable.site = site
         /\ OneNamePerPort(site) /\ OneOrder(site)
         /\ pc = "idle" \/ stable.faults = faults
StableInv == /\ stable # None /\ pc = "idle" => stable.site = site
             /\ Again => Settled /\ ~err

RoutingInv == RoutingTypeOK /\ WorkInv /\ StableInv

-----------------------------------------------------------------------------
\* What the constants are.
LEMMA SiteShape ==
  ASSUME NEW s \in Sites
  PROVE  /\ s.backend \in Backends \cup {None}
         /\ Len(s.rules) \in Nat /\ DOMAIN s.rules = 1..Len(s.rules)
         /\ \A x \in 1..Len(s.rules) : s.rules[x] \in Rules
<1>1. s \in [backend : Backends \cup {None}, rules : Seq(Rules)]
  BY RoutingAssumption
<1>2. s.backend \in Backends \cup {None} /\ s.rules \in Seq(Rules)
  BY <1>1
<1> QED BY <1>2, LenProperties, ElementOfSeq

LEMMA RuleShape ==
  ASSUME NEW r \in Rules
  PROVE  /\ r.http \in BOOLEAN
         /\ Len(r.paths) \in Nat /\ DOMAIN r.paths = 1..Len(r.paths)
         /\ \A y \in 1..Len(r.paths) : r.paths[y] \in HTTPPaths /\ r.paths[y].be \in Backends
                                        /\ r.paths[y].be.svc \in Services
<1>1. r.http \in BOOLEAN /\ r.paths \in Seq(HTTPPaths)
  BY DEF Rules
<1>2. /\ Len(r.paths) \in Nat /\ DOMAIN r.paths = 1..Len(r.paths)
      /\ \A y \in 1..Len(r.paths) : r.paths[y] \in HTTPPaths
  BY <1>1, LenProperties, ElementOfSeq
<1>3. \A p \in HTTPPaths : p.be \in Backends /\ p.be.svc \in Services
  BY DEF HTTPPaths, Backends
<1> QED BY <1>1, <1>2, <1>3

\* The port that is found is one of the service.
LEMMA NodePortFound ==
  ASSUME table \in Tables, NEW b \in Backends, GetServiceNodePort(b) # None
  PROVE  /\ GetServiceNodePort(b) \in NodePorts
         /\ b.svc \in Services
         /\ \E x \in DOMAIN table[b.svc] : table[b.svc][x].node = GetServiceNodePort(b)
<1> DEFINE l == table[b.svc]
<1>1. b.svc \in Services
  BY DEF Backends
<1>2. l \in Seq(ServicePorts)
  BY <1>1, RoutingAssumption
<1> DEFINE z == CHOOSE x \in DOMAIN l : First(l, b.port, x)
<1>3. PICK y \in DOMAIN l : First(l, b.port, y)
  BY DEF GetServiceNodePort, PortIn
<1>4. z \in DOMAIN l
  BY <1>3, Zenon
<1>5. GetServiceNodePort(b) = l[z].node
  BY <1>3 DEF GetServiceNodePort, PortIn
<1> HIDE DEF z, l
<1>6. l[z] \in ServicePorts
  BY <1>2, <1>4, LenProperties, ElementOfSeq
<1>7. l[z].node \in NodePorts
  BY <1>6 DEF ServicePorts
<1> QED BY <1>1, <1>4, <1>5, <1>7 DEF l

\* Backends with the same port are of the same service.
LEMMA OneService ==
  ASSUME table \in Tables, NEW b \in Backends, NEW c \in Backends,
         GetServiceNodePort(b) # None, GetServiceNodePort(b) = GetServiceNodePort(c)
  PROVE  b.svc = c.svc
<1>1. b.svc \in Services /\ \E x \in DOMAIN table[b.svc] : table[b.svc][x].node = GetServiceNodePort(b)
  BY NodePortFound
<1>2. c.svc \in Services /\ \E x \in DOMAIN table[c.svc] : table[c.svc][x].node = GetServiceNodePort(c)
  BY NodePortFound
<1>3. \A r, s \in Services : \A x \in DOMAIN table[r], y \in DOMAIN table[s] :
        table[r][x].node = table[s][y].node => r = s
  BY RoutingAssumption
<1> QED BY <1>1, <1>2, <1>3

\* Entries are the backends of the ingress.
LEMMA EntryBackend ==
  ASSUME NEW s \in Sites, NEW x \in Nat, NEW y \in Nat, Entry(s, x, y)
  PROVE  At(s, x, y) \in BackendsOf(s) /\ At(s, x, y) \in Backends /\ At(s, x, y) # None
<1>1. CASE x = 0 /\ s.backend # None
  BY <1>1, SiteShape DEF At, BackendsOf
<1>2. CASE x \in HTTPRules(s) /\ y \in DOMAIN s.rules[x].paths
  <2>1. x \in 1..Len(s.rules) /\ s.rules[x] \in Rules /\ x # 0
    BY <1>2, SiteShape DEF HTTPRules
  <2>2. s.rules[x].paths[y].be \in Backends
    BY <1>2, <2>1, RuleShape
  <2>3. At(s, x, y) = s.rules[x].paths[y].be
    BY <2>1 DEF At
  <2>4. s.rules[x].paths[y].be \in BackendsOf(s)
    BY <1>2 DEF BackendsOf
  <2> QED BY <2>2, <2>3, <2>4, RoutingAssumption
<1> QED BY <1>1, <1>2 DEF Entry

LEMMA BackendEntry ==
  ASSUME NEW s \in Sites, NEW b \in BackendsOf(s)
  PROVE  \E x, y \in Nat : Entry(s, x, y) /\ b = At(s, x, y)
<1>1. CASE b = s.backend /\ b # None
  BY <1>1 DEF Entry, At
<1>2. ASSUME NEW x \in HTTPRules(s), NEW y \in DOMAIN s.rules[x].paths,
             b = s.rules[x].paths[y].be
      PROVE  \E z, w \in Nat : Entry(s, z, w) /\ b = At(s, z, w)
  <2>1. x \in 1..Len(s.rules) /\ s.rules[x] \in Rules
    BY SiteShape DEF HTTPRules
  <2>2. x \in Nat /\ x # 0
    BY <2>1, SiteShape
  <2>3. y \in Nat
    BY <2>1, RuleShape
  <2>4. Entry(s, x, y) /\ b = At(s, x, y)
    BY <1>2, <2>2 DEF Entry, At
  <2> QED BY <2>2, <2>3, <2>4
<1> QED BY <1>1, <1>2 DEF BackendsOf

\* A service has one last entry, hence one port.
LEMMA LastPortUnique ==
  ASSUME NEW s \in Sites, NEW v, NEW m, NEW n, LastPort(s, v, m), LastPort(s, v, n)
  PROVE  m = n
<1>1. PICK x, y \in Nat : LastOf(s, v, x, y) /\ m = GetServiceNodePort(At(s, x, y))
  BY DEF LastPort
<1>2. PICK z, w \in Nat : LastOf(s, v, z, w) /\ n = GetServiceNodePort(At(s, z, w))
  BY DEF LastPort
<1>3. ~Later(x, y, z, w) /\ ~Later(z, w, x, y)
  BY <1>1, <1>2 DEF LastOf
<1>4. x = z /\ y = w
  BY <1>3 DEF Later
<1> QED BY <1>1, <1>2, <1>4

LEMMA LastPortPort ==
  ASSUME table \in Tables, NEW s \in Sites, NEW v, NEW n, LastPort(s, v, n)
  PROVE  n \in NodePorts
<1>1. PICK x, y \in Nat : LastOf(s, v, x, y) /\ n = GetServiceNodePort(At(s, x, y))
  BY DEF LastPort
<1>2. At(s, x, y) \in Backends /\ n # None
  BY <1>1, EntryBackend DEF LastOf, Known
<1> QED BY <1>1, <1>2, NodePortFound

LEMMA TargetIs ==
  ASSUME table \in Tables, NEW s \in Sites, NEW v \in Services, NEW n, LastPort(s, v, n)
  PROVE  Targets(s)[v] = n
<1> DEFINE t == CHOOSE m \in NodePorts : LastPort(s, v, m)
<1>1. n \in NodePorts
  BY LastPortPort
<1>2. LastPort(s, v, t)
  BY <1>1, Zenon
<1>3. Targets(s)[v] = t
  BY DEF Targets
<1> HIDE DEF t
<1>4. t = n
  BY <1>2, LastPortUnique
<1> QED BY <1>3, <1>4

-----------------------------------------------------------------------------
\* At the end of a rule its matcher is the one that the rule asks for.
LEMMA MatcherComplete ==
  ASSUME NEW r \in Rules, NEW m, NEW port, MatcherUpTo(m, r, Len(r.paths) + 1, port)
  PROVE  /\ m = MatcherFor(r, port)
         /\ \A u \in DOMAIN WantedOf(r) : LastPath(r, u) \in DOMAIN r.paths
<1>1. Len(r.paths) \in Nat /\ DOMAIN r.paths = 1..Len(r.paths)
  BY RuleShape
<1>2. 1..(Len(r.paths) + 1) - 1 = DOMAIN r.paths
  BY <1>1
<1>3. DOMAIN m = DOMAIN WantedOf(r)
  BY <1>2 DEF MatcherUpTo, WantedOf
<1>4. ASSUME NEW u \in DOMAIN m
      PROVE  m[u] = port[WantedOf(r)[u].svc] /\ LastPath(r, u) \in DOMAIN r.paths
  <2> DEFINE Last(x) == /\ PathOf(r.paths[x]) = u
                        /\ \A y \in DOMAIN r.paths : y > x => PathOf(r.paths[y]) # u
             z == CHOOSE x \in DOMAIN r.paths : Last(x)
  <2>1. PICK y \in DOMAIN r.paths : Last(y) /\ m[u] = port[r.paths[y].be.svc]
    BY <1>2, <1>4 DEF MatcherUpTo
  <2>2. z \in DOMAIN r.paths /\ Last(z)
    BY <2>1, Zenon
  <2>3. z = LastPath(r, u)
    BY DEF LastPath
  <2> HIDE DEF z
  <2>4. z = y
    <3>1. ~(z > y) /\ ~(y > z)
      BY <2>1, <2>2
    <3> QED BY <1>1, <2>1, <2>2, <3>1
  <2>5. WantedOf(r)[u] = r.paths[z].be
    BY <1>3, <2>3 DEF WantedOf
  <2> QED BY <2>1, <2>2, <2>3, <2>4, <2>5
<1>5. m = [u \in DOMAIN m |-> m[u]]
  BY DEF MatcherUpTo
<1> QED BY <1>3, <1>4, <1>5 DEF MatcherFor

\* At the end of the rules the routes are the ones that the ingress asks for.
LEMMA RoutesComplete ==
  ASSUME NEW s \in Sites, NEW m, NEW port, RoutesUpTo(m, s, Len(s.rules) + 1, port)
  PROVE  /\ m = RoutesFor(s, port)
         /\ \A h \in DOMAIN Wanted(s) : \A u \in DOMAIN Wanted(s)[h] :
              Wanted(s)[h][u] \in BackendsOf(s)
<1> DEFINE n == Len(s.rules) + 1
<1>1. /\ RulesBefore(s, n) = HTTPRules(s) /\ HTTPRules(s) \subseteq 1..Len(s.rules)
      /\ Len(s.rules) \in Nat
  BY SiteShape DEF RulesBefore, HTTPRules
<1>2. DOMAIN m = DOMAIN Wanted(s)
  BY <1>1 DEF RoutesUpTo, Wanted
<1>3. ASSUME NEW h \in DOMAIN m
      PROVE  /\ m[h] = MatcherFor(s.rules[LastRule(s, h)], port)
             /\ \A u \in DOMAIN Wanted(s)[h] : Wanted(s)[h][u] \in BackendsOf(s)
  <2> DEFINE Last(x) == /\ HostOf(s.rules[x]) = h
                        /\ \A y \in HTTPRules(s) : y > x => HostOf(s.rules[y]) # h
             z == CHOOSE x \in HTTPRules(s) : Last(x)
  <2>1. PICK y \in HTTPRules(s) :
          Last(y) /\ MatcherUpTo(m[h], s.rules[y], Len(s.rules[y].paths) + 1, port)
    BY <1>1, <1>3 DEF RoutesUpTo
  <2>2. z \in HTTPRules(s) /\ Last(z)
    BY <2>1, Zenon
  <2>3. z = LastRule(s, h)
    BY DEF LastRule
  <2> HIDE DEF z
  <2>4. z = y
    <3>1. ~(z > y) /\ ~(y > z)
      BY <2>1, <2>2
    <3> QED BY <1>1, <2>1, <2>2, <3>1
  <2>5. s.rules[y] \in Rules
    BY <1>1, <2>1, SiteShape
  <2>6. /\ m[h] = MatcherFor(s.rules[y], port)
        /\ \A u \in DOMAIN WantedOf(s.rules[y]) :
             LastPath(s.rules[y], u) \in DOMAIN s.rules[y].paths
    BY <2>1, <2>5, MatcherComplete
  <2>7. Wanted(s)[h] = WantedOf(s.rules[y])
    BY <1>2, <1>3, <2>3, <2>4 DEF Wanted
  <2>8. ASSUME NEW u \in DOMAIN WantedOf(s.rules[y])
        PROVE  WantedOf(s.rules[y])[u] \in BackendsOf(s)
    <3>1. WantedOf(s.rules[y])[u] = s.rules[y].paths[LastPath(s.rules[y], u)].be
      BY <2>8 DEF WantedOf
    <3> QED BY <2>1, <2>6, <2>8, <3>1 DEF BackendsOf
  <2> QED BY <2>3, <2>4, <2>6, <2>7, <2>8
<1>4. m = [h \in DOMAIN m |-> m[h]]
  BY DEF RoutesUpTo
<1> QED BY <1>2, <1>3, <1>4 DEF RoutesFor

\* At the end of the list, every entry is passed.
LEMMA AllPassed ==
  ASSUME site \in Sites, NEW x \in Nat, NEW y \in Nat
  PROVE  Passed(x, y, Len(site.rules) + 1, 1) <=> Known(site, x, y)
BY SiteShape DEF Passed, Known, Entry, Later, HTTPRules

\* The map of backend services has the port of the last entry of a service,
\* for every service of the ingress with a port.
LEMMA BackendMapLast ==
  ASSUME RoutingTypeOK, ListDone, BackendsUpTo(Len(ports) + 1),
         NEW v \in Services, beMap[v] # None
  PROVE  LastPort(site, v, beMap[v])
<1> DEFINE n == Len(site.rules) + 1
<1>1. site \in Sites /\ Len(ports) \in Nat
  BY LenProperties DEF RoutingTypeOK
<1>2. PICK i \in 1..Len(ports) : /\ ports[i].svc = v /\ beMap[v] = Port(i)
                                 /\ \A l \in 1..Len(ports) : l > i => ports[l].svc # v
  BY <1>1 DEF BackendsUpTo
<1>3. PICK x, y \in Nat :
        /\ Passed(x, y, n, 1) /\ ports[i] = At(site, x, y)
        /\ \A p, q \in Nat : Passed(p, q, n, 1) /\ At(site, p, q).svc = v => ~Later(x, y, p, q)
  BY <1>2 DEF ListDone, PortsUpTo
<1>4. \A p, q \in Nat : Passed(p, q, n, 1) <=> Known(site, p, q)
  BY <1>1, AllPassed
<1> HIDE DEF n
<1>5. LastOf(site, v, x, y)
  BY <1>2, <1>3, <1>4 DEF LastOf
<1> QED BY <1>2, <1>3, <1>5 DEF LastPort, Port

LEMMA BackendMapComplete ==
  ASSUME RoutingTypeOK, ListDone, BackendsUpTo(Len(ports) + 1),
         NEW x \in Nat, NEW y \in Nat, Known(site, x, y)
  PROVE  beMap[At(site, x, y).svc] # None
<1>1. site \in Sites /\ Len(ports) \in Nat
  BY LenProperties DEF RoutingTypeOK
<1>2. PICK i \in 1..Len(ports) : ports[i] = At(site, x, y)
  BY <1>1, AllPassed DEF ListDone, PortsUpTo
<1> QED BY <1>1, <1>2 DEF BackendsUpTo

\* Every element of the list is a known entry.
LEMMA ListedKnown ==
  ASSUME RoutingTypeOK, NEW z, NEW w, PortsUpTo(z, w), NEW i \in 1..Len(ports)
  PROVE  /\ ports[i] \in Backends /\ ports[i] # None /\ ports[i].svc \in Services
         /\ ports[i] \in BackendsOf(site)
         /\ Port(i) # None /\ Port(i) \in NodePorts
         /\ \E x, y \in Nat : Known(site, x, y) /\ ports[i] = At(site, x, y)
<1>1. PICK x, y \in Nat : Known(site, x, y) /\ ports[i] = At(site, x, y)
  BY DEF PortsUpTo, Passed
<1>2. site \in Sites /\ table \in Tables
  BY DEF RoutingTypeOK
<1>3. ports[i] \in Backends /\ ports[i] # None /\ ports[i] \in BackendsOf(site)
  BY <1>1, <1>2, EntryBackend DEF Known
<1>4. Port(i) # None
  BY <1>1 DEF Known, Port
<1>5. Port(i) \in NodePorts /\ ports[i].svc \in Services
  BY <1>2, <1>3, <1>4, NodePortFound DEF Port
<1> QED BY <1>1, <1>3, <1>4, <1>5

-----------------------------------------------------------------------------
\* How an ensure method ends here.
LEMMA EnsureHere ==
  ASSUME force \in BOOLEAN, NEW cur, NEW b, NEW o \in ensure(cur, b)
  PROVE  /\ o.err \in BOOLEAN /\ o.fault \in BOOLEAN /\ o.res \in {cur, b}
         /\ ~o.err => o.res = b
         /\ cur = b /\ ~o.fault => ~o.err
<1>1. EnsureEnds(cur, b, force, o)
  BY PlainEnsureEnds DEF ensure
<1>2. CASE cur = None /\ o \in Create(cur, b)
  <2>1. o \in Outcomes({cur, b}) /\ (~o.err => o.res = b) /\ (o.err => o.fault)
    BY <1>2, CreateOutcome
  <2> QED BY <2>1 DEF Outcomes
<1>3. CASE o \in Faulty({cur})
  <2>1. o \in Outcomes({cur}) /\ o.err /\ o.fault
    BY <1>3, FaultyOutcome
  <2> QED BY <2>1 DEF Outcomes
<1>4. CASE cur # b /\ o = Refused(cur)
  <2>1. o \in Outcomes({cur}) /\ o.err
    BY <1>4, AnsweredOutcome
  <2> QED BY <1>4, <2>1 DEF Outcomes
<1>5. CASE cur = b /\ o = Ok(cur)
  <2>1. o \in Outcomes({cur}) /\ ~o.err /\ o.res = cur
    BY <1>5, AnsweredOutcome
  <2> QED BY <1>5, <2>1 DEF Outcomes
<1>6. CASE o \in Call(cur, b)
  <2>1. o \in Outcomes({cur, b}) /\ (~o.err => o.res = b) /\ (o.err => o.fault)
    BY <1>6, CallOutcome
  <2> QED BY <2>1 DEF Outcomes
<1> QED BY <1>1, <1>2, <1>3, <1>4, <1>5, <1>6 DEF EnsureEnds

\* What a loop has done is not undone by steps that leave its variables alone.
LEMMA ListKept ==
  ASSUME UNCHANGED <<site, ports, table>>
  PROVE  ListDone' <=> ListDone
BY DEF ListDone, PortsUpTo, Passed, Known, Entry, At, GetServiceNodePort

LEMMA HealthKept ==
  ASSUME UNCHANGED <<site, ports, table, hc, hcMap>>, NEW n
  PROVE  HealthUpTo(n)' <=> HealthUpTo(n)
BY DEF HealthUpTo, Holds, Port, OneNamePerPort, GetServiceNodePort

LEMMA BackendsKept ==
  ASSUME UNCHANGED <<site, ports, table, be, beMap>>, NEW n
  PROVE  BackendsUpTo(n)' <=> BackendsUpTo(n)
BY DEF BackendsUpTo, Holds, Port, OneNamePerPort, GetServiceNodePort

LEMMA EnsuredKept ==
  ASSUME UNCHANGED <<site, ports, table, hc, hcMap, be, beMap>>
  PROVE  AllEnsured' <=> AllEnsured
<1>1. (HealthUpTo(Len(ports) + 1))' <=> HealthUpTo(Len(ports) + 1)
  BY DEF HealthUpTo, Holds, Port, OneNamePerPort, GetServiceNodePort
<1>2. (BackendsUpTo(Len(ports) + 1))' <=> BackendsUpTo(Len(ports) + 1)
  BY DEF BackendsUpTo, Holds, Port, OneNamePerPort, GetServiceNodePort
<1> QED BY <1>1, <1>2 DEF AllEnsured

\* What is settled stays so while the cloud, the services and the ingress do.
LEMMA SettledKept ==
  ASSUME Settled, UNCHANGED <<table, site, cloud>>
  PROVE  Settled'
<1>1. ASSUME NEW v, NEW n PROVE LastPort(site, v, n)' <=> LastPort(site, v, n)
  BY DEF LastPort, LastOf, Known, Entry, At, GetServiceNodePort
<1>2. Targets(site)' = Targets(site)
  BY <1>1 DEF Targets
<1>3. (\A x, y \in Nat : Known(site, x, y) =>
       LET b == At(site, x, y) IN hc[GetServiceNodePort(b)] = b /\ be[GetServiceNodePort(b)] = b)'
  BY DEF Settled, cloud, Known, GetServiceNodePort
<1>4. (\A b \in BackendsOf(site) : \E n \in NodePorts : LastPort(site, b.svc, n))'
  <2> SUFFICES ASSUME NEW b \in BackendsOf(site)
               PROVE  \E n \in NodePorts : LastPort(site, b.svc, n)'
    OBVIOUS
  <2>1. PICK n \in NodePorts : LastPort(site, b.svc, n)
    BY DEF Settled
  <2>2. LastPort(site, b.svc, n)'
    BY <1>1, <2>1
  <2> QED BY <2>2
<1>5. MadeFor(um, site, Targets(site))'
  BY <1>2 DEF Settled, cloud, MadeFor
<1>6. (site.backend # None)'
  BY DEF Settled
<1> QED BY <1>3, <1>4, <1>5, <1>6 DEF Settled

\* A create that repeats the last one finds everything settled, as long as its
\* steps leave the cloud alone and report no error.
LEMMA StableKept ==
  ASSUME RoutingTypeOK, StableInv, pc # "idle", pc' # "idle",
         UNCHANGED <<table, site, stable>>, faults' \in {faults, faults + 1},
         Again /\ faults' = faults => UNCHANGED cloud /\ ~err'
  PROVE  StableInv'
<1>1. SUFFICES ASSUME Again' PROVE Settled' /\ ~err'
  BY DEF StableInv
<1>2. stable.faults \in Nat /\ stable.faults <= faults /\ faults \in Nat
  BY <1>1 DEF Again, RoutingTypeOK
<1>3. stable.faults = faults'
  BY <1>1 DEF Again
<1>4. faults' = faults
  BY <1>2, <1>3
<1>5. Again
  BY <1>1, <1>3, <1>4 DEF Again, OneNamePerPort, GetServiceNodePort
<1>6. Settled /\ UNCHANGED cloud /\ ~err'
  BY <1>4, <1>5 DEF StableInv
<1> QED BY <1>6, SettledKept

-----------------------------------------------------------------------------
LEMMA InitRouting == Init => RoutingInv
<1> SUFFICES ASSUME Init PROVE RoutingInv
  OBVIOUS
<1>1. RoutingTypeOK
  <2>1. ports \in Seq(Backends)
    BY EmptySeq DEF Init
  <2>2. beMap \in [Services -> NodePorts \cup {None}]
    BY DEF Init
  <2>3. hc \in [NodePorts -> Backends \cup {None}] /\ be \in [NodePorts -> Backends \cup {None}]
    BY DEF Init
  <2>4. /\ table \in Tables /\ site \in Sites /\ pc = "idle" /\ force = FALSE /\ err = FALSE
        /\ k = 1 /\ j = 1 /\ hcMap = {} /\ stable = None /\ faults = 0
    BY DEF Init
  <2>5. pc \in {"idle", "ports", "health", "backends", "rules", "urlMap", "done"}
    BY <2>4
  <2>6. force \in BOOLEAN /\ err \in BOOLEAN /\ faults \in Nat
    BY <2>4
  <2>7. k \in Nat \ {0} /\ j \in Nat \ {0}
    BY <2>4
  <2>8. hcMap \subseteq NodePorts
    BY <2>4
  <2>9. stable # None => stable \in [site : Sites, faults : Nat] /\ stable.faults <= faults
    BY <2>4
  <2> QED BY <2>1, <2>2, <2>3, <2>4, <2>5, <2>6, <2>7, <2>8, <2>9 DEF RoutingTypeOK
<1>2. WorkInv
  BY DEF Init, WorkInv, NoRoutes, NoBackends
<1>3. StableInv
  BY DEF Init, StableInv, Again
<1> QED BY <1>1, <1>2, <1>3 DEF RoutingInv

\* The list grows by backends that have a port.
LEMMA ListedType ==
  ASSUME NEW list \in Seq(Backends), NEW b \in Backends \cup {None}
  PROVE  Listed(list, b) \in Seq(Backends)
BY AppendProperties DEF Listed

LEMMA RunRouting ==
  ASSUME RoutingInv, NEW s \in Sites, NEW f \in BOOLEAN, Run(s, f)
  PROVE  RoutingInv'
<1>1. /\ pc = "idle" /\ pc' = "ports" /\ site' = s /\ force' = f
      /\ ports' = Listed(<<>>, s.backend)
      /\ UNCHANGED <<cloud, table, k, j, hcMap, beMap, matcher, routes, err, stable, faults>>
  BY DEF Run
<1>2. RoutingTypeOK /\ WorkInv /\ StableInv
  BY DEF RoutingInv
<1>3. s.backend \in Backends \cup {None} /\ Len(s.rules) \in Nat /\ DOMAIN s.rules = 1..Len(s.rules)
  BY SiteShape
<1>4. ports' \in Seq(Backends)
  BY <1>1, <1>3, EmptySeq, ListedType
<1>5. RoutingTypeOK'
  BY <1>1, <1>2, <1>4 DEF RoutingTypeOK, cloud
<1>6. k = 1 /\ j = 1 /\ NoRoutes /\ NoBackends /\ ~err
  BY <1>1, <1>2 DEF WorkInv
<1>7. PortsUpTo(1, 1)'
  <2>1. ASSUME NEW x \in Nat, NEW y \in Nat
        PROVE  Passed(x, y, 1, 1)' <=> /\ x = 0 /\ y = 0 /\ s.backend # None
                                       /\ GetServiceNodePort(s.backend) # None
    <3>1. x \in HTTPRules(s) /\ y \in DOMAIN s.rules[x].paths => ~Later(x, y, 1, 1)
      <4>1. x \in HTTPRules(s) => x \in 1..Len(s.rules) /\ s.rules[x] \in Rules
        BY <1>3, SiteShape DEF HTTPRules
      <4>2. x \in HTTPRules(s) => DOMAIN s.rules[x].paths = 1..Len(s.rules[x].paths)
        BY <4>1, RuleShape
      <4> QED BY <1>3, <4>1, <4>2 DEF Later
    <3>2. Later(0, 0, 1, 1)
      BY DEF Later
    <3> QED BY <1>1, <3>1, <3>2 DEF Passed, Known, Entry, At, GetServiceNodePort, HTTPRules
  <2>2. CASE s.backend = None \/ GetServiceNodePort(s.backend) = None
    <3>1. ports' = <<>> /\ Len(ports') = 0
      BY <1>1, <2>2 DEF Listed
    <3>2. \A x, y \in Nat : ~Passed(x, y, 1, 1)'
      BY <2>1, <2>2
    <3> QED BY <3>1, <3>2 DEF PortsUpTo
  <2>3. CASE s.backend # None /\ GetServiceNodePort(s.backend) # None
    <3>1. ports' = <<s.backend>> /\ Len(ports') = 1 /\ ports'[1] = s.backend
      BY <1>1, <2>3 DEF Listed
    <3>2. At(site, 0, 0)' = s.backend
      BY <1>1 DEF At
    <3>3. Passed(0, 0, 1, 1)'
      BY <2>1, <2>3
    <3>4. \A p, q \in Nat : Passed(p, q, 1, 1)' => p = 0 /\ q = 0
      BY <2>1
    <3>5. ~Later(0, 0, 0, 0)
      BY DEF Later
    <3>6. (\A x, y \in Nat : Passed(x, y, 1, 1) => \E i \in 1..Len(ports) : ports[i] = At(site, x, y))'
      BY <3>1, <3>2, <3>4
    <3>7. \E x, y \in Nat :
             /\ Passed(x, y, 1, 1)' /\ s.backend = At(site, x, y)'
             /\ \A p, q \in Nat : Passed(p, q, 1, 1)' => ~Later(x, y, p, q)
      <4> WITNESS 0 \in Nat, 0 \in Nat
      <4> QED BY <3>2, <3>3, <3>4, <3>5
    <3> QED BY <3>1, <3>6, <3>7 DEF PortsUpTo
  <2> QED BY <2>2, <2>3
<1>8. WorkInv'
  BY <1>1, <1>3, <1>6, <1>7 DEF WorkInv, NoRoutes, NoBackends
<1>9. StableInv'
  <2>1. SUFFICES ASSUME Again' PROVE Settled' /\ ~err'
    BY <1>1 DEF StableInv
  <2>2. site' = site
    BY <1>1, <1>2, <2>1 DEF StableInv, Again
  <2>3. Again
    BY <1>1, <2>1, <2>2 DEF Again, OneNamePerPort, GetServiceNodePort
  <2> QED BY <1>1, <1>2, <2>2, <2>3, SettledKept DEF StableInv
<1> QED BY <1>5, <1>8, <1>9 DEF RoutingInv

-----------------------------------------------------------------------------
\* The loop over the rules that lists the ports comes to position k, j.
LEMMA RuleHere ==
  ASSUME RoutingTypeOK, k <= Len(site.rules)
  PROVE  /\ k \in 1..Len(site.rules) /\ Rule \in Rules /\ Len(site.rules) \in Nat
         /\ Rule.http <=> k \in HTTPRules(site)
         /\ Rule.http \in BOOLEAN
         /\ Len(Rule.paths) \in Nat /\ DOMAIN Rule.paths = 1..Len(Rule.paths)
         /\ \A y \in 1..Len(Rule.paths) : /\ Rule.paths[y].be \in Backends
                                          /\ Rule.paths[y].be.svc \in Services
         /\ k # 0 /\ j \in Nat \ {0}
<1>1. site \in Sites /\ k \in Nat \ {0} /\ j \in Nat \ {0}
  BY DEF RoutingTypeOK
<1>2. /\ Len(site.rules) \in Nat /\ DOMAIN site.rules = 1..Len(site.rules)
      /\ \A x \in 1..Len(site.rules) : site.rules[x] \in Rules
  BY <1>1, SiteShape
<1>3. k \in 1..Len(site.rules)
  BY <1>1, <1>2
<1>4. Rule \in Rules
  BY <1>2, <1>3 DEF Rule
<1>5. Rule.http <=> k \in HTTPRules(site)
  BY <1>2, <1>3 DEF HTTPRules, Rule
<1>6. /\ Rule.http \in BOOLEAN
      /\ Len(Rule.paths) \in Nat /\ DOMAIN Rule.paths = 1..Len(Rule.paths)
      /\ \A y \in 1..Len(Rule.paths) : /\ Rule.paths[y].be \in Backends
                                       /\ Rule.paths[y].be.svc \in Services
  BY <1>4, RuleShape
<1> QED BY <1>1, <1>2, <1>3, <1>4, <1>5, <1>6

\* Positions of entries are natural numbers, 0 only for the default backend.
LEMMA EntryPosition ==
  ASSUME NEW s \in Sites, NEW x \in Nat, NEW y \in Nat, Entry(s, x, y)
  PROVE  \/ x = 0 /\ y = 0
         \/ x \in 1..Len(s.rules) /\ x \in HTTPRules(s) /\ y \in 1..Len(s.rules[x].paths)
<1>1. CASE x \in HTTPRules(s) /\ y \in DOMAIN s.rules[x].paths
  <2>1. x \in 1..Len(s.rules) /\ s.rules[x] \in Rules
    BY <1>1, SiteShape DEF HTTPRules
  <2>2. DOMAIN s.rules[x].paths = 1..Len(s.rules[x].paths)
    BY <2>1, RuleShape
  <2> QED BY <1>1, <2>1, <2>2
<1> QED BY <1>1 DEF Entry

\* The loop passes a position where there is nothing to list.
LEMMA ListMoved ==
  ASSUME UNCHANGED <<site, ports, table>>, PortsUpTo(k, j),
         \A x, y \in Nat : Passed(x, y, k, j)' <=> Passed(x, y, k, j)
  PROVE  PortsUpTo(k, j)'
<1>1. \A x, y \in Nat : At(site, x, y)' = At(site, x, y)
  BY DEF At
<1>2. (\A x, y \in Nat : Passed(x, y, k, j) => \E i \in 1..Len(ports) : ports[i] = At(site, x, y))'
  BY <1>1 DEF PortsUpTo
<1>3. (\A i \in 1..Len(ports) : \E x, y \in Nat :
         /\ Passed(x, y, k, j) /\ ports[i] = At(site, x, y)
         /\ (\A l \in 1..Len(ports) : l > i => ports[l].svc # ports[i].svc) =>
              \A p, q \in Nat : Passed(p, q, k, j) /\ At(site, p, q).svc = ports[i].svc
                                  => ~Later(x, y, p, q))'
  <2> SUFFICES ASSUME NEW i \in 1..Len(ports)
               PROVE  \E x, y \in Nat :
                 /\ Passed(x, y, k, j)' /\ ports[i] = At(site, x, y)'
                 /\ (\A l \in 1..Len(ports) : l > i => ports[l].svc # ports[i].svc) =>
                      \A p, q \in Nat : Passed(p, q, k, j)' /\ At(site, p, q)'.svc = ports[i].svc
                                          => ~Later(x, y, p, q)
    OBVIOUS
  <2>1. PICK x, y \in Nat :
          /\ Passed(x, y, k, j) /\ ports[i] = At(site, x, y)
          /\ (\A l \in 1..Len(ports) : l > i => ports[l].svc # ports[i].svc) =>
               \A p, q \in Nat : Passed(p, q, k, j) /\ At(site, p, q).svc = ports[i].svc
                                   => ~Later(x, y, p, q)
    BY DEF PortsUpTo
  <2> QED BY <1>1, <2>1
<1> QED BY <1>2, <1>3 DEF PortsUpTo

LEMMA ListPathRouting ==
  ASSUME RoutingInv, listPath
  PROVE  RoutingInv'
<1>1. /\ pc = "ports" /\ k <= Len(site.rules) /\ Rule.http /\ j <= Len(Rule.paths)
      /\ ports' = Listed(ports, Rule.paths[j].be)
      /\ j' = j + 1
      /\ UNCHANGED <<cloud, table, pc, site, force, k, hcMap, beMap, matcher, routes,
                     err, stable, faults>>
  BY DEF listPath
<1>2. RoutingTypeOK /\ WorkInv /\ StableInv
  BY DEF RoutingInv
<1> DEFINE b == Rule.paths[j].be
<1>3. /\ k \in 1..Len(site.rules) /\ Len(site.rules) \in Nat /\ k \in HTTPRules(site)
      /\ Len(Rule.paths) \in Nat /\ j \in 1..Len(Rule.paths) /\ j \in DOMAIN Rule.paths
      /\ b \in Backends /\ k # 0 /\ j \in Nat /\ k \in Nat
  BY <1>1, <1>2, RuleHere
<1>4. b # None /\ ports \in Seq(Backends) /\ Len(ports) \in Nat /\ site \in Sites
  BY <1>2, <1>3, RoutingAssumption, LenProperties DEF RoutingTypeOK
<1>5. At(site, k, j) = b /\ Entry(site, k, j)
  BY <1>3 DEF At, Entry, Rule
<1> HIDE DEF b
<1>6. ports' = Listed(ports, b)
  BY <1>1 DEF b
<1>7. RoutingTypeOK'
  <2>1. ports' \in Seq(Backends)
    BY <1>3, <1>4, <1>6, ListedType
  <2>2. j' \in Nat \ {0}
    BY <1>1, <1>3
  <2> QED BY <1>1, <1>2, <2>1, <2>2 DEF RoutingTypeOK, cloud
<1>8. PortsUpTo(k, j)
  BY <1>1, <1>2 DEF WorkInv
<1>9. ASSUME NEW x \in Nat, NEW y \in Nat
      PROVE  /\ Passed(x, y, k, j)' <=>
                  Passed(x, y, k, j) \/ (x = k /\ y = j /\ GetServiceNodePort(b) # None)
             /\ At(site, x, y)' = At(site, x, y)
  <2>1. Passed(x, y, k, j)' <=> Known(site, x, y) /\ Later(x, y, k, j + 1)
    BY <1>1 DEF Passed, Known, Entry, At, GetServiceNodePort
  <2>2. Later(x, y, k, j + 1) <=> Later(x, y, k, j) \/ (x = k /\ y = j)
    BY <1>3 DEF Later
  <2>3. Known(site, k, j) <=> GetServiceNodePort(b) # None
    BY <1>5 DEF Known
  <2>4. At(site, x, y)' = At(site, x, y)
    BY <1>1 DEF At
  <2> QED BY <2>1, <2>2, <2>3, <2>4 DEF Passed
<1>10. \A p, q \in Nat : Passed(p, q, k, j)' => ~Later(k, j, p, q)
  BY <1>3, <1>9 DEF Passed, Later
<1>11. PortsUpTo(k, j)'
  <2>1. CASE GetServiceNodePort(b) = None
    <3>1. ports' = ports
      BY <1>6, <2>1 DEF Listed
    <3>2. \A x, y \in Nat : Passed(x, y, k, j)' <=> Passed(x, y, k, j)
      BY <1>9, <2>1
    <3> QED BY <1>1, <1>8, <3>1, <3>2, ListMoved
  <2>2. CASE GetServiceNodePort(b) # None
    <3> DEFINE n == Len(ports) + 1
    <3>1. /\ ports' = Append(ports, b)
          /\ Len(ports') = n /\ ports'[n] = b
          /\ \A i \in 1..Len(ports) : ports'[i] = ports[i]
      BY <1>3, <1>4, <1>6, <2>2, AppendProperties DEF Listed
    <3>2. 1..n = 1..Len(ports) \cup {n} /\ (\A i \in 1..Len(ports) : n > i /\ i \in 1..n)
          /\ n \in 1..n
      BY <1>4
    <3> HIDE DEF n
    <3>3. ASSUME NEW x \in Nat, NEW y \in Nat, Passed(x, y, k, j)'
          PROVE  \E i \in 1..n : ports'[i] = At(site, x, y)'
      <4>1. CASE Passed(x, y, k, j)
        <5>1. PICK i \in 1..Len(ports) : ports[i] = At(site, x, y)
          BY <1>8, <4>1 DEF PortsUpTo
        <5> QED BY <1>9, <3>1, <3>2, <5>1
      <4>2. CASE x = k /\ y = j
        BY <1>5, <1>9, <3>1, <3>2, <4>2
      <4> QED BY <1>9, <3>3, <4>1, <4>2
    <3>4. ASSUME NEW i \in 1..Len(ports)
          PROVE  \E x, y \in Nat :
                   /\ Passed(x, y, k, j)' /\ ports'[i] = At(site, x, y)'
                   /\ (\A l \in 1..n : l > i => ports'[l].svc # ports'[i].svc) =>
                        \A p, q \in Nat : Passed(p, q, k, j)' /\ At(site, p, q)'.svc = ports'[i].svc
                                            => ~Later(x, y, p, q)
      <4>1. PICK x, y \in Nat :
              /\ Passed(x, y, k, j) /\ ports[i] = At(site, x, y)
              /\ (\A l \in 1..Len(ports) : l > i => ports[l].svc # ports[i].svc) =>
                   \A p, q \in Nat : Passed(p, q, k, j) /\ At(site, p, q).svc = ports[i].svc
                                       => ~Later(x, y, p, q)
        BY <1>8 DEF PortsUpTo
      <4>2. Passed(x, y, k, j)' /\ ports'[i] = At(site, x, y)'
        BY <1>9, <3>1, <4>1
      <4>3. ASSUME \A l \in 1..n : l > i => ports'[l].svc # ports'[i].svc,
                   NEW p \in Nat, NEW q \in Nat, Passed(p, q, k, j)',
                   At(site, p, q)'.svc = ports'[i].svc
            PROVE  ~Later(x, y, p, q)
        <5>1. b.svc # ports[i].svc
          BY <3>1, <3>2, <4>3
        <5>2. \A l \in 1..Len(ports) : l > i => ports[l].svc # ports[i].svc
          BY <3>1, <3>2, <4>3
        <5>3. At(site, p, q).svc = ports[i].svc
          BY <1>9, <3>1, <4>3
        <5>4. Passed(p, q, k, j)
          BY <1>5, <1>9, <4>3, <5>1, <5>3
        <5> QED BY <4>1, <5>2, <5>3, <5>4
      <4> QED BY <4>2, <4>3
    <3>5. \E x, y \in Nat :
             /\ Passed(x, y, k, j)' /\ b = At(site, x, y)'
             /\ \A p, q \in Nat : Passed(p, q, k, j)' => ~Later(x, y, p, q)
      <4>1. PICK x \in Nat, y \in Nat : x = k /\ y = j
        BY <1>3
      <4>2. Passed(x, y, k, j)' /\ b = At(site, x, y)'
        BY <1>5, <1>9, <2>2, <4>1
      <4>3. \A p, q \in Nat : Passed(p, q, k, j)' => ~Later(x, y, p, q)
        BY <1>10, <4>1
      <4> QED BY <4>2, <4>3
    <3>6. (\A x, y \in Nat : Passed(x, y, k, j) => \E i \in 1..Len(ports) : ports[i] = At(site, x, y))'
      BY <3>1, <3>3
    <3>7. (\A i \in 1..Len(ports) : \E x, y \in Nat :
             /\ Passed(x, y, k, j) /\ ports[i] = At(site, x, y)
             /\ (\A l \in 1..Len(ports) : l > i => ports[l].svc # ports[i].svc) =>
                  \A p, q \in Nat : Passed(p, q, k, j) /\ At(site, p, q).svc = ports[i].svc
                                      => ~Later(x, y, p, q))'
      BY <3>1, <3>2, <3>4, <3>5
    <3> QED BY <3>6, <3>7 DEF PortsUpTo
  <2> QED BY <2>1, <2>2
<1>12. WorkInv'
  BY <1>1, <1>2, <1>3, <1>11 DEF WorkInv, NoRoutes, NoBackends
<1>13. StableInv'
  <2>1. Again => ~err
    BY <1>2 DEF StableInv
  <2> QED BY <1>1, <1>2, <2>1, StableKept
<1> QED BY <1>7, <1>12, <1>13 DEF RoutingInv

LEMMA ListRuleRouting ==
  ASSUME RoutingInv, listRule
  PROVE  RoutingInv'
<1>1. /\ pc = "ports" /\ k <= Len(site.rules) /\ (Rule.http => j > Len(Rule.paths))
      /\ j' = 1 /\ k' = k + 1
      /\ UNCHANGED <<cloud, table, pc, site, force, ports, hcMap, beMap, matcher, routes,
                     err, stable, faults>>
  BY DEF listRule
<1>2. RoutingTypeOK /\ WorkInv /\ StableInv
  BY DEF RoutingInv
<1>3. /\ k \in 1..Len(site.rules) /\ Len(site.rules) \in Nat /\ (Rule.http <=> k \in HTTPRules(site))
      /\ Len(Rule.paths) \in Nat /\ k # 0 /\ j \in Nat \ {0} /\ k \in Nat /\ site \in Sites
  BY <1>1, <1>2, RuleHere DEF RoutingTypeOK
<1>4. RoutingTypeOK'
  <2>1. j' \in Nat \ {0} /\ k' \in Nat \ {0}
    BY <1>1, <1>3
  <2> QED BY <1>1, <1>2, <2>1 DEF RoutingTypeOK, cloud
<1>5. PortsUpTo(k, j)
  BY <1>1, <1>2 DEF WorkInv
<1>6. ASSUME NEW x \in Nat, NEW y \in Nat
      PROVE  Passed(x, y, k, j)' <=> Passed(x, y, k, j)
  <2>1. Passed(x, y, k, j)' <=> Known(site, x, y) /\ Later(x, y, k + 1, 1)
    BY <1>1 DEF Passed, Known, Entry, At, GetServiceNodePort
  <2>2. ASSUME Entry(site, x, y) PROVE Later(x, y, k + 1, 1) <=> Later(x, y, k, j)
    <3>1. \/ x = 0 /\ y = 0
          \/ x \in 1..Len(site.rules) /\ x \in HTTPRules(site) /\ y \in 1..Len(site.rules[x].paths)
      BY <1>3, <2>2, EntryPosition
    <3>2. CASE x = 0 /\ y = 0
      BY <1>3, <3>2 DEF Later
    <3>3. CASE x \in HTTPRules(site) /\ y \in 1..Len(site.rules[x].paths)
      <4>1. y # 0 /\ (x = k => y < j)
        BY <1>1, <1>3, <3>3 DEF Rule
      <4> QED BY <1>3, <4>1 DEF Later
    <3> QED BY <3>1, <3>2, <3>3
  <2> QED BY <2>1, <2>2 DEF Passed, Known
<1>7. PortsUpTo(k, j)'
  BY <1>1, <1>5, <1>6, ListMoved
<1>8. WorkInv'
  BY <1>1, <1>2, <1>3, <1>7 DEF WorkInv, NoRoutes, NoBackends
<1>9. StableInv'
  <2>1. Again => ~err
    BY <1>2 DEF StableInv
  <2> QED BY <1>1, <1>2, <2>1, StableKept
<1> QED BY <1>4, <1>8, <1>9 DEF RoutingInv

LEMMA EndOfListRouting ==
  ASSUME RoutingInv, endOfList
  PROVE  RoutingInv'
<1>1. /\ pc = "ports" /\ k > Len(site.rules) /\ pc' = "health" /\ k' = 1
      /\ UNCHANGED <<cloud, table, site, force, ports, j, hcMap, beMap, matcher, routes,
                     err, stable, faults>>
  BY DEF endOfList
<1>2. RoutingTypeOK /\ WorkInv /\ StableInv
  BY DEF RoutingInv
<1>3. Len(site.rules) \in Nat /\ k \in Nat /\ Len(ports) \in Nat
  BY <1>2, SiteShape, LenProperties DEF RoutingTypeOK
<1>4. k = Len(site.rules) + 1 /\ j = 1 /\ PortsUpTo(k, j) /\ NoRoutes /\ NoBackends
  BY <1>1, <1>2, <1>3 DEF WorkInv
<1>5. ListDone'
  BY <1>1, <1>4, ListKept DEF ListDone
<1>6. RoutingTypeOK'
  BY <1>1, <1>2 DEF RoutingTypeOK, cloud
<1>7. HealthUpTo(1)'
  BY DEF HealthUpTo
<1>8. WorkInv'
  BY <1>1, <1>3, <1>4, <1>5, <1>7 DEF WorkInv, NoRoutes, NoBackends
<1>9. StableInv'
  <2>1. Again => ~err
    BY <1>2 DEF StableInv
  <2> QED BY <1>1, <1>2, <2>1, StableKept
<1> QED BY <1>6, <1>8, <1>9 DEF RoutingInv

-----------------------------------------------------------------------------
\* A call that makes the resource of entry i keeps what the earlier entries
\* hold: an entry with the same port is of the same service, and it is the same
\* entry if ports have one name.
LEMMA HoldsKept ==
  ASSUME RoutingTypeOK, ListDone,
         NEW n \in 1..Len(ports), NEW i \in 1..Len(ports),
         NEW res, NEW new, new[Port(n)] = ports[n],
         \A p \in NodePorts : p # Port(n) => new[p] = res[p],
         Holds(res, i) \/ i = n
  PROVE  Holds(new, i)
<1>1. /\ Port(n) \in NodePorts /\ Port(i) \in NodePorts /\ Port(i) # None
      /\ ports[n] \in Backends /\ ports[n] # None /\ ports[n] \in BackendsOf(site)
      /\ ports[i] \in Backends /\ ports[i] \in BackendsOf(site)
  BY ListedKnown DEF ListDone
<1>2. CASE Port(i) = Port(n)
  <2>1. new[Port(i)] = ports[n]
    BY <1>1, <1>2
  <2>2. ports[n].svc = ports[i].svc
    BY <1>1, <1>2, OneService DEF RoutingTypeOK, Port
  <2>3. OneNamePerPort(site) => ports[n] = ports[i]
    BY <1>1, <1>2 DEF OneNamePerPort, Port
  <2> QED BY <1>1, <2>1, <2>2, <2>3 DEF Holds
<1>3. CASE Port(i) # Port(n)
  <2>1. new[Port(i)] = res[Port(i)]
    BY <1>1, <1>3
  <2> QED BY <1>3, <2>1 DEF Holds
<1> QED BY <1>2, <1>3

\* A create that repeats the last one finds the resources of the list.
LEMMA AgainHolds ==
  ASSUME RoutingTypeOK, StableInv, ListDone, Again, NEW i \in 1..Len(ports)
  PROVE  hc[Port(i)] = ports[i] /\ be[Port(i)] = ports[i]
<1>1. PICK x, y \in Nat : Known(site, x, y) /\ ports[i] = At(site, x, y)
  BY ListedKnown DEF ListDone
<1>2. Settled
  BY DEF StableInv
<1> QED BY <1>1, <1>2 DEF Settled, Port

\* What a call leaves to the loops.
LEMMA Recorded ==
  ASSUME RoutingTypeOK, NEW o, o.err \in BOOLEAN, o.fault \in BOOLEAN, Record(o)
  PROVE  /\ faults' \in Nat /\ faults <= faults' /\ faults' \in {faults, faults + 1}
         /\ o.fault => faults' # faults
         /\ err' \in BOOLEAN /\ err' = (err \/ o.err)
BY DEF Record, RoutingTypeOK

LEMMA EnsureHealthCheckRouting ==
  ASSUME RoutingInv, ensureHealthCheck
  PROVE  RoutingInv'
<1> DEFINE b == ports[k]
           n == GetServiceNodePort(b)
<1>1. /\ pc = "health" /\ k <= Len(ports) /\ k' = k + 1
      /\ UNCHANGED <<be, um, table, pc, site, force, ports, j, beMap, matcher, routes, stable>>
  BY DEF ensureHealthCheck
<1>2. PICK o \in ensure(hc[n], b) :
        /\ hc' = [hc EXCEPT ![n] = o.res]
        /\ hcMap' = IF o.err THEN hcMap ELSE hcMap \cup {n}
        /\ Record(o)
  BY DEF ensureHealthCheck
<1>3. RoutingTypeOK /\ WorkInv /\ StableInv
  BY DEF RoutingInv
<1>4. /\ Len(ports) \in Nat /\ k \in Nat /\ k \in 1..Len(ports) /\ force \in BOOLEAN
      /\ hc \in [NodePorts -> Backends \cup {None}] /\ hcMap \subseteq NodePorts
      /\ stable # None => stable \in [site : Sites, faults : Nat] /\ stable.faults <= faults
      /\ faults \in Nat
  BY <1>1, <1>3, LenProperties DEF RoutingTypeOK
<1>5. ListDone /\ NoRoutes /\ NoBackends /\ j = 1 /\ (~err => HealthUpTo(k))
  BY <1>1, <1>3 DEF WorkInv
<1>6. n = Port(k) /\ n \in NodePorts /\ b \in Backends
  BY <1>3, <1>4, <1>5, ListedKnown DEF ListDone, Port
<1> HIDE DEF n, b
<1>7. /\ o.err \in BOOLEAN /\ o.fault \in BOOLEAN /\ o.res \in {hc[n], b}
      /\ ~o.err => o.res = b
      /\ hc[n] = b /\ ~o.fault => ~o.err
  BY <1>2, <1>4, EnsureHere
<1>8. /\ faults' \in Nat /\ faults <= faults' /\ faults' \in {faults, faults + 1}
      /\ o.fault => faults' # faults
      /\ err' \in BOOLEAN /\ err' = (err \/ o.err)
  BY <1>2, <1>3, <1>7, Recorded
<1>9. RoutingTypeOK'
  <2>1. hc' \in [NodePorts -> Backends \cup {None}]
    BY <1>2, <1>4, <1>6, <1>7
  <2>2. hcMap' \subseteq NodePorts
    BY <1>2, <1>4, <1>6
  <2>3. k' \in Nat \ {0}
    BY <1>1, <1>4
  <2>4. stable' # None => stable' \in [site : Sites, faults : Nat] /\ stable'.faults <= faults'
    BY <1>1, <1>4, <1>8
  <2> QED BY <1>1, <1>3, <1>8, <2>1, <2>2, <2>3, <2>4 DEF RoutingTypeOK
<1>10. ListDone'
  BY <1>1, <1>5, ListKept
<1>11. ASSUME ~err' PROVE HealthUpTo(k)'
  <2>1. ~o.err /\ ~err /\ HealthUpTo(k)
    BY <1>5, <1>8, <1>11
  <2>2. hc' = [hc EXCEPT ![Port(k)] = ports[k]] /\ hcMap' = hcMap \cup {Port(k)}
    BY <1>2, <1>6, <1>7, <2>1 DEF b
  <2>3. 1..k'-1 = 1..k-1 \cup {k} /\ 1..k-1 \subseteq 1..Len(ports)
    BY <1>1, <1>4
  <2>4. ASSUME NEW i \in 1..k'-1 PROVE Port(i) \in hcMap' /\ Holds(hc', i)
    <3>1. i \in 1..Len(ports) /\ (i \in 1..k-1 \/ i = k)
      BY <1>4, <2>3
    <3>2. Holds(hc, i) \/ i = k
      BY <2>1, <3>1 DEF HealthUpTo
    <3>3. Holds(hc', i)
      <4>1. hc'[Port(k)] = ports[k] /\ \A p \in NodePorts : p # Port(k) => hc'[p] = hc[p]
        BY <1>4, <1>6, <2>2
      <4> QED BY <1>3, <1>4, <1>5, <3>1, <3>2, <4>1, HoldsKept
    <3>4. Port(i) \in hcMap'
      BY <2>1, <2>2, <3>1 DEF HealthUpTo
    <3> QED BY <3>3, <3>4
  <2>5. (\A i \in 1..k-1 : Port(i) \in hcMap /\ Holds(hc, i))'
    BY <1>1, <2>4 DEF Holds, Port, OneNamePerPort, GetServiceNodePort
  <2> QED BY <2>5 DEF HealthUpTo
<1>12. WorkInv'
  BY <1>1, <1>4, <1>5, <1>10, <1>11 DEF WorkInv, NoRoutes, NoBackends
<1>13. StableInv'
  <2>1. ASSUME Again, faults' = faults PROVE UNCHANGED cloud /\ ~err'
    <3>1. hc[n] = b /\ ~err
      BY <1>3, <1>4, <1>5, <1>6, <2>1, AgainHolds DEF b, StableInv
    <3>2. ~o.err /\ o.res = hc[n]
      BY <1>7, <1>8, <2>1, <3>1
    <3>3. hc' = hc
      BY <1>2, <1>4, <1>6, <3>2
    <3> QED BY <1>1, <1>8, <3>1, <3>2, <3>3 DEF cloud
  <2> QED BY <1>1, <1>3, <1>8, <2>1, StableKept
<1> QED BY <1>9, <1>12, <1>13 DEF RoutingInv

LEMMA EnsureBackendServiceRouting ==
  ASSUME RoutingInv, ensureBackendService
  PROVE  RoutingInv'
<1> DEFINE b == ports[k]
           n == GetServiceNodePort(b)
<1>1. /\ pc = "backends" /\ k <= Len(ports) /\ k' = k + 1
      /\ UNCHANGED <<hc, um, table, pc, site, force, ports, j, hcMap, matcher, routes, stable>>
  BY DEF ensureBackendService
<1>2. PICK o \in IF n \in hcMap THEN ensure(be[n], b) ELSE {Refused(be[n])} :
        /\ be' = [be EXCEPT ![n] = o.res]
        /\ beMap' = IF o.err THEN beMap ELSE [beMap EXCEPT ![b.svc] = n]
        /\ Record(o)
  BY DEF ensureBackendService
<1>3. RoutingTypeOK /\ WorkInv /\ StableInv
  BY DEF RoutingInv
<1>4. /\ Len(ports) \in Nat /\ k \in Nat /\ k \in 1..Len(ports) /\ force \in BOOLEAN
      /\ be \in [NodePorts -> Backends \cup {None}]
      /\ beMap \in [Services -> NodePorts \cup {None}]
      /\ stable # None => stable \in [site : Sites, faults : Nat] /\ stable.faults <= faults
      /\ faults \in Nat
  BY <1>1, <1>3, LenProperties DEF RoutingTypeOK
<1>5. /\ ListDone /\ NoRoutes /\ j = 1
      /\ ~err => HealthUpTo(Len(ports) + 1) /\ BackendsUpTo(k)
  BY <1>1, <1>3 DEF WorkInv
<1>6. n = Port(k) /\ n \in NodePorts /\ n # None /\ b \in Backends /\ b.svc \in Services
  BY <1>3, <1>4, <1>5, ListedKnown DEF ListDone, Port
<1> HIDE DEF n, b
<1>7. /\ o.err \in BOOLEAN /\ o.fault \in BOOLEAN /\ o.res \in {be[n], b}
      /\ ~o.err => o.res = b
      /\ n \in hcMap /\ be[n] = b /\ ~o.fault => ~o.err
  <2>1. CASE n \in hcMap
    BY <1>2, <1>4, <2>1, EnsureHere
  <2>2. CASE n \notin hcMap
    <3>1. o = Refused(be[n])
      BY <1>2, <2>2
    <3> QED BY <2>2, <3>1 DEF Refused
  <2> QED BY <2>1, <2>2
<1>8. /\ faults' \in Nat /\ faults <= faults' /\ faults' \in {faults, faults + 1}
      /\ o.fault => faults' # faults
      /\ err' \in BOOLEAN /\ err' = (err \/ o.err)
  BY <1>2, <1>3, <1>7, Recorded
<1>9. RoutingTypeOK'
  <2>1. be' \in [NodePorts -> Backends \cup {None}]
    BY <1>2, <1>4, <1>6, <1>7
  <2>2. beMap' \in [Services -> NodePorts \cup {None}]
    BY <1>2, <1>4, <1>6
  <2>3. k' \in Nat \ {0}
    BY <1>1, <1>4
  <2>4. stable' # None => stable' \in [site : Sites, faults : Nat] /\ stable'.faults <= faults'
    BY <1>1, <1>4, <1>8
  <2> QED BY <1>1, <1>3, <1>8, <2>1, <2>2, <2>3, <2>4 DEF RoutingTypeOK
<1>10. ListDone'
  BY <1>1, <1>5, ListKept
<1>11. ASSUME ~err' PROVE (HealthUpTo(Len(ports) + 1) /\ BackendsUpTo(k))'
  <2>1. ~o.err /\ ~err /\ HealthUpTo(Len(ports) + 1) /\ BackendsUpTo(k)
    BY <1>5, <1>8, <1>11
  <2>2. be' = [be EXCEPT ![n] = ports[k]] /\ beMap' = [beMap EXCEPT ![b.svc] = n]
    BY <1>2, <1>7, <2>1 DEF b
  <2>3. 1..k'-1 = 1..k-1 \cup {k} /\ 1..k-1 \subseteq 1..Len(ports)
        /\ k \in 1..k'-1 /\ (\A l \in 1..k-1 : l < k)
    BY <1>1, <1>4
  <2>4. ASSUME NEW i \in 1..k'-1 PROVE beMap'[ports[i].svc] # None /\ Holds(be', i)
    <3>1. i \in 1..Len(ports) /\ (i \in 1..k-1 \/ i = k)
      BY <1>4, <2>3
    <3>2. Holds(be, i) \/ i = k
      BY <2>1, <3>1 DEF BackendsUpTo
    <3>3. be'[Port(k)] = ports[k] /\ \A p \in NodePorts : p # Port(k) => be'[p] = be[p]
      BY <1>4, <1>6, <2>2
    <3>4. Holds(be', i)
      BY <1>3, <1>4, <1>5, <3>1, <3>2, <3>3, HoldsKept
    <3>5. ports[i].svc \in Services /\ (i = k => ports[i].svc = b.svc)
      BY <1>3, <1>5, <3>1, ListedKnown DEF ListDone, b
    <3>6. i \in 1..k-1 => beMap[ports[i].svc] # None
      BY <2>1 DEF BackendsUpTo
    <3>7. beMap'[ports[i].svc] # None
      BY <1>4, <1>6, <2>2, <3>1, <3>5, <3>6
    <3> QED BY <3>4, <3>7
  <2>5. ASSUME NEW v \in Services, beMap'[v] # None
        PROVE  \E i \in 1..k'-1 : /\ ports[i].svc = v /\ beMap'[v] = Port(i)
                                  /\ \A l \in 1..k'-1 : l > i => ports[l].svc # v
    <3>1. CASE v = b.svc
      <4>1. ports[k].svc = v /\ beMap'[v] = Port(k)
        BY <1>4, <1>6, <2>2, <3>1 DEF b
      <4>2. \A l \in 1..k'-1 : ~(l > k)
        BY <1>1, <1>4
      <4> QED BY <2>3, <4>1, <4>2
    <3>2. CASE v # b.svc
      <4>1. beMap'[v] = beMap[v]
        BY <1>4, <2>2, <3>2
      <4>2. PICK i \in 1..k-1 : /\ ports[i].svc = v /\ beMap[v] = Port(i)
                                /\ \A l \in 1..k-1 : l > i => ports[l].svc # v
        BY <2>1, <2>5, <4>1 DEF BackendsUpTo
      <4>3. \A l \in 1..k'-1 : l > i => ports[l].svc # v
        BY <2>3, <3>2, <4>2 DEF b
      <4> QED BY <2>3, <4>1, <4>2, <4>3
    <3> QED BY <3>1, <3>2
  <2>6. BackendsUpTo(k)'
    <3>1. (\A i \in 1..k-1 : beMap[ports[i].svc] # None /\ Holds(be, i))'
      BY <1>1, <2>4 DEF Holds, Port, OneNamePerPort, GetServiceNodePort
    <3>2. (\A v \in Services : beMap[v] # None =>
             \E i \in 1..k-1 : /\ ports[i].svc = v /\ beMap[v] = Port(i)
                               /\ \A l \in 1..k-1 : l > i => ports[l].svc # v)'
      BY <1>1, <2>5 DEF Port, GetServiceNodePort
    <3> QED BY <3>1, <3>2 DEF BackendsUpTo
  <2>7. (HealthUpTo(Len(ports) + 1))'
    BY <1>1, <2>1 DEF HealthUpTo, Holds, Port, OneNamePerPort, GetServiceNodePort
  <2> QED BY <2>6, <2>7
<1>12. WorkInv'
  BY <1>1, <1>4, <1>5, <1>10, <1>11 DEF WorkInv, NoRoutes
<1>13. StableInv'
  <2>1. ASSUME Again, faults' = faults PROVE UNCHANGED cloud /\ ~err'
    <3>1. be[n] = b /\ ~err
      BY <1>3, <1>4, <1>5, <1>6, <2>1, AgainHolds DEF b, StableInv
    <3>2. n \in hcMap
      BY <1>4, <1>5, <1>6, <3>1 DEF HealthUpTo
    <3>3. ~o.err /\ o.res = be[n]
      BY <1>7, <1>8, <2>1, <3>1, <3>2
    <3>4. be' = be
      BY <1>2, <1>4, <1>6, <3>3
    <3> QED BY <1>1, <1>8, <3>1, <3>3, <3>4 DEF cloud
  <2> QED BY <1>1, <1>3, <1>8, <2>1, StableKept
<1> QED BY <1>9, <1>12, <1>13 DEF RoutingInv

LEMMA EndOfPortsRouting ==
  ASSUME RoutingInv, endOfPorts
  PROVE  RoutingInv'
<1>1. /\ pc \in {"health", "backends"} /\ k > Len(ports) /\ k' = 1
      /\ pc' = IF pc = "health" THEN "backends" ELSE "rules"
      /\ UNCHANGED <<cloud, table, site, force, ports, j, hcMap, beMap, matcher, routes,
                     err, stable, faults>>
  BY DEF endOfPorts
<1>2. RoutingTypeOK /\ WorkInv /\ StableInv
  BY DEF RoutingInv
<1>3. Len(ports) \in Nat /\ k \in Nat /\ Len(site.rules) \in Nat /\ site \in Sites
  BY <1>2, SiteShape, LenProperties DEF RoutingTypeOK
<1>4. k = Len(ports) + 1 /\ ListDone /\ NoRoutes /\ j = 1
  BY <1>1, <1>2, <1>3 DEF WorkInv
<1>5. ListDone'
  BY <1>1, <1>4, ListKept
<1>6. RoutingTypeOK'
  BY <1>1, <1>2 DEF RoutingTypeOK, cloud
<1>7. CASE pc = "health"
  <2>1. NoBackends /\ (~err => HealthUpTo(Len(ports) + 1))
    BY <1>2, <1>4, <1>7 DEF WorkInv
  <2>2. ~err' => (HealthUpTo(Len(ports) + 1))'
    BY <1>1, <2>1 DEF cloud, HealthUpTo, Holds, Port, OneNamePerPort, GetServiceNodePort
  <2>3. BackendsUpTo(1)'
    BY <1>1, <2>1 DEF BackendsUpTo, NoBackends
  <2> QED
    <3>1. WorkInv'
      BY <1>1, <1>3, <1>4, <1>5, <1>7, <2>2, <2>3 DEF WorkInv, NoRoutes
    <3>2. StableInv'
      BY <1>1, <1>2, <1>7, StableKept DEF StableInv
    <3> QED BY <1>6, <3>1, <3>2 DEF RoutingInv
<1>8. CASE pc = "backends"
  <2>1. ~err => AllEnsured
    BY <1>2, <1>4, <1>8 DEF WorkInv, AllEnsured
  <2>2. ~err' => AllEnsured'
    BY <1>1, <2>1, EnsuredKept DEF cloud
  <2>3. routes' = Empty /\ matcher' = Empty
    BY <1>1, <1>4 DEF NoRoutes
  <2>4. RoutesUpTo(routes, site, 1, beMap)'
    <3>1. RulesBefore(site, 1) = {}
      BY <1>3, SiteShape DEF RulesBefore, HTTPRules
    <3>2. RoutesUpTo(Empty, site, 1, beMap)
      BY <3>1 DEF RoutesUpTo, Empty
    <3> QED BY <1>1, <2>3, <3>2
  <2>5. \A r : MatcherUpTo(Empty, r, 1, beMap')
    BY DEF MatcherUpTo, Empty
  <2>6. 1 <= Len(site.rules) => 1 <= (IF site.rules[1].http THEN Len(site.rules[1].paths) + 1 ELSE 1)
    <3>1. 1 <= Len(site.rules) => Len(site.rules[1].paths) \in Nat
      BY <1>3, SiteShape, RuleShape
    <3> QED BY <3>1
  <2> QED
    <3>1. (k <= Len(site.rules) => MatcherUpTo(matcher, Rule, j, beMap))'
      BY <1>1, <1>4, <2>3, <2>5
    <3>2. (k <= Len(site.rules) => j <= (IF Rule.http THEN Len(Rule.paths) + 1 ELSE 1))'
      BY <1>1, <1>4, <2>6 DEF Rule
    <3>3. k' <= Len(site.rules) + 1
      BY <1>1, <1>3
    <3>4. RoutesUpTo(routes', site', k', beMap')
      BY <1>1, <2>4
    <3>5. WorkInv'
      BY <1>1, <1>5, <1>8, <2>2, <3>1, <3>2, <3>3, <3>4 DEF WorkInv
    <3>6. StableInv'
      BY <1>1, <1>2, <1>8, StableKept DEF StableInv
    <3> QED BY <1>6, <3>5, <3>6 DEF RoutingInv
<1> QED BY <1>1, <1>7, <1>8

-----------------------------------------------------------------------------
\* One more path of a rule.
LEMMA MatcherGrows ==
  ASSUME NEW m, NEW r, NEW n \in Nat \ {0}, NEW port, MatcherUpTo(m, r, n, port)
  PROVE  MatcherUpTo(Put(m, PathOf(r.paths[n]), port[r.paths[n].be.svc]), r, n + 1, port)
<1> DEFINE p == PathOf(r.paths[n])
           v == port[r.paths[n].be.svc]
           m2 == Put(m, p, v)
<1> HIDE DEF p, v
<1>1. /\ DOMAIN m2 = DOMAIN m \cup {p} /\ m2 = [u \in DOMAIN m2 |-> m2[u]]
      /\ m2[p] = v
      /\ \A u \in DOMAIN m : u # p => m2[u] = m[u]
  BY DEF Put
<1>2. 1..(n + 1)-1 = 1..n-1 \cup {n} /\ n \in 1..(n + 1)-1 /\ \A y \in 1..n-1 : ~(y > n)
  OBVIOUS
<1> HIDE DEF m2
<1>3. DOMAIN m2 = {PathOf(r.paths[y]) : y \in 1..(n + 1)-1}
  <2>1. DOMAIN m = {PathOf(r.paths[y]) : y \in 1..n-1}
    BY DEF MatcherUpTo
  <2>2. {PathOf(r.paths[y]) : y \in 1..n-1 \cup {n}} = {PathOf(r.paths[y]) : y \in 1..n-1} \cup {p}
    BY DEF p
  <2> QED BY <1>1, <1>2, <2>1, <2>2
<1>4. ASSUME NEW u \in DOMAIN m2
      PROVE  \E y \in 1..(n + 1)-1 :
               /\ PathOf(r.paths[y]) = u /\ m2[u] = port[r.paths[y].be.svc]
               /\ \A z \in 1..(n + 1)-1 : z > y => PathOf(r.paths[z]) # u
  <2>1. CASE u = p
    <3>1. \A z \in 1..(n + 1)-1 : ~(z > n)
      BY <1>2
    <3> QED BY <1>1, <1>2, <2>1, <3>1 DEF p, v
  <2>2. CASE u # p
    <3>1. PICK y \in 1..n-1 :
            /\ PathOf(r.paths[y]) = u /\ m[u] = port[r.paths[y].be.svc]
            /\ \A z \in 1..n-1 : z > y => PathOf(r.paths[z]) # u
      BY <1>1, <2>2 DEF MatcherUpTo
    <3>2. u \in DOMAIN m /\ m2[u] = m[u]
      BY <1>1, <2>2
    <3> QED BY <1>2, <2>2, <3>1, <3>2 DEF p
  <2> QED BY <2>1, <2>2
<1>5. MatcherUpTo(m2, r, n + 1, port)
  BY <1>1, <1>3, <1>4 DEF MatcherUpTo
<1> QED BY <1>5 DEF m2, p, v

\* One more rule, which is an HTTP one or not.
LEMMA RoutesGrow ==
  ASSUME NEW s \in Sites, NEW n \in 1..Len(s.rules), NEW m, NEW port, NEW x,
         RoutesUpTo(m, s, n, port),
         s.rules[n].http => MatcherUpTo(x, s.rules[n], Len(s.rules[n].paths) + 1, port)
  PROVE  RoutesUpTo(IF s.rules[n].http THEN Put(m, HostOf(s.rules[n]), x) ELSE m,
                    s, n + 1, port)
<1>1. HTTPRules(s) \subseteq Nat /\ n \in Nat /\ (n \in HTTPRules(s) <=> s.rules[n].http)
  BY SiteShape DEF HTTPRules
<1>2. CASE ~s.rules[n].http
  <2>1. RulesBefore(s, n + 1) = RulesBefore(s, n)
    BY <1>1, <1>2 DEF RulesBefore
  <2> QED BY <1>2, <2>1 DEF RoutesUpTo
<1>3. CASE s.rules[n].http
  <2> DEFINE p == HostOf(s.rules[n])
             m2 == Put(m, p, x)
  <2> HIDE DEF p
  <2>1. /\ DOMAIN m2 = DOMAIN m \cup {p} /\ m2 = [h \in DOMAIN m2 |-> m2[h]]
        /\ m2[p] = x /\ \A h \in DOMAIN m : h # p => m2[h] = m[h]
    BY DEF Put
  <2>2. RulesBefore(s, n + 1) = RulesBefore(s, n) \cup {n}
    BY <1>1, <1>3 DEF RulesBefore
  <2>3. \A z \in RulesBefore(s, n + 1) : ~(z > n)
    BY <1>1 DEF RulesBefore
  <2>4. DOMAIN m2 = {HostOf(s.rules[y]) : y \in RulesBefore(s, n + 1)}
    <3> HIDE DEF m2
    <3>1. DOMAIN m = {HostOf(s.rules[y]) : y \in RulesBefore(s, n)}
      BY DEF RoutesUpTo
    <3>2. {HostOf(s.rules[y]) : y \in RulesBefore(s, n) \cup {n}}
            = {HostOf(s.rules[y]) : y \in RulesBefore(s, n)} \cup {p}
      BY DEF p
    <3> QED BY <2>1, <2>2, <3>1, <3>2
  <2> HIDE DEF m2
  <2>5. ASSUME NEW h \in DOMAIN m2
        PROVE  \E y \in RulesBefore(s, n + 1) :
                 /\ HostOf(s.rules[y]) = h
                 /\ MatcherUpTo(m2[h], s.rules[y], Len(s.rules[y].paths) + 1, port)
                 /\ \A z \in RulesBefore(s, n + 1) : z > y => HostOf(s.rules[z]) # h
    <3>1. CASE h = p
      <4>1. n \in RulesBefore(s, n + 1) /\ m2[h] = x
        BY <2>1, <2>2, <3>1
      <4> QED BY <1>3, <2>3, <3>1, <4>1 DEF p
    <3>2. CASE h # p
      <4>1. h \in DOMAIN m /\ m2[h] = m[h]
        BY <2>1, <3>2
      <4>2. PICK y \in RulesBefore(s, n) :
              /\ HostOf(s.rules[y]) = h
              /\ MatcherUpTo(m[h], s.rules[y], Len(s.rules[y].paths) + 1, port)
              /\ \A z \in RulesBefore(s, n) : z > y => HostOf(s.rules[z]) # h
        BY <4>1 DEF RoutesUpTo
      <4> QED BY <2>2, <3>2, <4>1, <4>2 DEF p
    <3> QED BY <3>1, <3>2
  <2>6. RoutesUpTo(m2, s, n + 1, port)
    BY <2>1, <2>4, <2>5 DEF RoutesUpTo
  <2> QED BY <1>3, <2>6 DEF m2, p
<1> QED BY <1>2, <1>3

\* A create that repeats the last one, and has ensured all backend services,
\* has the same port for every service.
LEMMA AgainRouted ==
  ASSUME RoutingTypeOK, Settled, ListDone, BackendsUpTo(Len(ports) + 1),
         NEW b \in BackendsOf(site)
  PROVE  beMap[b.svc] # None /\ beMap[b.svc] = Targets(site)[b.svc]
<1>1. site \in Sites /\ table \in Tables
  BY DEF RoutingTypeOK
<1>2. b.svc \in Services
  <2>1. PICK x, y \in Nat : Entry(site, x, y) /\ b = At(site, x, y)
    BY <1>1, BackendEntry
  <2>2. b \in Backends
    BY <1>1, <2>1, EntryBackend
  <2> QED BY <2>2 DEF Backends
<1>3. PICK n \in NodePorts : LastPort(site, b.svc, n)
  BY DEF Settled
<1>4. PICK x, y \in Nat : Known(site, x, y) /\ At(site, x, y).svc = b.svc
  BY <1>3 DEF LastPort, LastOf
<1>5. beMap[b.svc] # None
  BY <1>4, BackendMapComplete
<1>6. LastPort(site, b.svc, beMap[b.svc])
  BY <1>2, <1>5, BackendMapLast
<1>7. Targets(site)[b.svc] = beMap[b.svc]
  BY <1>1, <1>2, <1>6, TargetIs
<1> QED BY <1>5, <1>7

LEMMA RoutePathRouting ==
  ASSUME RoutingInv, routePath
  PROVE  RoutingInv'
<1> DEFINE p == Rule.paths[j]
           n == beMap[p.be.svc]
<1>1. /\ pc = "rules" /\ k <= Len(site.rules) /\ Rule.http /\ j <= Len(Rule.paths) /\ j' = j + 1
      /\ UNCHANGED <<cloud, table, pc, site, force, ports, k, hcMap, beMap, routes, stable, faults>>
      /\ matcher' = IF n = None THEN matcher ELSE Put(matcher, PathOf(p), n)
      /\ err' = (err \/ n = None)
  BY DEF routePath, PathOf
<1>2. RoutingTypeOK /\ WorkInv /\ StableInv
  BY DEF RoutingInv
<1>3. /\ k \in 1..Len(site.rules) /\ Len(site.rules) \in Nat /\ k \in HTTPRules(site)
      /\ Len(Rule.paths) \in Nat /\ j \in DOMAIN Rule.paths /\ j \in Nat \ {0}
      /\ k \in Nat /\ site \in Sites /\ err \in BOOLEAN
  BY <1>1, <1>2, RuleHere DEF RoutingTypeOK
<1>4. /\ ListDone
      /\ ~err => AllEnsured /\ RoutesUpTo(routes, site, k, beMap) /\ MatcherUpTo(matcher, Rule, j, beMap)
  BY <1>1, <1>2 DEF WorkInv
<1>5. RoutingTypeOK'
  <2>1. j' \in Nat \ {0} /\ err' \in BOOLEAN
    BY <1>1, <1>3
  <2> QED BY <1>1, <1>2, <2>1 DEF RoutingTypeOK, cloud
<1>6. ListDone'
  BY <1>1, <1>4, ListKept
<1>7. Rule' = Rule
  BY <1>1 DEF Rule
<1>8. ASSUME ~err'
      PROVE  /\ AllEnsured' /\ RoutesUpTo(routes', site', k', beMap')
             /\ MatcherUpTo(matcher', Rule', j', beMap')
  <2>1. ~err /\ n # None
    BY <1>1, <1>8
  <2>2. AllEnsured'
    BY <1>1, <1>4, <2>1, EnsuredKept DEF cloud
  <2>3. MatcherUpTo(Put(matcher, PathOf(p), n), Rule, j + 1, beMap)
    BY <1>3, <1>4, <2>1, MatcherGrows
  <2>4. MatcherUpTo(matcher', Rule', j', beMap')
    BY <1>1, <1>7, <2>1, <2>3
  <2>5. RoutesUpTo(routes', site', k', beMap')
    BY <1>1, <1>4, <2>1
  <2> QED BY <2>2, <2>4, <2>5
<1> HIDE DEF n
<1>9. WorkInv'
  <2>1. k' <= Len(site'.rules) + 1
    BY <1>1, <1>3
  <2>2. j' <= (IF Rule'.http THEN Len(Rule'.paths) + 1 ELSE 1)
    BY <1>1, <1>3, <1>7
  <2> QED BY <1>1, <1>6, <1>8, <2>1, <2>2 DEF WorkInv
<1>10. StableInv'
  <2>1. ASSUME Again PROVE ~err'
    <3>1. Settled /\ ~err
      BY <1>2, <2>1 DEF StableInv
    <3>2. p.be \in BackendsOf(site)
      BY <1>3 DEF BackendsOf, Rule
    <3>3. n # None
      BY <1>2, <1>4, <3>1, <3>2, AgainRouted DEF AllEnsured, n
    <3> QED BY <1>1, <3>1, <3>3
  <2> QED BY <1>1, <1>2, <2>1, StableKept
<1> QED BY <1>5, <1>9, <1>10 DEF RoutingInv

LEMMA RouteRuleRouting ==
  ASSUME RoutingInv, routeRule
  PROVE  RoutingInv'
<1>1. /\ pc = "rules" /\ k <= Len(site.rules) /\ (Rule.http => j > Len(Rule.paths))
      /\ routes' = IF Rule.http THEN Put(routes, HostOf(Rule), matcher) ELSE routes
      /\ matcher' = Empty /\ j' = 1 /\ k' = k + 1
      /\ UNCHANGED <<cloud, table, pc, site, force, ports, hcMap, beMap, err, stable, faults>>
  BY DEF routeRule, HostOf
<1>2. RoutingTypeOK /\ WorkInv /\ StableInv
  BY DEF RoutingInv
<1>3. /\ k \in 1..Len(site.rules) /\ Len(site.rules) \in Nat
      /\ Len(Rule.paths) \in Nat /\ j \in Nat \ {0} /\ k \in Nat /\ site \in Sites
  BY <1>1, <1>2, RuleHere DEF RoutingTypeOK
<1>4. /\ ListDone
      /\ Rule.http => j = Len(Rule.paths) + 1
      /\ ~err => AllEnsured /\ RoutesUpTo(routes, site, k, beMap) /\ MatcherUpTo(matcher, Rule, j, beMap)
  BY <1>1, <1>2, <1>3 DEF WorkInv
<1>5. RoutingTypeOK'
  <2>1. j' \in Nat \ {0} /\ k' \in Nat \ {0}
    BY <1>1, <1>3
  <2> QED BY <1>1, <1>2, <2>1 DEF RoutingTypeOK, cloud
<1>6. ListDone'
  BY <1>1, <1>4, ListKept
<1>7. ASSUME ~err'
      PROVE  /\ AllEnsured' /\ RoutesUpTo(routes', site', k', beMap')
             /\ \A r : MatcherUpTo(matcher', r, j', beMap')
  <2>1. ~err
    BY <1>1, <1>7
  <2>2. AllEnsured'
    BY <1>1, <1>4, <2>1, EnsuredKept DEF cloud
  <2>3. RoutesUpTo(IF site.rules[k].http THEN Put(routes, HostOf(site.rules[k]), matcher) ELSE routes,
                   site, k + 1, beMap)
    <3>1. site.rules[k].http => MatcherUpTo(matcher, site.rules[k], Len(site.rules[k].paths) + 1, beMap)
      BY <1>4, <2>1 DEF Rule
    <3> QED BY <1>3, <1>4, <2>1, <3>1, RoutesGrow
  <2>4. RoutesUpTo(routes', site', k', beMap')
    BY <1>1, <2>3 DEF Rule
  <2>5. \A r : MatcherUpTo(Empty, r, 1, beMap')
    BY DEF MatcherUpTo, Empty
  <2> QED BY <1>1, <2>2, <2>4, <2>5
<1>8. WorkInv'
  <2>1. k' <= Len(site'.rules) + 1
    BY <1>1, <1>3
  <2>2. k' <= Len(site'.rules) => j' <= (IF Rule'.http THEN Len(Rule'.paths) + 1 ELSE 1)
    <3>1. k + 1 <= Len(site.rules) => Len(site.rules[k + 1].paths) \in Nat
      <4>1. k + 1 <= Len(site.rules) => k + 1 \in 1..Len(site.rules)
        BY <1>3
      <4> QED BY <1>3, <4>1, SiteShape, RuleShape
    <3> QED BY <1>1, <1>3, <3>1 DEF Rule
  <2> QED BY <1>1, <1>6, <1>7, <2>1, <2>2 DEF WorkInv
<1>9. StableInv'
  BY <1>1, <1>2, StableKept DEF StableInv
<1> QED BY <1>5, <1>8, <1>9 DEF RoutingInv

LEMMA EndOfRulesRouting ==
  ASSUME RoutingInv, endOfRules
  PROVE  RoutingInv'
<1>1. /\ pc = "rules" /\ k > Len(site.rules) /\ pc' = "urlMap"
      /\ UNCHANGED <<cloud, table, site, force, locals, err, stable, faults>>
  BY DEF endOfRules
<1>2. RoutingTypeOK /\ WorkInv /\ StableInv
  BY DEF RoutingInv
<1>3. Len(site.rules) \in Nat /\ k \in Nat /\ site \in Sites
  BY <1>2, SiteShape DEF RoutingTypeOK
<1>4. /\ k = Len(site.rules) + 1 /\ ListDone
      /\ ~err => AllEnsured /\ RoutesUpTo(routes, site, k, beMap)
  BY <1>1, <1>2, <1>3 DEF WorkInv
<1>5. RoutingTypeOK'
  BY <1>1, <1>2 DEF RoutingTypeOK, cloud, locals
<1>6. ListDone' /\ (AllEnsured => AllEnsured')
  BY <1>1, <1>4, ListKept, EnsuredKept DEF cloud, locals
<1>7. WorkInv'
  BY <1>1, <1>4, <1>6 DEF WorkInv, locals
<1>8. StableInv'
  BY <1>1, <1>2, StableKept DEF StableInv
<1> QED BY <1>5, <1>7, <1>8 DEF RoutingInv

\* Routes to the same ports are the same.
LEMMA SameRoutes ==
  ASSUME NEW s, NEW p, NEW q,
         \A h \in DOMAIN Wanted(s) : \A u \in DOMAIN Wanted(s)[h] :
           p[Wanted(s)[h][u].svc] = q[Wanted(s)[h][u].svc]
  PROVE  RoutesFor(s, p) = RoutesFor(s, q)
<1>1. ASSUME NEW h \in DOMAIN Wanted(s)
      PROVE  MatcherFor(s.rules[LastRule(s, h)], p) = MatcherFor(s.rules[LastRule(s, h)], q)
  <2>1. Wanted(s)[h] = WantedOf(s.rules[LastRule(s, h)])
    BY DEF Wanted
  <2> QED BY <2>1 DEF MatcherFor
<1> QED BY <1>1 DEF RoutesFor

\* Without an unrouted path, every backend of the ingress has a port.
LEMMA AllRouted ==
  ASSUME ~Unrouted(site), site.backend # None => beMap[site.backend.svc] # None
  PROVE  \A b \in BackendsOf(site) : beMap[b.svc] # None
BY DEF BackendsOf, HTTPRules, Unrouted

\* The routes that the definition of Wanted asks for.
LEMMA RoutesForShape ==
  ASSUME NEW s, NEW port
  PROVE  /\ DOMAIN RoutesFor(s, port) = DOMAIN Wanted(s)
         /\ \A h \in DOMAIN Wanted(s) :
              /\ DOMAIN RoutesFor(s, port)[h] = DOMAIN Wanted(s)[h]
              /\ \A u \in DOMAIN Wanted(s)[h] :
                   RoutesFor(s, port)[h][u] = port[Wanted(s)[h][u].svc]
<1>1. DOMAIN RoutesFor(s, port) = DOMAIN Wanted(s)
  BY DEF RoutesFor
<1>2. ASSUME NEW h \in DOMAIN Wanted(s)
      PROVE  /\ DOMAIN RoutesFor(s, port)[h] = DOMAIN Wanted(s)[h]
             /\ \A u \in DOMAIN Wanted(s)[h] :
                  RoutesFor(s, port)[h][u] = port[Wanted(s)[h][u].svc]
  <2> DEFINE r == s.rules[LastRule(s, h)]
  <2>1. Wanted(s)[h] = WantedOf(r)
    BY DEF Wanted
  <2>2. RoutesFor(s, port)[h] = MatcherFor(r, port)
    BY DEF RoutesFor
  <2> HIDE DEF r
  <2> QED BY <2>1, <2>2 DEF MatcherFor
<1> QED BY <1>1, <1>2

\* What has at most one element is listed in one way.
LEMMA OneListing ==
  ASSUME NEW S, \A x, y \in S : x = y, NEW l \in Listings(S), NEW m \in Listings(S)
  PROVE  l = m
<1> DEFINE D == 1..Cardinality(S)
<1>1. l \in [D -> S] /\ m \in [D -> S]
  BY DEF Listings
<1> HIDE DEF D
<1>2. \A i \in D : l[i] \in S /\ m[i] \in S
  BY <1>1
<1>3. \A i \in D : l[i] = m[i]
  BY <1>2
<1>4. \A f, g \in [D -> S] : (\A i \in D : f[i] = g[i]) => f = g
  OBVIOUS
<1> QED BY <1>1, <1>3, <1>4, Zenon

\* One host with one path leaves one order.
LEMMA SameOrder ==
  ASSUME NEW s, NEW p, OneOrder(s),
         NEW a \in Orders(RoutesFor(s, p)), NEW b \in Orders(RoutesFor(s, p))
  PROVE  a = b
<1> DEFINE r == RoutesFor(s, p)
           f == [h \in DOMAIN r |-> Listings(DOMAIN r[h])]
<1>1. DOMAIN r = DOMAIN Wanted(s) /\ \A h \in DOMAIN r : DOMAIN r[h] = DOMAIN Wanted(s)[h]
  BY RoutesForShape
<1>2. /\ \A g, h \in DOMAIN r : g = h
      /\ \A h \in DOMAIN r : \A u, v \in DOMAIN r[h] : u = v
  BY <1>1 DEF OneOrder
<1> HIDE DEF r
<1>3. /\ a \in [hosts : Listings(DOMAIN r), paths : Choices(f)]
      /\ b \in [hosts : Listings(DOMAIN r), paths : Choices(f)]
  BY DEF Orders, r
<1>6. \A c, d \in [hosts : Listings(DOMAIN r), paths : Choices(f)] :
        c.hosts = d.hosts /\ c.paths = d.paths => c = d
  OBVIOUS
<1>4. a.hosts = b.hosts
  BY <1>2, <1>3, OneListing
<1>5. a.paths = b.paths
  <2> DEFINE T == UNION {f[h] : h \in DOMAIN f}
  <2>1. a.paths \in [DOMAIN r -> T] /\ b.paths \in [DOMAIN r -> T]
    BY <1>3 DEF Choices
  <2>2. ASSUME NEW h \in DOMAIN r PROVE a.paths[h] = b.paths[h]
    <3>1. a.paths[h] \in Listings(DOMAIN r[h]) /\ b.paths[h] \in Listings(DOMAIN r[h])
      BY <1>3 DEF Choices
    <3> QED BY <1>2, <3>1, OneListing
  <2> HIDE DEF T
  <2> QED BY <2>1, <2>2
<1> QED BY <1>3, <1>4, <1>5, <1>6

\* Two maps for the same ports then are the same.
LEMMA SameMap ==
  ASSUME NEW s, NEW p, OneOrder(s), NEW m, NEW n, MadeFor(m, s, p), MadeFor(n, s, p)
  PROVE  m = n
<1>1. m.order = n.order
  BY SameOrder DEF MadeFor
<1> QED BY <1>1 DEF MadeFor

LEMMA EnsureURLMapRouting ==
  ASSUME RoutingInv, EnsureURLMap
  PROVE  RoutingInv'
<1> DEFINE bad == Unrouted(site) \/ site.backend = None \/ beMap[site.backend.svc] = None
           newIn(order) == [default |-> beMap[site.backend.svc], rules |-> routes,
                            order |-> order]
<1>1. /\ pc = "urlMap" /\ pc' = "done"
      /\ UNCHANGED <<hc, be, table, site, force, locals, stable>>
  BY DEF EnsureURLMap
<1>2. PICK o, order : /\ um' = o.res /\ Record(o)
                      /\ IF bad THEN o = Refused(um)
                                ELSE o \in ensure(um, newIn(order)) /\ order \in Orders(routes)
  <2>1. CASE bad
    <3>1. um' = um /\ Record(Refused(um))
      BY <2>1 DEF EnsureURLMap
    <3>2. um = Refused(um).res
      BY DEF Refused
    <3> QED BY <2>1, <3>1, <3>2
  <2>2. CASE ~bad
    BY <2>2 DEF EnsureURLMap
  <2> QED BY <2>1, <2>2
<1>3. RoutingTypeOK /\ WorkInv /\ StableInv
  BY DEF RoutingInv
<1>4. /\ site \in Sites /\ force \in BOOLEAN
      /\ stable # None => stable \in [site : Sites, faults : Nat] /\ stable.faults <= faults
      /\ faults \in Nat
  BY <1>3 DEF RoutingTypeOK
<1>5. /\ ListDone
      /\ ~err => AllEnsured /\ RoutesUpTo(routes, site, Len(site.rules) + 1, beMap)
  BY <1>1, <1>3 DEF WorkInv
<1>6. ~err => /\ routes = RoutesFor(site, beMap)
              /\ WantedListed
  BY <1>4, <1>5, RoutesComplete DEF WantedListed
<1> DEFINE new == newIn(order)
<1>14. ~err /\ ~bad => MadeFor(new, site, beMap)
  BY <1>2, <1>6 DEF MadeFor
<1> HIDE DEF bad, new
<1>7. /\ o.err \in BOOLEAN /\ o.fault \in BOOLEAN
      /\ ~o.err => ~bad /\ o.res = new
      /\ um = new /\ ~bad /\ ~o.fault => ~o.err
  <2>1. CASE bad
    <3>1. o = Refused(um)
      BY <1>2, <2>1
    <3> QED BY <2>1, <3>1 DEF Refused
  <2>2. CASE ~bad
    <3>1. o \in ensure(um, new)
      BY <1>2, <2>2 DEF new
    <3> QED BY <1>4, <2>2, <3>1, EnsureHere
  <2> QED BY <2>1, <2>2
<1>8. /\ faults' \in Nat /\ faults <= faults' /\ faults' \in {faults, faults + 1}
      /\ o.fault => faults' # faults
      /\ err' \in BOOLEAN /\ err' = (err \/ o.err)
  BY <1>2, <1>3, <1>7, Recorded
<1>9. RoutingTypeOK'
  <2>1. stable' # None => stable' \in [site : Sites, faults : Nat] /\ stable'.faults <= faults'
    BY <1>1, <1>4, <1>8
  <2> QED BY <1>1, <1>3, <1>8, <2>1 DEF RoutingTypeOK, locals
<1>10. ListDone'
  BY <1>1, <1>5, ListKept DEF locals
<1>11. ASSUME ~err'
       PROVE  /\ AllEnsured'
              /\ site'.backend # None
              /\ \A b \in BackendsOf(site') : beMap'[b.svc] # None
              /\ WantedListed'
              /\ MadeFor(um', site', beMap')
  <2>1. ~err /\ ~o.err /\ ~bad /\ um' = new
    BY <1>2, <1>7, <1>8, <1>11
  <2>2. AllEnsured'
    BY <1>1, <1>5, <2>1, EnsuredKept DEF locals
  <2>3. site.backend # None /\ \A b \in BackendsOf(site) : beMap[b.svc] # None
    BY <2>1, AllRouted DEF bad
  <2>4. WantedListed'
    BY <1>1, <1>6, <2>1 DEF WantedListed
  <2>5. MadeFor(um', site, beMap)
    BY <1>14, <2>1
  <2> QED BY <1>1, <2>2, <2>3, <2>4, <2>5 DEF locals
<1>12. WorkInv'
  BY <1>1, <1>10, <1>11 DEF WorkInv
<1>13. StableInv'
  <2>1. ASSUME Again, faults' = faults PROVE UNCHANGED cloud /\ ~err'
    <3>1. Settled /\ ~err
      BY <1>3, <2>1 DEF StableInv
    <3>2. \A b \in BackendsOf(site) : beMap[b.svc] # None /\ beMap[b.svc] = Targets(site)[b.svc]
      BY <1>3, <1>5, <3>1, AgainRouted DEF AllEnsured
    <3>3. site.backend # None /\ site.backend \in BackendsOf(site)
      BY <3>1 DEF Settled, BackendsOf
    <3>4. ~bad
      <4>1. ~Unrouted(site)
        BY <3>2 DEF Unrouted, BackendsOf, HTTPRules
      <4> QED BY <3>2, <3>3, <4>1 DEF bad
    <3>5. RoutesFor(site, beMap) = RoutesFor(site, Targets(site))
      <4>1. \A h \in DOMAIN Wanted(site) : \A u \in DOMAIN Wanted(site)[h] :
              beMap[Wanted(site)[h][u].svc] = Targets(site)[Wanted(site)[h][u].svc]
        BY <1>6, <3>1, <3>2 DEF WantedListed
      <4> QED BY <4>1, SameRoutes
    <3>6. um = new
      <4>1. MadeFor(um, site, Targets(site))
        BY <3>1 DEF Settled
      <4>2. MadeFor(um, site, beMap)
        BY <3>2, <3>3, <3>5, <4>1 DEF MadeFor
      <4> QED BY <1>14, <2>1, <3>1, <3>4, <4>2, SameMap DEF Again
    <3>7. ~o.err /\ um' = um
      BY <1>2, <1>7, <1>8, <2>1, <3>4, <3>6
    <3> QED BY <1>1, <1>8, <3>1, <3>7 DEF cloud
  <2> QED BY <1>1, <1>3, <1>8, <2>1, StableKept
<1> QED BY <1>9, <1>12, <1>13 DEF RoutingInv

\* The services of the backends are services.
LEMMA BackendService ==
  ASSUME NEW s \in Sites, NEW b \in BackendsOf(s)
  PROVE  b \in Backends /\ b.svc \in Services
<1>1. PICK x, y \in Nat : Entry(s, x, y) /\ b = At(s, x, y)
  BY BackendEntry
<1>2. b \in Backends
  BY <1>1, EntryBackend
<1> QED BY <1>2 DEF Backends

\* Every known entry is in the list, and its resources are what they should be.
LEMMA EntryHeld ==
  ASSUME RoutingTypeOK, ListDone, AllEnsured, NEW x \in Nat, NEW y \in Nat, Known(site, x, y)
  PROVE  \E i \in 1..Len(ports) : ports[i] = At(site, x, y) /\ Holds(hc, i) /\ Holds(be, i)
<1>1. site \in Sites /\ Len(ports) \in Nat
  BY LenProperties DEF RoutingTypeOK
<1>2. PICK i \in 1..Len(ports) : ports[i] = At(site, x, y)
  BY <1>1, AllPassed DEF ListDone, PortsUpTo
<1>3. Holds(hc, i) /\ Holds(be, i)
  BY <1>1 DEF AllEnsured, HealthUpTo, BackendsUpTo
<1> QED BY <1>2, <1>3

\* A create without an error leaves the cloud settled, if ports have one name.
LEMMA DoneSettled ==
  ASSUME RoutingTypeOK, WorkInv, pc = "done", ~err, OneNamePerPort(site)
  PROVE  Settled
<1>1. /\ ListDone /\ AllEnsured
      /\ site.backend # None
      /\ \A b \in BackendsOf(site) : beMap[b.svc] # None
      /\ WantedListed
      /\ MadeFor(um, site, beMap)
  BY DEF WorkInv
<1>2. site \in Sites /\ table \in Tables
  BY DEF RoutingTypeOK
<1>3. ASSUME NEW b \in BackendsOf(site)
      PROVE  /\ LastPort(site, b.svc, beMap[b.svc]) /\ beMap[b.svc] \in NodePorts
             /\ beMap[b.svc] = Targets(site)[b.svc]
  <2>1. b.svc \in Services /\ beMap[b.svc] # None
    BY <1>1, <1>2, BackendService
  <2>2. LastPort(site, b.svc, beMap[b.svc])
    BY <1>1, <2>1, BackendMapLast DEF AllEnsured
  <2> QED BY <1>2, <2>1, <2>2, LastPortPort, TargetIs
<1>4. ASSUME NEW x \in Nat, NEW y \in Nat, Known(site, x, y)
      PROVE  LET b == At(site, x, y)
             IN  hc[GetServiceNodePort(b)] = b /\ be[GetServiceNodePort(b)] = b
  <2>1. PICK i \in 1..Len(ports) : ports[i] = At(site, x, y) /\ Holds(hc, i) /\ Holds(be, i)
    BY <1>1, <1>4, EntryHeld
  <2> QED BY <2>1 DEF Holds, Port
<1>5. MadeFor(um, site, Targets(site))
  <2>1. RoutesFor(site, beMap) = RoutesFor(site, Targets(site))
    <3>1. \A h \in DOMAIN Wanted(site) : \A u \in DOMAIN Wanted(site)[h] :
            beMap[Wanted(site)[h][u].svc] = Targets(site)[Wanted(site)[h][u].svc]
      BY <1>1, <1>3 DEF WantedListed
    <3> QED BY <3>1, SameRoutes
  <2>2. site.backend \in BackendsOf(site)
    BY <1>1 DEF BackendsOf
  <2> QED BY <1>1, <1>3, <2>1, <2>2 DEF MadeFor
<1>6. \A b \in BackendsOf(site) : \E n \in NodePorts : LastPort(site, b.svc, n)
  BY <1>3
<1> QED BY <1>1, <1>4, <1>5, <1>6 DEF Settled

LEMMA ReturnRouting ==
  ASSUME RoutingInv, Return
  PROVE  RoutingInv'
<1>1. /\ pc = "done" /\ pc' = "idle" /\ force' = FALSE /\ err' = FALSE
      /\ ports' = <<>> /\ k' = 1 /\ j' = 1 /\ hcMap' = {}
      /\ beMap' = [s \in Services |-> None]
      /\ matcher' = Empty /\ routes' = Empty
      /\ stable' = IF err THEN None ELSE [site |-> site, faults |-> faults]
      /\ UNCHANGED <<cloud, table, site, faults>>
  BY DEF Return
<1>2. RoutingTypeOK /\ WorkInv
  BY DEF RoutingInv
<1>3. site \in Sites /\ faults \in Nat
  BY <1>2 DEF RoutingTypeOK
<1>4. stable' # None => /\ ~err /\ stable'.site = site /\ stable'.faults = faults
                        /\ stable' \in [site : Sites, faults : Nat]
  BY <1>1, <1>3
<1>5. RoutingTypeOK'
  <2>1. stable' # None => stable' \in [site : Sites, faults : Nat] /\ stable'.faults <= faults'
    BY <1>1, <1>3, <1>4
  <2>2. ports' \in Seq(Backends) /\ beMap' \in [Services -> NodePorts \cup {None}]
    BY <1>1
  <2>3. /\ hc' \in [NodePorts -> Backends \cup {None}] /\ be' \in [NodePorts -> Backends \cup {None}]
        /\ table' \in Tables /\ site' \in Sites /\ faults' \in Nat
    <3>1. hc' = hc /\ be' = be /\ table' = table /\ site' = site /\ faults' = faults
      BY <1>1 DEF cloud
    <3>2. /\ hc \in [NodePorts -> Backends \cup {None}] /\ be \in [NodePorts -> Backends \cup {None}]
          /\ table \in Tables /\ site \in Sites /\ faults \in Nat
      BY <1>2 DEF RoutingTypeOK
    <3> QED BY ONLY <3>1, <3>2
  <2>4. /\ pc' \in {"idle", "ports", "health", "backends", "rules", "urlMap", "done"}
        /\ force' \in BOOLEAN /\ err' \in BOOLEAN /\ k' \in Nat \ {0} /\ j' \in Nat \ {0}
        /\ hcMap' \subseteq NodePorts
    <3>1. pc' = "idle" /\ k' = 1 /\ j' = 1 /\ hcMap' = {}
      BY <1>1
    <3>2. force' \in BOOLEAN /\ err' \in BOOLEAN
      BY <1>1, Zenon
    <3> QED BY ONLY <3>1, <3>2
  <2> QED BY <2>1, <2>2, <2>3, <2>4 DEF RoutingTypeOK
<1>6. WorkInv'
  BY <1>1 DEF WorkInv, NoRoutes, NoBackends, Empty
<1>7. StableInv'
  <2>1. stable' # None => stable'.site = site'
    BY <1>1, <1>4
  <2>2. ASSUME Again' PROVE Settled'
    <3>1. OneNamePerPort(site) /\ ~err
      BY <1>1, <1>4, <2>2 DEF Again, OneNamePerPort, GetServiceNodePort
    <3>2. Settled
      BY <1>1, <1>2, <3>1, DoneSettled
    <3> QED BY <1>1, <3>2, SettledKept
  <2> QED BY <1>1, <2>1, <2>2 DEF StableInv
<1> QED BY <1>5, <1>6, <1>7 DEF RoutingInv

LEMMA ChangeServicesRouting ==
  ASSUME RoutingInv, ChangeServices
  PROVE  RoutingInv'
<1>1. /\ pc = "idle" /\ table' \in Tables /\ stable' = None
      /\ UNCHANGED <<cloud, pc, site, force, locals, err, faults>>
  BY DEF ChangeServices
<1>2. RoutingTypeOK /\ WorkInv
  BY DEF RoutingInv
<1>3. RoutingTypeOK'
  BY <1>1, <1>2 DEF RoutingTypeOK, cloud, locals
<1>4. WorkInv'
  <2>1. NoRoutes /\ NoBackends /\ k = 1 /\ j = 1 /\ ~err
    BY <1>1, <1>2 DEF WorkInv
  <2>2. NoRoutes' /\ NoBackends' /\ k' = 1 /\ j' = 1 /\ ~err'
    BY <1>1, <2>1 DEF NoRoutes, NoBackends, locals
  <2> QED BY <1>1, <2>2 DEF WorkInv
<1>5. StableInv'
  BY <1>1 DEF StableInv, Again
<1> QED BY <1>3, <1>4, <1>5 DEF RoutingInv

LEMMA StutterRouting ==
  ASSUME RoutingInv, UNCHANGED vars
  PROVE  RoutingInv'
<1>1. UNCHANGED <<hc, be, um, table, pc, site, force, err, stable, faults>> /\ UNCHANGED locals
  BY DEF vars, cloud
<1>2. RoutingTypeOK /\ WorkInv /\ StableInv
  BY DEF RoutingInv
<1>3. RoutingTypeOK'
  BY <1>1, <1>2 DEF RoutingTypeOK, locals
<1>4. WorkInv'
  <2>1. (ListDone' <=> ListDone) /\ (AllEnsured' <=> AllEnsured)
    BY <1>1, ListKept, EnsuredKept DEF locals
  <2>2. /\ PortsUpTo(k, j)' <=> PortsUpTo(k, j)
        /\ HealthUpTo(k)' <=> HealthUpTo(k)
        /\ BackendsUpTo(k)' <=> BackendsUpTo(k)
        /\ (HealthUpTo(Len(ports) + 1))' <=> HealthUpTo(Len(ports) + 1)
    BY <1>1 DEF locals, PortsUpTo, HealthUpTo, BackendsUpTo, Passed, Known, Entry, At,
                Holds, Port, OneNamePerPort, GetServiceNodePort
  <2>3. (NoRoutes' <=> NoRoutes) /\ (NoBackends' <=> NoBackends) /\ (WantedListed' <=> WantedListed)
    BY <1>1 DEF NoRoutes, NoBackends, WantedListed, locals
  <2>4. Rule' = Rule
    BY <1>1 DEF Rule, locals
  <2>5. UNCHANGED <<ports, k, j, beMap, matcher, routes>>
    BY <1>1 DEF locals
  <2> QED BY <1>1, <1>2, <2>1, <2>2, <2>3, <2>4, <2>5 DEF WorkInv
<1>5. StableInv'
  <2>1. Again' => Again
    BY <1>1 DEF Again, OneNamePerPort, GetServiceNodePort
  <2>2. Settled => Settled'
    BY <1>1, SettledKept DEF cloud
  <2> QED BY <1>1, <1>2, <2>1, <2>2 DEF StableInv
<1> QED BY <1>3, <1>4, <1>5 DEF RoutingInv

LEMMA NextRouting ==
  ASSUME RoutingInv, [Next]_vars
  PROVE  RoutingInv'
<1>1. CASE \E s \in Sites, f \in BOOLEAN : Run(s, f)
  BY <1>1, RunRouting
<1>2. CASE listPath
  BY <1>2, ListPathRouting
<1>3. CASE listRule
  BY <1>3, ListRuleRouting
<1>4. CASE endOfList
  BY <1>4, EndOfListRouting
<1>5. CASE ensureHealthCheck
  BY <1>5, EnsureHealthCheckRouting
<1>6. CASE ensureBackendService
  BY <1>6, EnsureBackendServiceRouting
<1>7. CASE endOfPorts
  BY <1>7, EndOfPortsRouting
<1>8. CASE routePath
  BY <1>8, RoutePathRouting
<1>9. CASE routeRule
  BY <1>9, RouteRuleRouting
<1>10. CASE endOfRules
  BY <1>10, EndOfRulesRouting
<1>11. CASE EnsureURLMap
  BY <1>11, EnsureURLMapRouting
<1>12. CASE Return
  BY <1>12, ReturnRouting
<1>13. CASE ChangeServices
  BY <1>13, ChangeServicesRouting
<1>14. CASE UNCHANGED vars
  BY <1>14, StutterRouting
<1> QED BY <1>1, <1>2, <1>3, <1>4, <1>5, <1>6, <1>7, <1>8, <1>9, <1>10, <1>11, <1>12,
           <1>13, <1>14 DEF Next

LEMMA RoutingInvariant == Spec => []RoutingInv
<1>1. RoutingInv /\ [Next]_vars => RoutingInv'
  BY NextRouting
<1> QED BY InitRouting, <1>1, PTL DEF Spec

-----------------------------------------------------------------------------
\* A create that reports no error has the routes of the ingress, each to the
\* port of the last known entry of its service.
LEMMA RoutesDone ==
  ASSUME RoutingInv, pc = "done", ~err
  PROVE  /\ ListDone /\ AllEnsured /\ site.backend \in BackendsOf(site)
         /\ um.default = beMap[site.backend.svc]
         /\ DOMAIN um.rules = DOMAIN Wanted(site)
         /\ \A h \in DOMAIN um.rules :
              /\ DOMAIN um.rules[h] = DOMAIN Wanted(site)[h]
              /\ \A u \in DOMAIN um.rules[h] :
                   /\ Wanted(site)[h][u] \in BackendsOf(site)
                   /\ um.rules[h][u] = beMap[Wanted(site)[h][u].svc]
         /\ \A b \in BackendsOf(site) : \E x, y \in Nat :
              /\ Known(site, x, y) /\ At(site, x, y).svc = b.svc
              /\ beMap[b.svc] = GetServiceNodePort(At(site, x, y))
<1>1. RoutingTypeOK /\ WorkInv
  BY DEF RoutingInv
<1>2. /\ ListDone /\ AllEnsured
      /\ site.backend # None
      /\ \A b \in BackendsOf(site) : beMap[b.svc] # None
      /\ WantedListed
      /\ MadeFor(um, site, beMap)
  BY <1>1 DEF WorkInv
<1>3. um.default = beMap[site.backend.svc] /\ um.rules = RoutesFor(site, beMap)
  BY <1>2 DEF MadeFor
<1>4. site \in Sites
  BY <1>1 DEF RoutingTypeOK
<1>5. ASSUME NEW b \in BackendsOf(site)
      PROVE  \E x, y \in Nat : /\ Known(site, x, y) /\ At(site, x, y).svc = b.svc
                               /\ beMap[b.svc] = GetServiceNodePort(At(site, x, y))
  <2>1. b.svc \in Services /\ beMap[b.svc] # None
    BY <1>2, <1>4, BackendService
  <2>2. LastPort(site, b.svc, beMap[b.svc])
    BY <1>1, <1>2, <2>1, BackendMapLast DEF AllEnsured
  <2> QED BY <2>2 DEF LastPort, LastOf
<1>6. site.backend \in BackendsOf(site)
  BY <1>2 DEF BackendsOf
<1>7. DOMAIN um.rules = DOMAIN Wanted(site)
  BY <1>3, RoutesForShape
<1>8. ASSUME NEW h \in DOMAIN um.rules
      PROVE  /\ DOMAIN um.rules[h] = DOMAIN Wanted(site)[h]
             /\ \A u \in DOMAIN um.rules[h] :
                  /\ Wanted(site)[h][u] \in BackendsOf(site)
                  /\ um.rules[h][u] = beMap[Wanted(site)[h][u].svc]
  BY <1>2, <1>3, <1>7, RoutesForShape DEF WantedListed
<1> QED BY <1>2, <1>3, <1>5, <1>6, <1>7, <1>8

(***************************************************************************)
(* RoutesWritten: for every ingress, every table of services and any       *)
(* number of hosts, paths and ports, a create that reports no error has    *)
(* made the url map that ingToURLMap should make: every host and path of   *)
(* the ingress leads to its own node port, provided that no service is     *)
(* used with two ports.                                                    *)
(***************************************************************************)
THEOREM RoutesWritten == Spec => []RoutesAsWritten
<1>1. RoutingInv => RoutesAsWritten
  <2> SUFFICES ASSUME RoutingInv, pc = "done", ~err, OnePortPerService(site)
               PROVE  RoutesMatch(site, RoutedTo)
    BY DEF RoutesAsWritten
  <2>1. site \in Sites
    BY DEF RoutingInv, RoutingTypeOK
  <2>2. ASSUME NEW b \in BackendsOf(site) PROVE beMap[b.svc] = GetServiceNodePort(b)
    <3>1. PICK x, y \in Nat : /\ Known(site, x, y) /\ At(site, x, y).svc = b.svc
                              /\ beMap[b.svc] = GetServiceNodePort(At(site, x, y))
      BY RoutesDone
    <3>2. At(site, x, y) \in BackendsOf(site)
      BY <2>1, <3>1, EntryBackend DEF Known
    <3> QED BY <3>1, <3>2 DEF OnePortPerService
  <2> QED BY <2>2, RoutesDone DEF RoutesMatch, RoutedTo
<1> QED BY <1>1, RoutingInvariant, PTL

(***************************************************************************)
(* RoutesKeepService: for every ingress and however the services changed   *)
(* their ports between creates, a create that reports no error leaves no   *)
(* route of the url map to a backend service or a health check of another  *)
(* service than the route's.                                               *)
(***************************************************************************)
THEOREM RoutesKeepService == Spec => []RoutedToItsService
<1>1. RoutingInv => RoutedToItsService
  <2> SUFFICES ASSUME RoutingInv, pc = "done", ~err
               PROVE  RoutesMatch(site, BelongsTo)
    BY DEF RoutedToItsService
  <2>1. ASSUME NEW b \in BackendsOf(site) PROVE BelongsTo(b, beMap[b.svc])
    <3>1. PICK x, y \in Nat : /\ Known(site, x, y) /\ At(site, x, y).svc = b.svc
                              /\ beMap[b.svc] = GetServiceNodePort(At(site, x, y))
      BY RoutesDone
    <3>2. PICK i \in 1..Len(ports) : ports[i] = At(site, x, y) /\ Holds(hc, i) /\ Holds(be, i)
      BY <3>1, RoutesDone, EntryHeld DEF RoutingInv
    <3> QED BY <3>1, <3>2 DEF BelongsTo, Holds, Port
  <2> QED BY <2>1, RoutesDone DEF RoutesMatch
<1> QED BY <1>1, RoutingInvariant, PTL

(***************************************************************************)
(* RecreatesWithoutForce: for every ingress, running the create that just  *)
(* succeeded once more reports an error only if a call fails, without      *)
(* --force too, provided that the ingress refers to each port in one way   *)
(* and that its hosts and paths can be listed in one order only.           *)
(***************************************************************************)
THEOREM RecreatesWithoutForce == Spec => []RecreateWithoutForce
<1>1. RoutingInv => RecreateWithoutForce
  <2> SUFFICES ASSUME RoutingInv, pc = "done", stable = [site |-> site, faults |-> faults],
                      OneNamePerPort(site), OneOrder(site)
               PROVE  ~err
    BY DEF RecreateWithoutForce
  <2>1. site \in Sites /\ faults \in Nat
    BY DEF RoutingInv, RoutingTypeOK
  <2>2. stable # None /\ stable.site = site /\ stable.faults = faults
    BY <2>1, RoutingAssumption
  <2> QED BY <2>2 DEF RoutingInv, StableInv, Again
<1> QED BY <1>1, RoutingInvariant, PTL

=============================================================================
