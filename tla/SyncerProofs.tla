---------------------------- MODULE SyncerProofs ----------------------------
(***************************************************************************)
(* What one call of a syncer may do to its resource: lemmas about the      *)
(* outcomes that the ensure, delete and remove methods allow.  They serve  *)
(* the type invariant and the references alike.                            *)
(***************************************************************************)
EXTENDS HealthCheckSyncer, BackendServiceSyncer, URLMapSyncer, TargetProxySyncer,
        ForwardingRuleSyncer, SSLCertSyncer, FirewallRuleSyncer, IngressSyncer,
        CloudAPIProofs

\* The values of the variables, with None for a resource that is missing.
HCs == HealthChecks \cup {None}
BEs == BackendServices \cup {None}
UMs == URLMaps \cup {None}
TPs == TargetProxies \cup {None}
FRs == ForwardingRules \cup {None}
Certs == CertData \cup {None}
FWs == FirewallRules \cup {None}
Ings == Ingresses \cup {None}

(***************************************************************************)
(* None is none of the resources that a syncer asks for.                   *)
(***************************************************************************)
LEMMA NoneIsNoResource ==
  /\ None \notin HealthChecks /\ None \notin BackendServices
  /\ None \notin URLMaps /\ None \notin TargetProxies
  /\ None \notin ForwardingRules /\ None \notin FirewallRules
  /\ None \notin Ingresses /\ None \notin CertData
BY NoneOfHealthChecks, NoneOfBackendServices, NoneOfURLMaps, NoneOfTargetProxies,
   NoneOfForwardingRules, NoneOfFirewallRules, NoneOfIngresses, NoneAssumption

-----------------------------------------------------------------------------
\* What EnsureHealthCheck leaves, port by port.
HealthChecksEnsured(ports, clients, force, o) ==
  \A p \in NodePorts :
    /\ Results(o)[p] = o[p].res
    /\ hc[p] # None => o[p].res # None
    /\ hc[p] # None /\ ~force => o[p].res = hc[p]
    /\ ports[p] # None /\ ~o[p].err =>
         /\ PathsAgree(ports[p], clients)
         /\ o[p].res # None
         /\ o[p].res = desiredHealthCheck(ports[p],
                         getHealthCheckPath(ports[p], clients))
    /\ o[p].err => ports[p] # None
    /\ o[p].err /\ force => AnyFault(o) \/ ~PathsAgree(ports[p], clients)

(***************************************************************************)
(* EnsureHealthCheck types its results, keeps every health check that      *)
(* exists, and leaves the desired one for every port it reports no error   *)
(* for; under --force only a fault or different probe paths make it fail.  *)
(***************************************************************************)
LEMMA EnsureHealthCheckOutcome ==
  ASSUME HealthCheckTypeOK, NEW ports \in [NodePorts -> Services \cup {None}],
         NEW clients \in SUBSET Clusters, NEW force \in BOOLEAN,
         NEW o \in EnsureHealthCheck(ports, clients, force)
  PROVE  /\ Results(o) \in [NodePorts -> HCs]
         /\ AnyErr(o) \in BOOLEAN /\ AnyFault(o) \in BOOLEAN
         /\ AnyErr(o) <=> \E p \in NodePorts : o[p].err
         /\ HealthChecksEnsured(ports, clients, force, o)
<1> DEFINE f == [p \in NodePorts |->
        CASE ports[p] = None -> {Ok(hc[p])}
          [] ports[p] # None /\ ~PathsAgree(ports[p], clients) ->
               {Refused(hc[p])} \cup Faulty({hc[p]})
          [] ports[p] # None /\ PathsAgree(ports[p], clients) ->
               Faulty({hc[p]}) \cup
               ensureHealthCheck(p, ports[p],
                                 getHealthCheckPath(ports[p], clients), force)]
<1>1. ASSUME NEW p \in NodePorts, NEW r \in f[p]
      PROVE  /\ r \in Outcomes(HCs)
             /\ hc[p] # None => r.res # None
             /\ hc[p] # None /\ ~force => r.res = hc[p]
             /\ ports[p] # None /\ ~r.err =>
                  /\ PathsAgree(ports[p], clients)
                  /\ r.res # None
                  /\ r.res = desiredHealthCheck(ports[p],
                               getHealthCheckPath(ports[p], clients))
             /\ r.err => ports[p] # None
             /\ r.err /\ force => r.fault \/ ~PathsAgree(ports[p], clients)
  <2>1. hc[p] \in HCs
    BY DEF HealthCheckTypeOK, HCs
  <2>2. CASE ports[p] = None /\ r = Ok(hc[p])
    <3>1. r \in Outcomes(HCs) /\ r.res = hc[p] /\ ~r.err
      BY <2>1, <2>2, OkOutcome
    <3> QED BY <2>2, <3>1
  <2>3. CASE ports[p] # None /\ r = Refused(hc[p]) /\ ~PathsAgree(ports[p], clients)
    <3>1. r \in Outcomes({hc[p]}) /\ r.res = hc[p] /\ r.err
      BY <2>3, FailedOutcome
    <3> QED BY <2>1, <2>3, <3>1, WiderOutcome
  <2>4. CASE ports[p] # None /\ r \in Faulty({hc[p]})
    <3>1. r \in Outcomes({hc[p]}) /\ r.res = hc[p] /\ r.err /\ r.fault
      BY <2>4, FaultyOutcome
    <3> QED BY <2>1, <2>4, <3>1, WiderOutcome
  <2>5. CASE /\ ports[p] # None /\ PathsAgree(ports[p], clients)
             /\ r \in ensureHealthCheck(p, ports[p],
                        getHealthCheckPath(ports[p], clients), force)
    <3> DEFINE path == getHealthCheckPath(ports[p], clients)
               desired == desiredHealthCheck(ports[p], path)
    <3>1. ports[p] \in Services
      BY <2>5
    <3>2. path \in Paths
      <4>1. ProbePaths(ports[p], clients) \subseteq Paths
        BY <3>1, ConfigAssumption DEF ProbePaths
      <4> QED BY <4>1, ConfigAssumption DEF getHealthCheckPath
    <3>3. desired \in HCs /\ desired # None
      <4>1. desired \in HealthChecks
        BY <3>1, <3>2 DEF desiredHealthCheck, HealthChecks
      <4> QED BY <4>1, NoneIsNoResource DEF HCs
    <3>4. EnsureEnds(hc[p], desired, force, r)
      BY <2>5 DEF ensureHealthCheck, Ensure, EnsureEnds
    <3> HIDE DEF f, path, desired
    <3>5. /\ r \in Outcomes({hc[p], desired})
          /\ hc[p] # None => r.res # None
          /\ hc[p] # None /\ ~force => r.res = hc[p]
          /\ ~r.err => r.res = desired
          /\ r.err /\ force => r.fault
      BY <3>3, <3>4, EnsureOutcome
    <3>6. r \in Outcomes(HCs)
      BY <2>1, <3>3, <3>5, WiderOutcome
    <3> QED BY <2>5, <3>3, <3>5, <3>6 DEF desired, path
  <2> QED BY <2>2, <2>3, <2>4, <2>5
<1>2. o \in Choices(f) /\ DOMAIN f = NodePorts
  BY DEF EnsureHealthCheck
<1> HIDE DEF f
<1>3. \A p \in NodePorts : f[p] \subseteq Outcomes(HCs)
  BY <1>1
<1>4. /\ Results(o) \in [NodePorts -> HCs]
      /\ \A p \in NodePorts : o[p] \in f[p] /\ Results(o)[p] = o[p].res
      /\ AnyErr(o) \in BOOLEAN /\ AnyFault(o) \in BOOLEAN
      /\ AnyErr(o) <=> \E p \in NodePorts : o[p].err
      /\ AnyFault(o) <=> \E p \in NodePorts : o[p].fault
  BY ONLY <1>2, <1>3, ChoiceOutcome
<1>5. HealthChecksEnsured(ports, clients, force, o)
  BY <1>1, <1>4 DEF HealthChecksEnsured
<1> QED BY <1>4, <1>5

(***************************************************************************)
(* DeleteHealthChecks only deletes, and no health check that a backend     *)
(* service points to.                                                      *)
(***************************************************************************)
LEMMA DeleteHealthChecksOutcome ==
  ASSUME HealthCheckTypeOK, NEW ports, NEW used,
         NEW o \in DeleteHealthChecks(ports, used)
  PROVE  /\ Results(o) \in [NodePorts -> HCs]
         /\ AnyErr(o) \in BOOLEAN /\ AnyFault(o) \in BOOLEAN
         /\ \A k \in NodePorts :
              /\ Results(o)[k] \in {hc[k], None}
              /\ k \in used => Results(o)[k] = hc[k]
              /\ ports[k] # None /\ ~AnyErr(o) => Results(o)[k] = None
         /\ AnyErr(o) => \/ AnyFault(o)
                         \/ \E k \in NodePorts : ports[k] # None /\ hc[k] # None /\ k \in used
<1> DEFINE f == [k \in NodePorts |-> IF ports[k] = None
                    THEN {Ok(hc[k])} ELSE Delete(hc[k], k \in used)]
           keys == {k \in NodePorts : ports[k] # None}
<1>1. hc \in [NodePorts -> HCs] /\ None \in HCs
  BY DEF HealthCheckTypeOK, HCs
<1>2. o \in Choices(f) /\ DOMAIN f = NodePorts
  BY DEF DeleteHealthChecks
<1>3. DeleteLoop(f, NodePorts, hc, keys, used)
  BY DEF DeleteLoop, Delete
<1>4. \A k \in NodePorts : k \in keys <=> ports[k] # None
  OBVIOUS
<1> HIDE DEF f, keys
<1>5. DeleteLoopEnds(HCs, NodePorts, hc, keys, used, o)
  BY <1>1, <1>2, <1>3, DeleteLoopOutcome
<1> QED BY <1>4, <1>5 DEF DeleteLoopEnds

-----------------------------------------------------------------------------
\* What EnsureBackendService leaves, port by port.
BackendServicesEnsured(ports, hcs, nps, igs, force, o) ==
  \A p \in NodePorts :
    /\ Results(o)[p] = o[p].res
    /\ be[p] # None => o[p].res # None
    /\ be[p] # None /\ ~force => o[p].res = be[p]
    /\ o[p].res # None => be[p] # None \/ p \in hcs
    /\ ports[p] # None /\ ~o[p].err =>
         /\ p \in hcs /\ o[p].res # None
         /\ o[p].res = desiredBackendService(ports[p], igs)
    /\ o[p].err => ports[p] # None
    /\ o[p].err /\ force /\ p \in hcs /\ p \in nps => AnyFault(o)

(***************************************************************************)
(* EnsureBackendService types its results, keeps every backend service     *)
(* that exists, leaves the desired one for every port it reports no error  *)
(* for, and creates one only where the caller has a health check; under    *)
(* --force only a fault or a missing link or named port makes it fail.     *)
(***************************************************************************)
LEMMA EnsureBackendServiceOutcome ==
  ASSUME BackendServiceTypeOK, NEW ports \in [NodePorts -> Services \cup {None}],
         NEW hcs, NEW nps, NEW igs \in SUBSET InstanceGroups,
         NEW force \in BOOLEAN,
         NEW o \in EnsureBackendService(ports, hcs, nps, igs, force)
  PROVE  /\ Results(o) \in [NodePorts -> BEs]
         /\ AnyErr(o) \in BOOLEAN /\ AnyFault(o) \in BOOLEAN
         /\ AnyErr(o) <=> \E p \in NodePorts : o[p].err
         /\ BackendServicesEnsured(ports, hcs, nps, igs, force, o)
<1> DEFINE f == [p \in NodePorts |->
        IF ports[p] = None
          THEN {Ok(be[p])}
          ELSE ensureBackendService(p, ports[p], hcs, nps, igs, force)]
<1>1. ASSUME NEW p \in NodePorts, NEW r \in f[p]
      PROVE  /\ r \in Outcomes(BEs)
             /\ be[p] # None => r.res # None
             /\ be[p] # None /\ ~force => r.res = be[p]
             /\ r.res # None => be[p] # None \/ p \in hcs
             /\ ports[p] # None /\ ~r.err =>
                  /\ p \in hcs /\ r.res # None
                  /\ r.res = desiredBackendService(ports[p], igs)
             /\ r.err => ports[p] # None
             /\ r.err /\ force /\ p \in hcs /\ p \in nps => r.fault
  <2> DEFINE desired == desiredBackendService(ports[p], igs)
  <2>1. be[p] \in BEs
    BY DEF BackendServiceTypeOK, BEs
  <2>2. \/ ports[p] = None /\ r = Ok(be[p])
        \/ /\ ports[p] # None /\ (p \notin hcs \/ p \notin nps)
           /\ r = Refused(be[p])
        \/ /\ ports[p] # None /\ p \in hcs
           /\ EnsureEnds(be[p], desired, force, r)
    BY DEF ensureBackendService, Ensure, EnsureEnds
  <2>3. CASE ports[p] = None /\ r = Ok(be[p])
    <3> HIDE DEF f
    <3>1. r \in Outcomes({be[p]}) /\ r.res = be[p] /\ ~r.err
      BY <2>3, AnsweredOutcome
    <3> QED BY <2>1, <2>3, <3>1, WiderOutcome
  <2>4. CASE /\ ports[p] # None /\ (p \notin hcs \/ p \notin nps)
             /\ r = Refused(be[p])
    <3> HIDE DEF f
    <3>1. r \in Outcomes({be[p]}) /\ r.res = be[p] /\ r.err
      BY <2>4, FailedOutcome
    <3> QED BY <2>1, <2>4, <3>1, WiderOutcome
  <2>5. CASE /\ ports[p] # None /\ p \in hcs
             /\ EnsureEnds(be[p], desired, force, r)
    <3>1. desired \in BEs /\ desired # None
      <4>1. desired \in BackendServices
        BY <2>5 DEF desiredBackendService, BackendServices
      <4> QED BY <4>1, NoneIsNoResource DEF BEs
    <3> HIDE DEF f, desired
    <3>2. /\ r \in Outcomes({be[p], desired})
          /\ be[p] # None => r.res # None
          /\ be[p] # None /\ ~force => r.res = be[p]
          /\ ~r.err => r.res = desired
          /\ r.err /\ force => r.fault
      BY <2>5, <3>1, EnsureOutcome
    <3>3. r \in Outcomes(BEs)
      BY <2>1, <3>1, <3>2, WiderOutcome
    <3> QED BY <2>5, <3>1, <3>2, <3>3 DEF desired
  <2> QED BY <2>2, <2>3, <2>4, <2>5
<1>2. o \in Choices(f) /\ DOMAIN f = NodePorts
  BY DEF EnsureBackendService
<1> HIDE DEF f
<1>3. \A p \in NodePorts : f[p] \subseteq Outcomes(BEs)
  BY <1>1
<1>4. /\ Results(o) \in [NodePorts -> BEs]
      /\ \A p \in NodePorts : o[p] \in f[p] /\ Results(o)[p] = o[p].res
      /\ AnyErr(o) \in BOOLEAN /\ AnyFault(o) \in BOOLEAN
      /\ AnyErr(o) <=> \E p \in NodePorts : o[p].err
      /\ AnyFault(o) <=> \E p \in NodePorts : o[p].fault
  BY ONLY <1>2, <1>3, ChoiceOutcome
<1>5. BackendServicesEnsured(ports, hcs, nps, igs, force, o)
  BY <1>1, <1>4 DEF BackendServicesEnsured
<1> QED BY <1>4, <1>5

(***************************************************************************)
(* RemoveFromClusters neither creates nor deletes a backend service, and   *)
(* takes nothing but the given instance groups out of it.  If it reports   *)
(* no error, every port has a backend service, and without the groups.     *)
(***************************************************************************)
LEMMA RemoveFromClustersOutcome ==
  ASSUME BackendServiceTypeOK, NEW ports, NEW igs,
         NEW o \in RemoveFromClusters(ports, igs)
  PROVE  /\ Results(o) \in [NodePorts -> BEs]
         /\ AnyErr(o) \in BOOLEAN /\ AnyFault(o) \in BOOLEAN
         /\ \A p \in NodePorts :
              /\ Results(o)[p] = None <=> be[p] = None
              /\ be[p] # None => /\ Results(o)[p].igs \subseteq be[p].igs
                                 /\ be[p].igs \ igs \subseteq Results(o)[p].igs
              /\ ports[p] # None /\ ~AnyErr(o) =>
                   Results(o)[p] # None /\ Results(o)[p].igs \cap igs = {}
<1> DEFINE f == [p \in NodePorts |->
        IF ports[p] = None THEN {Ok(be[p])} ELSE removeFromClusters(p, igs)]
<1>1. ASSUME NEW p \in NodePorts, NEW r \in f[p]
      PROVE  /\ r \in Outcomes(BEs)
             /\ r.res = None <=> be[p] = None
             /\ be[p] # None => /\ r.res.igs \subseteq be[p].igs
                                /\ be[p].igs \ igs \subseteq r.res.igs
             /\ ports[p] # None /\ ~r.err => r.res # None /\ r.res.igs \cap igs = {}
  <2> DEFINE desired == desiredBackendServiceWithoutClusters(be[p], igs)
  <2>1. be[p] \in BEs
    BY DEF BackendServiceTypeOK, BEs
  <2>2. \/ ports[p] = None /\ r = Ok(be[p])
        \/ r = Refused(be[p]) \/ r \in Faulty({be[p]})
        \/ be[p] # None /\ r \in Call(be[p], desired)
    BY DEF removeFromClusters
  <2>3. CASE ports[p] = None /\ r = Ok(be[p])
    <3> HIDE DEF f
    <3>1. r \in Outcomes({be[p]}) /\ r.res = be[p]
      BY <2>3, AnsweredOutcome
    <3> QED BY <2>1, <2>3, <3>1, WiderOutcome
  <2>4. CASE r = Refused(be[p]) \/ r \in Faulty({be[p]})
    <3> HIDE DEF f
    <3>1. r \in Outcomes({be[p]}) /\ r.res = be[p] /\ r.err
      BY <2>4, FailedOutcome
    <3> QED BY <2>1, <3>1, WiderOutcome
  <2>5. CASE be[p] # None /\ r \in Call(be[p], desired)
    <3>1. be[p] \in BackendServices
      BY <2>1, <2>5 DEF BEs
    <3>2. desired \in BackendServices /\ desired.igs = be[p].igs \ igs
      BY <3>1 DEF desiredBackendServiceWithoutClusters, BackendServices
    <3>3. desired \in BEs /\ desired # None
      BY <3>2, NoneIsNoResource DEF BEs
    <3> HIDE DEF f, desired
    <3>4. /\ r \in Outcomes({be[p], desired}) /\ r.res \in {be[p], desired}
          /\ ~r.err => r.res = desired
      BY <2>5, CallOutcome
    <3>5. r \in Outcomes(BEs)
      BY <2>1, <3>3, <3>4, WiderOutcome
    <3> QED BY <2>5, <3>2, <3>3, <3>4, <3>5
  <2> QED BY <2>2, <2>3, <2>4, <2>5
<1>2. o \in Choices(f) /\ DOMAIN f = NodePorts
  BY DEF RemoveFromClusters
<1> HIDE DEF f
<1>3. \A p \in NodePorts : f[p] \subseteq Outcomes(BEs)
  BY <1>1
<1>4. /\ Results(o) \in [NodePorts -> BEs]
      /\ \A p \in NodePorts : o[p] \in f[p] /\ Results(o)[p] = o[p].res
      /\ AnyErr(o) \in BOOLEAN /\ AnyFault(o) \in BOOLEAN
      /\ AnyErr(o) <=> \E p \in NodePorts : o[p].err
  BY ONLY <1>2, <1>3, ChoiceOutcome
<1> QED BY <1>1, <1>4

(***************************************************************************)
(* DeleteBackendServices only deletes, and no backend service that the url *)
(* map points to.                                                          *)
(***************************************************************************)
LEMMA DeleteBackendServicesOutcome ==
  ASSUME BackendServiceTypeOK, NEW ports, NEW used,
         NEW o \in DeleteBackendServices(ports, used)
  PROVE  /\ Results(o) \in [NodePorts -> BEs]
         /\ AnyErr(o) \in BOOLEAN /\ AnyFault(o) \in BOOLEAN
         /\ \A k \in NodePorts :
              /\ Results(o)[k] \in {be[k], None}
              /\ k \in used => Results(o)[k] = be[k]
              /\ ports[k] # None /\ ~AnyErr(o) => Results(o)[k] = None
         /\ AnyErr(o) => \/ AnyFault(o)
                         \/ \E k \in NodePorts : ports[k] # None /\ be[k] # None /\ k \in used
<1> DEFINE f == [k \in NodePorts |-> IF ports[k] = None
                    THEN {Ok(be[k])} ELSE Delete(be[k], k \in used)]
           keys == {k \in NodePorts : ports[k] # None}
<1>1. be \in [NodePorts -> BEs] /\ None \in BEs
  BY DEF BackendServiceTypeOK, BEs
<1>2. o \in Choices(f) /\ DOMAIN f = NodePorts
  BY DEF DeleteBackendServices
<1>3. DeleteLoop(f, NodePorts, be, keys, used)
  BY DEF DeleteLoop, Delete
<1>4. \A k \in NodePorts : k \in keys <=> ports[k] # None
  OBVIOUS
<1> HIDE DEF f, keys
<1>5. DeleteLoopEnds(BEs, NodePorts, be, keys, used, o)
  BY <1>1, <1>2, <1>3, DeleteLoopOutcome
<1> QED BY <1>4, <1>5 DEF DeleteLoopEnds

-----------------------------------------------------------------------------
\* What EnsureURLMap leaves.
URLMapEnsured(spec, clusters, bes, force, o) ==
  /\ um # None => o.res # None
  /\ um # None /\ ~force => o.res = um
  /\ ~o.err =>
       /\ o.res # None
       /\ spec.default # None
       /\ \A s \in ServicesOf(spec) : bes[s] # None
       /\ o.res.default = bes[spec.default]
       /\ \A s \in spec.paths : o.res.rules[s] = bes[s]
       /\ o.res.st = [clusters |-> clusters, ip |-> spec.ip]
       /\ \E order \in 1..spec.orders :
            o.res = desiredURLMap(spec, clusters, bes, order)
  /\ o.res # None /\ o.res # um =>
       /\ \E s \in Services : bes[s] # None /\ o.res.default = bes[s]
       /\ \A s \in Services : o.res.rules[s] \in {None, bes[s]}
  /\ o.err /\ force => o.fault \/ ingToURLMapFails(spec, bes)

(***************************************************************************)
(* EnsureURLMap keeps a url map that exists, leaves the desired one if it  *)
(* reports no error, and writes only one that points to backend services   *)
(* of bes; under --force only a fault or a missing backend service makes   *)
(* it fail.                                                                *)
(***************************************************************************)
LEMMA EnsureURLMapOutcome ==
  ASSUME URLMapTypeOK, NEW spec \in SpecType, spec.ip # None,
         NEW clusters \in SUBSET Clusters,
         NEW bes \in [Services -> NodePorts \cup {None}], NEW force \in BOOLEAN,
         NEW o \in EnsureURLMap(spec, clusters, bes, force)
  PROVE  /\ o \in Outcomes(UMs)
         /\ URLMapEnsured(spec, clusters, bes, force, o)
<1>1. um \in UMs
  BY DEF URLMapTypeOK, UMs
<1>2. CASE ingToURLMapFails(spec, bes)
  <2>1. o = Refused(um)
    BY <1>2 DEF EnsureURLMap
  <2>2. o \in Outcomes({um}) /\ o.res = um /\ o.err
    BY <2>1, FailedOutcome
  <2> QED BY <1>1, <1>2, <2>2, WiderOutcome DEF URLMapEnsured
<1>3. CASE ~ingToURLMapFails(spec, bes)
  <2>1. PICK order \in 1..spec.orders :
          EnsureEnds(um, desiredURLMap(spec, clusters, bes, order), force, o)
    BY <1>3 DEF EnsureURLMap, urlMapMatches, Ensure, EnsureEnds
  <2> DEFINE desired == desiredURLMap(spec, clusters, bes, order)
  <2>2. /\ spec.default \in Services /\ bes[spec.default] \in NodePorts
        /\ spec.default # None /\ \A s \in ServicesOf(spec) : bes[s] # None
    BY <1>3 DEF ingToURLMapFails, ServicesOf, SpecType
  <2>3. desired \in URLMaps
    <3>1. order \in Nat
      BY DEF SpecType
    <3>2. desired.st \in Status
      BY DEF desiredURLMap, Status, SpecType
    <3> QED BY <2>2, <3>1, <3>2 DEF desiredURLMap, URLMaps
  <2>4. desired \in UMs /\ desired # None
    BY <2>3, NoneIsNoResource DEF UMs
  <2>5. /\ bes[spec.default] # None /\ desired.default = bes[spec.default]
        /\ \A s \in Services : desired.rules[s] \in {None, bes[s]}
        /\ \A s \in spec.paths : desired.rules[s] = bes[s]
        /\ desired.st = [clusters |-> clusters, ip |-> spec.ip]
    BY <2>2, NoneAssumption DEF desiredURLMap, SpecType
  <2> HIDE DEF desired
  <2>6. /\ o \in Outcomes({um, desired})
        /\ um # None => o.res # None
        /\ um # None /\ ~force => o.res = um
        /\ ~o.err => o.res = desired
        /\ o.err /\ force => o.fault
    BY <2>1, <2>4, EnsureOutcome DEF desired
  <2>7. o.res = um \/ o.res = desired
    BY <2>6 DEF Outcomes
  <2>8. o \in Outcomes(UMs)
    BY <1>1, <2>4, <2>6, WiderOutcome
  <2>9. ~o.err => \E n \in 1..spec.orders :
                      o.res = desiredURLMap(spec, clusters, bes, n)
    BY <2>6 DEF desired
  <2> QED BY <2>2, <2>4, <2>5, <2>6, <2>7, <2>8, <2>9 DEF URLMapEnsured
<1> QED BY <1>2, <1>3

(***************************************************************************)
(* DeleteURLMap only deletes, and only if no proxy points to the url map.  *)
(***************************************************************************)
LEMMA DeleteURLMapOutcome ==
  ASSUME URLMapTypeOK, NEW o \in DeleteURLMap(URLMapInUse)
  PROVE  /\ o \in Outcomes(UMs)
         /\ o.res \in {um, None}
         /\ URLMapInUse => o.res = um
         /\ ~o.err => o.res = None
         /\ o.err => o.fault \/ URLMapInUse
<1>1. um \in UMs /\ None \in UMs
  BY DEF URLMapTypeOK, UMs
<1>2. o \in Delete(um, URLMapInUse) /\ URLMapInUse \in BOOLEAN
  BY DEF DeleteURLMap, URLMapInUse
<1>3. /\ o \in Outcomes({um, None})
      /\ o.res \in {um, None}
      /\ URLMapInUse => o.res = um
      /\ ~o.err => o.res = None
      /\ o.err => o.fault \/ URLMapInUse
  BY <1>2, DeleteOutcome
<1> QED BY <1>1, <1>3, WiderOutcome

(***************************************************************************)
(* Removing clusters from the status of the url map leaves its routes, and *)
(* takes nothing but the given clusters out of the status.                 *)
(***************************************************************************)
LEMMA URLMapRemoveOutcome ==
  ASSUME URLMapTypeOK, NEW clusters,
         NEW o \in URLMapRemoveClustersFromStatus(clusters)
  PROVE  /\ o \in Outcomes(UMs)
         /\ o.res = None <=> um = None
         /\ um # None => /\ o.res.default = um.default
                         /\ o.res.rules = um.rules
                         /\ o.res.st = None <=> um.st = None
                         /\ um.st # None =>
                              um.st.clusters \ clusters \subseteq o.res.st.clusters
         /\ ~o.err => /\ um # None
                      /\ um.st # None => o.res.st.clusters \cap clusters = {}
<1>1. um \in UMs
  BY DEF URLMapTypeOK, UMs
<1>2. CASE um = None
  <2>1. o = Refused(um) \/ o \in Faulty({um})
    BY <1>2 DEF URLMapRemoveClustersFromStatus
  <2>2. o \in Outcomes({um}) /\ o.res = um /\ o.err
    BY <2>1, FailedOutcome
  <2> QED BY <1>1, <1>2, <2>2, WiderOutcome
<1>3. CASE um # None
  <2> DEFINE desired == desiredURLMapWithoutClusters(um, clusters)
  <2>1. o \in Call(um, desired)
    BY <1>3 DEF URLMapRemoveClustersFromStatus
  <2>2. um \in URLMaps
    BY <1>1, <1>3 DEF UMs
  <2>3. /\ RemoveClusters(um.st, clusters) \in Status \cup {None}
        /\ RemoveClusters(um.st, clusters) = None <=> um.st = None
        /\ um.st # None =>
             RemoveClusters(um.st, clusters).clusters = um.st.clusters \ clusters
    <3>1. CASE um.st = None
      BY <3>1 DEF RemoveClusters
    <3>2. CASE um.st # None
      <4>1. um.st \in Status
        BY <2>2, <3>2 DEF URLMaps
      <4>2. /\ RemoveClusters(um.st, clusters) \in Status
            /\ RemoveClusters(um.st, clusters).clusters = um.st.clusters \ clusters
        BY <3>2, <4>1 DEF RemoveClusters, Status
      <4> QED BY <3>2, <4>2, NoneAssumption
    <3> QED BY <3>1, <3>2
  <2>4. /\ desired \in URLMaps
        /\ desired.default = um.default /\ desired.rules = um.rules
        /\ desired.st = RemoveClusters(um.st, clusters)
    BY <2>2, <2>3 DEF desiredURLMapWithoutClusters, URLMaps
  <2>5. desired \in UMs /\ desired # None
    BY <2>4, NoneIsNoResource DEF UMs
  <2> HIDE DEF desired
  <2>6. /\ o \in Outcomes({um, desired}) /\ o.res \in {um, desired}
        /\ ~o.err => o.res = desired
    BY <2>1, CallOutcome
  <2>7. o \in Outcomes(UMs)
    BY <1>1, <2>5, <2>6, WiderOutcome
  <2> QED BY <1>3, <2>3, <2>4, <2>5, <2>6, <2>7
<1> QED BY <1>2, <1>3

-----------------------------------------------------------------------------
(***************************************************************************)
(* ensureHTTPProxy keeps a proxy that exists, creates one only with a link *)
(* to the url map, and has one if it reports no error; given the link, only *)
(* a fault makes it fail.                                                  *)
(***************************************************************************)
LEMMA ensureHTTPProxyOutcome ==
  ASSUME TargetProxyTypeOK, NEW umLink \in BOOLEAN, NEW force \in BOOLEAN,
         NEW o \in ensureHTTPProxy(umLink, force)
  PROVE  /\ o \in Outcomes(TPs)
         /\ tp["http"] # None => o.res = tp["http"]
         /\ tp["http"] = None /\ o.res # None => umLink
         /\ ~o.err => o.res # None
         /\ o.err /\ umLink => o.fault
<1> DEFINE cur == tp["http"]
           new == [cert |-> None]
<1>1. cur \in TPs
  BY DEF TargetProxyTypeOK, TPs, Protocols
<1>2. new \in TPs /\ new # None
  BY NoneIsNoResource DEF TPs, TargetProxies
<1>3. \/ ~umLink /\ o = Refused(cur)
      \/ o \in Faulty({cur})
      \/ cur # None /\ o = Ok(cur)
      \/ cur = None /\ umLink /\ o \in Create(cur, new)
  BY DEF ensureHTTPProxy, Ensure
<1> HIDE DEF cur, new
<1>4. CASE ~umLink /\ o = Refused(cur)
  <2>1. o \in Outcomes({cur}) /\ o.res = cur /\ o.err
    BY <1>4, FailedOutcome
  <2> QED BY <1>1, <1>4, <2>1, WiderOutcome DEF cur
<1>5. CASE o \in Faulty({cur})
  <2>1. o \in Outcomes({cur}) /\ o.res = cur /\ o.err /\ o.fault
    BY <1>5, FaultyOutcome
  <2> QED BY <1>1, <2>1, WiderOutcome DEF cur
<1>6. CASE cur # None /\ o = Ok(cur)
  <2>1. o \in Outcomes({cur}) /\ o.res = cur /\ ~o.err
    BY <1>6, AnsweredOutcome
  <2> QED BY <1>1, <1>6, <2>1, WiderOutcome DEF cur
<1>7. CASE cur = None /\ umLink /\ o \in Create(cur, new)
  <2>1. /\ o \in Outcomes({cur, new}) /\ (~o.err => o.res = new)
        /\ o.err => o.fault
    BY <1>7, CreateOutcome
  <2> QED BY <1>1, <1>2, <1>7, <2>1, WiderOutcome DEF cur
<1> QED BY <1>3, <1>4, <1>5, <1>6, <1>7

(***************************************************************************)
(* ensureHTTPSProxy keeps a proxy that exists, creates one only with links *)
(* to the url map and a certificate, and has one if it reports no error,   *)
(* without --force one that uses the certificate.  Under --force only a    *)
(* fault or a missing link makes it fail.                                  *)
(***************************************************************************)
LEMMA ensureHTTPSProxyOutcome ==
  ASSUME TargetProxyTypeOK, NEW umLink \in BOOLEAN,
         NEW link \in CertLinks \cup {None}, NEW force \in BOOLEAN,
         NEW o \in ensureHTTPSProxy(umLink, link, force)
  PROVE  /\ o \in Outcomes(TPs)
         /\ tp["https"] # None => o.res = tp["https"]
         /\ tp["https"] = None /\ o.res # None => umLink /\ o.res.cert = link
         /\ ~o.err => o.res # None /\ (~force => o.res.cert = link)
         /\ o.err /\ force /\ umLink => o.fault \/ (tp["https"] = None /\ link = None)
<1> DEFINE cur == tp["https"]
           new == [cert |-> link]
<1>1. cur \in TPs
  BY DEF TargetProxyTypeOK, TPs, Protocols
<1>2. new \in TPs /\ new # None /\ new.cert = link
  BY NoneIsNoResource DEF TPs, TargetProxies
<1>3. \/ o = Refused(cur) /\ (~umLink \/ ~force \/ (cur = None /\ link = None))
      \/ o \in Faulty({cur})
      \/ cur # None /\ cur.cert = link /\ o = Ok(cur)
      \/ cur # None /\ force /\ o \in Call(cur, cur)
      \/ cur = None /\ umLink /\ o \in Create(cur, new)
  BY DEF ensureHTTPSProxy, updateHTTPSTargetProxy, Ensure
<1> HIDE DEF cur, new
<1>4. CASE o = Refused(cur) /\ (~umLink \/ ~force \/ (cur = None /\ link = None))
  <2>1. o \in Outcomes({cur}) /\ o.res = cur /\ o.err
    BY <1>4, FailedOutcome
  <2> QED BY <1>1, <1>4, <2>1, WiderOutcome DEF cur
<1>5. CASE o \in Faulty({cur})
  <2>1. o \in Outcomes({cur}) /\ o.res = cur /\ o.err /\ o.fault
    BY <1>5, FaultyOutcome
  <2> QED BY <1>1, <2>1, WiderOutcome DEF cur
<1>6. CASE cur # None /\ cur.cert = link /\ o = Ok(cur)
  <2>1. o \in Outcomes({cur}) /\ o.res = cur /\ ~o.err
    BY <1>6, AnsweredOutcome
  <2> QED BY <1>1, <1>6, <2>1, WiderOutcome DEF cur
<1>7. CASE cur # None /\ force /\ o \in Call(cur, cur)
  <2>1. o \in Outcomes({cur, cur}) /\ o.res \in {cur, cur} /\ (o.err => o.fault)
    BY <1>7, CallOutcome
  <2> QED BY <1>1, <1>7, <2>1, WiderOutcome DEF cur
<1>8. CASE cur = None /\ umLink /\ o \in Create(cur, new)
  <2>1. /\ o \in Outcomes({cur, new}) /\ (~o.err => o.res = new)
        /\ o.err => o.fault
    BY <1>8, CreateOutcome
  <2>2. o.res \in {cur, new}
    BY <2>1 DEF Outcomes
  <2> QED BY <1>1, <1>2, <1>8, <2>1, <2>2, WiderOutcome DEF cur
<1> QED BY <1>3, <1>4, <1>5, <1>6, <1>7, <1>8

(***************************************************************************)
(* DeleteTargetProxies only deletes, and no proxy that a forwarding rule   *)
(* points to.                                                              *)
(***************************************************************************)
LEMMA DeleteTargetProxiesOutcome ==
  ASSUME TargetProxyTypeOK, NEW used, NEW o \in DeleteTargetProxies(used)
  PROVE  /\ Results(o) \in [Protocols -> TPs]
         /\ AnyErr(o) \in BOOLEAN /\ AnyFault(o) \in BOOLEAN
         /\ \A k \in Protocols :
              /\ Results(o)[k] \in {tp[k], None}
              /\ k \in used => Results(o)[k] = tp[k]
              /\ ~AnyErr(o) => Results(o)[k] = None
         /\ AnyErr(o) => \/ AnyFault(o)
                         \/ \E k \in Protocols : tp[k] # None /\ k \in used
<1> DEFINE f == [k \in Protocols |-> Delete(tp[k], k \in used)]
           keys == Protocols
<1>1. tp \in [Protocols -> TPs] /\ None \in TPs
  BY DEF TargetProxyTypeOK, TPs
<1>2. o \in Choices(f) /\ DOMAIN f = Protocols
  BY DEF DeleteTargetProxies
<1>3. DeleteLoop(f, Protocols, tp, keys, used)
  BY DEF DeleteLoop, Delete
<1>4. \A k \in Protocols : k \in keys <=> TRUE
  OBVIOUS
<1> HIDE DEF f, keys
<1>5. DeleteLoopEnds(TPs, Protocols, tp, keys, used, o)
  BY <1>1, <1>2, <1>3, DeleteLoopOutcome
<1> QED BY <1>4, <1>5 DEF DeleteLoopEnds

-----------------------------------------------------------------------------
(***************************************************************************)
(* An update of a forwarding rule leaves the rule, the desired one or none *)
(* at all, and the desired one if it reports no error; given a link to the *)
(* proxy, only a fault makes it fail.                                      *)
(***************************************************************************)
LEMMA updateForwardingRuleOutcome ==
  ASSUME NEW q, NEW desired \in ForwardingRules, fr[q] \in ForwardingRules,
         NEW linked \in BOOLEAN,
         NEW o \in updateForwardingRule(q, fr[q], desired, linked)
  PROVE  /\ o \in Outcomes({fr[q], desired, None})
         /\ ~o.err => o.res = desired
         /\ o.err /\ linked => o.fault
<1>1. \/ o \in Faulty({fr[q], None})
      \/ linked /\ o \in Create(None, desired)
      \/ ~linked /\ (o = Refused(None) \/ o = Refused(fr[q]))
      \/ /\ fr[q].ip = desired.ip /\ fr[q].st = desired.st
         /\ o \in Call(fr[q], fr[q])
  BY DEF updateForwardingRule, createForwardingRule
<1>2. CASE o \in Faulty({fr[q], None})
  <2>1. o \in Outcomes({fr[q], None}) /\ o.err /\ o.fault
    BY <1>2, FaultyOutcome
  <2> QED BY <2>1, WiderOutcome
<1>3. CASE linked /\ o \in Create(None, desired)
  <2>1. /\ o \in Outcomes({None, desired}) /\ (~o.err => o.res = desired)
        /\ o.err => o.fault
    BY <1>3, CreateOutcome
  <2> QED BY <2>1, WiderOutcome
<1>4. CASE ~linked /\ (o = Refused(None) \/ o = Refused(fr[q]))
  <2>1. (o \in Outcomes({None}) \/ o \in Outcomes({fr[q]})) /\ o.err
    BY <1>4, FailedOutcome
  <2> QED BY <1>4, <2>1, WiderOutcome
<1>5. CASE /\ fr[q].ip = desired.ip /\ fr[q].st = desired.st
           /\ o \in Call(fr[q], fr[q])
  <2>1. fr[q] = desired
    BY <1>5 DEF ForwardingRules
  <2>2. o \in Call(fr[q], fr[q])
    BY <1>5
  <2>3. /\ o \in Outcomes({fr[q], fr[q]}) /\ (~o.err => o.res = fr[q])
        /\ o.err => o.fault
    BY ONLY <2>2, CallOutcome
  <2> QED BY <2>1, <2>3, WiderOutcome
<1> QED BY <1>1, <1>2, <1>3, <1>4, <1>5

(***************************************************************************)
(* ensureForwardingRule creates a rule only with a link to the proxy, keeps *)
(* one that exists without --force, and leaves the desired one if it       *)
(* reports no error; under --force, given the link, only a fault makes it  *)
(* fail.                                                                   *)
(***************************************************************************)
LEMMA ensureForwardingRuleOutcome ==
  ASSUME ForwardingRuleTypeOK, NEW q \in Protocols, NEW ip \in IPs,
         NEW linked \in BOOLEAN, NEW force \in BOOLEAN,
         NEW o \in ensureForwardingRule(q, ip, linked, force)
  PROVE  /\ o \in Outcomes(FRs)
         /\ fr[q] = None /\ o.res # None => linked
         /\ fr[q] # None /\ ~force => o.res = fr[q]
         /\ o.res \in {fr[q], None, desiredForwardingRule(ip)}
         /\ ~o.err => o.res = desiredForwardingRule(ip)
         /\ o.err /\ force /\ linked => o.fault
<1> DEFINE desired == desiredForwardingRule(ip)
<1>1. fr[q] \in FRs /\ None \in FRs
  BY DEF ForwardingRuleTypeOK, FRs
<1>2. desired \in ForwardingRules /\ desired \in FRs
  BY DEF desiredForwardingRule, ForwardingRules, FRs
<1>3. \/ o = Refused(fr[q]) /\ (~linked \/ ~force)
      \/ o \in Faulty({fr[q]})
      \/ fr[q] # None /\ fr[q] = desired /\ o = Ok(fr[q])
      \/ fr[q] = None /\ linked /\ o \in Create(fr[q], desired)
      \/ /\ fr[q] # None /\ force
         /\ o \in updateForwardingRule(q, fr[q], desired, linked)
  BY DEF ensureForwardingRule, createForwardingRule, Ensure
<1> HIDE DEF desired
<1>4. CASE o = Refused(fr[q]) /\ (~linked \/ ~force)
  <2>1. o \in Outcomes({fr[q]}) /\ o.res = fr[q] /\ o.err
    BY <1>4, FailedOutcome
  <2> QED BY <1>1, <1>4, <2>1, WiderOutcome
<1>5. CASE o \in Faulty({fr[q]})
  <2>1. o \in Outcomes({fr[q]}) /\ o.res = fr[q] /\ o.err /\ o.fault
    BY <1>5, FaultyOutcome
  <2> QED BY <1>1, <2>1, WiderOutcome
<1>6. CASE fr[q] # None /\ fr[q] = desired /\ o = Ok(fr[q])
  <2>1. o \in Outcomes({fr[q]}) /\ o.res = fr[q] /\ ~o.err
    BY <1>6, AnsweredOutcome
  <2> QED BY <1>1, <1>6, <2>1, WiderOutcome DEF desired
<1>7. CASE fr[q] = None /\ linked /\ o \in Create(fr[q], desired)
  <2>1. /\ o \in Outcomes({fr[q], desired}) /\ (~o.err => o.res = desired)
        /\ o.err => o.fault
    BY <1>7, CreateOutcome
  <2>2. o.res \in {fr[q], desired}
    BY <2>1 DEF Outcomes
  <2> QED BY <1>1, <1>2, <1>7, <2>1, <2>2, WiderOutcome DEF desired
<1>8. CASE /\ fr[q] # None /\ force
           /\ o \in updateForwardingRule(q, fr[q], desired, linked)
  <2>1. fr[q] \in ForwardingRules
    BY <1>1, <1>8 DEF FRs
  <2>2. /\ o \in Outcomes({fr[q], desired, None}) /\ (~o.err => o.res = desired)
        /\ o.err /\ linked => o.fault
    <3>1. o \in updateForwardingRule(q, fr[q], desired, linked)
      BY <1>8
    <3>2. desired \in ForwardingRules /\ linked \in BOOLEAN
      BY <1>2
    <3> QED BY ONLY <2>1, <3>1, <3>2, updateForwardingRuleOutcome
  <2>3. o.res \in {fr[q], desired, None}
    BY <2>2 DEF Outcomes
  <2> QED BY <1>1, <1>2, <1>8, <2>2, <2>3, WiderOutcome DEF desired
<1> QED BY <1>3, <1>4, <1>5, <1>6, <1>7, <1>8

(***************************************************************************)
(* Removing clusters from the status of the rules leaves the rules as they *)
(* are: what is handed to updateForwardingRule as the existing rule is the *)
(* desired one, so that it never sees a difference.                        *)
(***************************************************************************)
LEMMA ForwardingRuleRemoveOutcome ==
  ASSUME ForwardingRuleTypeOK, NEW clusters,
         NEW o \in ForwardingRuleRemoveClustersFromStatus(clusters)
  PROVE  /\ Results(o) \in [Protocols -> FRs]
         /\ AnyErr(o) \in BOOLEAN /\ AnyFault(o) \in BOOLEAN
         /\ \A q \in Protocols : Results(o)[q] = fr[q]
<1> DEFINE f == [q \in Protocols |-> removeClustersFromRuleStatus(q, clusters)]
<1>1. ASSUME NEW q \in Protocols, NEW r \in f[q]
      PROVE  r \in Outcomes(FRs) /\ r.res = fr[q]
  <2>1. fr[q] \in FRs /\ None \in FRs
    BY DEF ForwardingRuleTypeOK, FRs
  <2>2. r = Ok(fr[q]) \/ r \in Faulty({fr[q]}) \/ r \in Call(fr[q], fr[q])
    BY DEF removeClustersFromRuleStatus, updateForwardingRule
  <2> HIDE DEF f
  <2>3. r \in Outcomes({fr[q]}) /\ r.res = fr[q]
    <3>1. CASE r = Ok(fr[q])
      BY <3>1, AnsweredOutcome
    <3>2. CASE r \in Faulty({fr[q]})
      BY <3>2, FaultyOutcome
    <3>3. CASE r \in Call(fr[q], fr[q])
      <4>1. r \in Outcomes({fr[q], fr[q]}) /\ r.res \in {fr[q], fr[q]}
        BY <3>3, CallOutcome
      <4> QED BY <4>1, WiderOutcome
    <3> QED BY <2>2, <3>1, <3>2, <3>3
  <2> QED BY <2>1, <2>3, WiderOutcome
<1>2. o \in Choices(f) /\ DOMAIN f = Protocols
  BY DEF ForwardingRuleRemoveClustersFromStatus
<1> HIDE DEF f
<1>3. \A q \in Protocols : f[q] \subseteq Outcomes(FRs)
  BY <1>1
<1>4. /\ Results(o) \in [Protocols -> FRs]
      /\ \A q \in Protocols : o[q] \in f[q] /\ Results(o)[q] = o[q].res
      /\ AnyErr(o) \in BOOLEAN /\ AnyFault(o) \in BOOLEAN
  BY ONLY <1>2, <1>3, ChoiceOutcome
<1> QED BY <1>1, <1>4

(***************************************************************************)
(* DeleteForwardingRules only deletes, and only fails on a fault.          *)
(***************************************************************************)
LEMMA DeleteForwardingRulesOutcome ==
  ASSUME ForwardingRuleTypeOK, NEW o \in DeleteForwardingRules
  PROVE  /\ Results(o) \in [Protocols -> FRs]
         /\ AnyErr(o) \in BOOLEAN /\ AnyFault(o) \in BOOLEAN
         /\ \A k \in Protocols :
              /\ Results(o)[k] \in {fr[k], None}
              /\ ~AnyErr(o) => Results(o)[k] = None
         /\ AnyErr(o) => AnyFault(o)
<1> DEFINE f == [k \in Protocols |-> Delete(fr[k], FALSE)]
           keys == Protocols
<1>1. fr \in [Protocols -> FRs] /\ None \in FRs
  BY DEF ForwardingRuleTypeOK, FRs
<1>2. o \in Choices(f) /\ DOMAIN f = Protocols
  BY DEF DeleteForwardingRules
<1>3. DeleteLoop(f, Protocols, fr, keys, {})
  BY DEF DeleteLoop, Delete
<1>4. \A k \in Protocols : k \in keys <=> TRUE
  OBVIOUS
<1> HIDE DEF f, keys
<1>5. DeleteLoopEnds(FRs, Protocols, fr, keys, {}, o)
  BY <1>1, <1>2, <1>3, DeleteLoopOutcome
<1> QED BY <1>4, <1>5 DEF DeleteLoopEnds

-----------------------------------------------------------------------------
(***************************************************************************)
(* EnsureSSLCert never deletes a certificate in use, keeps one that exists *)
(* without --force, and leaves that of the secret if it reports no error;  *)
(* under --force only a fault or a certificate in use makes it fail.       *)
(***************************************************************************)
LEMMA EnsureSSLCertOutcome ==
  ASSUME SSLCertTypeOK, NEW tls \in CertData \cup PreSharedCerts,
         NEW force \in BOOLEAN,
         NEW o \in EnsureSSLCert(tls, OwnCertInUse, force)
  PROVE  /\ o \in Outcomes(Certs)
         /\ OwnCertInUse /\ cert # None => o.res # None
         /\ cert # None /\ ~force => o.res = cert
         /\ ~o.err /\ tls \notin PreSharedCerts => o.res # None /\ o.res = tls
         /\ o.err /\ force =>
              \/ o.fault
              \/ tls \notin PreSharedCerts /\ OwnCertInUse /\ o.res # tls
<1>1. cert \in Certs /\ None \in Certs
  BY DEF SSLCertTypeOK, Certs
<1>2. tls \notin PreSharedCerts => tls \in Certs /\ tls # None
  BY NoneAssumption DEF Certs
<1>3. \/ /\ tls \notin PreSharedCerts /\ cert # tls /\ (OwnCertInUse \/ ~force)
         /\ o = Refused(cert)
      \/ o \in Faulty({cert})
      \/ (tls \in PreSharedCerts \/ cert = tls) /\ o = Ok(cert)
      \/ /\ tls \notin PreSharedCerts /\ o \in Create(None, tls)
         /\ cert = None \/ (force /\ ~OwnCertInUse)
  BY DEF EnsureSSLCert, ensurePreSharedSSLCert, ensureSecretSSLCert,
         updateSSLCert, Ensure
<1>4. CASE /\ tls \notin PreSharedCerts /\ cert # tls /\ (OwnCertInUse \/ ~force)
           /\ o = Refused(cert)
  <2>1. o \in Outcomes({cert}) /\ o.res = cert /\ o.err
    BY <1>4, FailedOutcome
  <2> QED BY <1>1, <1>4, <2>1, WiderOutcome
<1>5. CASE o \in Faulty({cert})
  <2>1. o \in Outcomes({cert}) /\ o.res = cert /\ o.err /\ o.fault
    BY <1>5, FaultyOutcome
  <2> QED BY <1>1, <2>1, WiderOutcome
<1>6. CASE (tls \in PreSharedCerts \/ cert = tls) /\ o = Ok(cert)
  <2>1. o \in Outcomes({cert}) /\ o.res = cert /\ ~o.err
    BY <1>6, AnsweredOutcome
  <2> QED BY <1>1, <1>2, <1>6, <2>1, WiderOutcome
<1>7. CASE /\ tls \notin PreSharedCerts /\ o \in Create(None, tls)
           /\ cert = None \/ (force /\ ~OwnCertInUse)
  <2>1. /\ o \in Outcomes({None, tls}) /\ (~o.err => o.res = tls)
        /\ o.err => o.fault
    BY <1>7, CreateOutcome
  <2> QED BY <1>1, <1>2, <1>7, <2>1, WiderOutcome
<1> QED BY <1>3, <1>4, <1>5, <1>6, <1>7

(***************************************************************************)
(* DeleteSSLCert only deletes, and only if no proxy uses the certificate.  *)
(***************************************************************************)
LEMMA DeleteSSLCertOutcome ==
  ASSUME SSLCertTypeOK, NEW o \in DeleteSSLCert(OwnCertInUse)
  PROVE  /\ o \in Outcomes(Certs)
         /\ o.res \in {cert, None}
         /\ OwnCertInUse => o.res = cert
         /\ ~o.err => o.res = None
         /\ o.err => o.fault \/ OwnCertInUse
<1>1. cert \in Certs /\ None \in Certs
  BY DEF SSLCertTypeOK, Certs
<1>2. o \in Delete(cert, OwnCertInUse) /\ OwnCertInUse \in BOOLEAN
  BY DEF DeleteSSLCert, OwnCertInUse
<1>3. /\ o \in Outcomes({cert, None})
      /\ o.res \in {cert, None}
      /\ OwnCertInUse => o.res = cert
      /\ ~o.err => o.res = None
      /\ o.err => o.fault \/ OwnCertInUse
  BY <1>2, DeleteOutcome
<1> QED BY <1>1, <1>3, WiderOutcome

-----------------------------------------------------------------------------
(***************************************************************************)
(* EnsureFirewallRule opens ports for tags that exist, keeps a rule that   *)
(* exists without --force, and leaves the desired one if it reports no     *)
(* error; under --force only a fault or a missing tag makes it fail.       *)
(***************************************************************************)
LEMMA EnsureFirewallRuleOutcome ==
  ASSUME FirewallRuleTypeOK, NEW ports, NEW clients \in SUBSET Clusters,
         NEW force \in BOOLEAN, NEW o \in EnsureFirewallRule(ports, clients, force)
  PROVE  /\ o \in Outcomes(FWs)
         /\ o.res \in {fw, desiredFirewallRule(ports, clients)}
         /\ fw # None /\ ~force => o.res = fw
         /\ ~o.err => o.res # None /\ o.res = desiredFirewallRule(ports, clients)
         /\ ~o.err => None \notin getTargetTags(clients)
         /\ o.err /\ force => o.fault \/ None \in getTargetTags(clients)
<1> DEFINE desired == desiredFirewallRule(ports, clients)
<1>1. fw \in FWs
  BY DEF FirewallRuleTypeOK, FWs
<1>2. \/ o = Refused(fw) /\ None \in getTargetTags(clients)
      \/ o \in Faulty({fw})
      \/ None \notin getTargetTags(clients) /\ EnsureEnds(fw, desired, force, o)
  BY DEF EnsureFirewallRule, Ensure, EnsureEnds
<1>3. CASE o = Refused(fw) /\ None \in getTargetTags(clients)
  <2>1. o \in Outcomes({fw}) /\ o.res = fw /\ o.err
    BY <1>3, FailedOutcome
  <2> QED BY <1>1, <1>3, <2>1, WiderOutcome
<1>4. CASE o \in Faulty({fw})
  <2>1. o \in Outcomes({fw}) /\ o.res = fw /\ o.err /\ o.fault
    BY <1>4, FaultyOutcome
  <2> QED BY <1>1, <2>1, WiderOutcome
<1>5. CASE /\ None \notin getTargetTags(clients)
           /\ EnsureEnds(fw, desired, force, o)
  <2>1. getTargetTags(clients) \subseteq Tags
    BY <1>5, ConfigAssumption DEF getTargetTags
  <2>2. desired \in FWs /\ desired # None
    BY <2>1, NoneIsNoResource DEF desiredFirewallRule, FirewallRules, FWs
  <2> HIDE DEF desired
  <2>3. /\ o \in Outcomes({fw, desired})
        /\ fw # None /\ ~force => o.res = fw
        /\ ~o.err => o.res = desired
        /\ o.err /\ force => o.fault
    BY <1>5, <2>2, EnsureOutcome
  <2>4. o.res \in {fw, desired}
    BY <2>3 DEF Outcomes
  <2> QED BY <1>1, <1>5, <2>2, <2>3, <2>4, WiderOutcome DEF desired
<1> QED BY <1>2, <1>3, <1>4, <1>5

(***************************************************************************)
(* DeleteFirewallRules only deletes, and only fails on a fault.            *)
(***************************************************************************)
LEMMA DeleteFirewallRulesOutcome ==
  ASSUME FirewallRuleTypeOK, NEW o \in DeleteFirewallRules
  PROVE  /\ o \in Outcomes(FWs)
         /\ o.res \in {fw, None}
         /\ ~o.err => o.res = None
         /\ o.err => o.fault
<1>1. fw \in FWs /\ None \in FWs
  BY DEF FirewallRuleTypeOK, FWs
<1>2. o \in Call(fw, None)
  BY DEF DeleteFirewallRules, Delete
<1>3. /\ o \in Outcomes({fw, None}) /\ o.res \in {fw, None}
      /\ ~o.err => o.res = None
      /\ o.err => o.fault
  BY <1>2, CallOutcome
<1> QED BY <1>1, <1>3, WiderOutcome

(***************************************************************************)
(* FirewallRemoveFromClusters neither creates nor deletes the rule, and    *)
(* takes nothing but the tags of the clusters out of it.  If it reports no *)
(* error, the rule exists and has none of these tags.                      *)
(***************************************************************************)
LEMMA FirewallRemoveOutcome ==
  ASSUME FirewallRuleTypeOK, NEW clients,
         NEW o \in FirewallRemoveFromClusters(clients)
  PROVE  /\ o \in Outcomes(FWs)
         /\ o.res = None <=> fw = None
         /\ fw # None => /\ o.res.ports = fw.ports
                         /\ o.res.tags \subseteq fw.tags
                         /\ fw.tags \ getTargetTags(clients) \subseteq o.res.tags
         /\ ~o.err => fw # None /\ o.res.tags \cap getTargetTags(clients) = {}
<1> DEFINE desired == desiredFirewallRuleWithoutClusters(fw, clients)
<1>1. fw \in FWs
  BY DEF FirewallRuleTypeOK, FWs
<1>2. \/ o = Refused(fw) \/ o \in Faulty({fw})
      \/ fw # None /\ o \in Call(fw, desired)
  BY DEF FirewallRemoveFromClusters
<1>3. CASE o = Refused(fw) \/ o \in Faulty({fw})
  <2>1. o \in Outcomes({fw}) /\ o.res = fw /\ o.err
    BY <1>3, FailedOutcome
  <2> QED BY <1>1, <2>1, WiderOutcome
<1>4. CASE fw # None /\ o \in Call(fw, desired)
  <2>1. fw \in FirewallRules
    BY <1>1, <1>4 DEF FWs
  <2>2. /\ desired \in FirewallRules
        /\ desired.ports = fw.ports
        /\ desired.tags = fw.tags \ getTargetTags(clients)
    BY <2>1 DEF desiredFirewallRuleWithoutClusters, FirewallRules
  <2>3. desired \in FWs /\ desired # None
    BY <2>2, NoneIsNoResource DEF FWs
  <2> HIDE DEF desired
  <2>4. /\ o \in Outcomes({fw, desired}) /\ o.res \in {fw, desired}
        /\ ~o.err => o.res = desired
    BY <1>4, CallOutcome
  <2>5. o \in Outcomes(FWs)
    BY <1>1, <2>3, <2>4, WiderOutcome
  <2> QED BY <1>4, <2>2, <2>3, <2>4, <2>5
<1> QED BY <1>2, <1>3, <1>4

-----------------------------------------------------------------------------
\* What EnsureIngress leaves, cluster by cluster.
IngressesEnsured(spec, clients, force, o) ==
  /\ \A c \in Clusters :
       /\ c \notin clients => Results(o)[c] = ing[c]
       /\ ing[c] # None => Results(o)[c] # None
       /\ ing[c] # None /\ ~force => Results(o)[c] = ing[c]
       /\ Results(o)[c] \in {ing[c], desiredIngress(spec)}
       /\ c \in clients /\ ~AnyErr(o) =>
            Results(o)[c] # None /\ Results(o)[c].spec = spec
  /\ force /\ AnyErr(o) => AnyFault(o)

(***************************************************************************)
(* EnsureIngress types its results, keeps the ingresses that exist and,    *)
(* without --force, their contents; if it reports no error, every client   *)
(* has the ingress.  Under --force only a fault makes it fail.             *)
(***************************************************************************)
LEMMA EnsureIngressOutcome ==
  ASSUME IngressTypeOK, NEW spec \in Specs, NEW clients,
         NEW force \in BOOLEAN, NEW o \in EnsureIngress(spec, clients, force)
  PROVE  /\ Results(o) \in [Clusters -> Ings]
         /\ AnyErr(o) \in BOOLEAN /\ AnyFault(o) \in BOOLEAN
         /\ IngressesEnsured(spec, clients, force, o)
<1> DEFINE desired == desiredIngress(spec)
           f == [c \in Clusters |->
                  IF c \in clients THEN ensureIngressInCluster(c, spec, force)
                                   ELSE {Ok(ing[c])}]
<1>1. desired \in Ings /\ desired # None /\ desired.spec = spec
  <2>1. desired \in Ingresses /\ desired.spec = spec
    BY DEF desiredIngress, Ingresses
  <2> QED BY <2>1, NoneIsNoResource DEF Ings
<1>2. ASSUME NEW c \in Clusters, NEW r \in f[c]
      PROVE  /\ r \in Outcomes(Ings)
             /\ c \notin clients => r.res = ing[c]
             /\ ing[c] # None => r.res # None
             /\ ing[c] # None /\ ~force => r.res = ing[c]
             /\ r.res \in {ing[c], desired}
             /\ c \in clients /\ ~r.err => r.res # None /\ r.res.spec = spec
             /\ force /\ r.err => r.fault
  <2>1. ing[c] \in Ings /\ None \in Ings
    BY DEF IngressTypeOK, Ings
  <2>2. \/ r = Ok(ing[c]) /\ (c \in clients => ing[c] # None /\ ing[c].spec = spec)
        \/ c \in clients /\ ~force /\ r = Refused(ing[c])
        \/ c \in clients /\ r \in Faulty({ing[c]})
        \/ c \in clients /\ ing[c] = None /\ r \in Create(None, desired)
        \/ c \in clients /\ force /\ r \in Call(ing[c], desired)
    BY DEF ensureIngressInCluster, Ensure, ingressMatches
  <2> HIDE DEF f, desired
  <2>3. CASE r = Ok(ing[c]) /\ (c \in clients => ing[c] # None /\ ing[c].spec = spec)
    <3>1. r \in Outcomes(Ings) /\ r.res = ing[c] /\ ~r.err
      BY <2>1, <2>3, OkOutcome
    <3> QED BY <2>3, <3>1
  <2>4. CASE c \in clients /\ ~force /\ r = Refused(ing[c])
    <3>1. r \in Outcomes({ing[c]}) /\ r.res = ing[c] /\ r.err
      BY <2>4, FailedOutcome
    <3> QED BY <2>1, <2>4, <3>1, WiderOutcome
  <2>5. CASE c \in clients /\ r \in Faulty({ing[c]})
    <3>1. r \in Outcomes({ing[c]}) /\ r.res = ing[c] /\ r.err /\ r.fault
      BY <2>5, FaultyOutcome
    <3> QED BY <2>1, <2>5, <3>1, WiderOutcome
  <2>6. CASE c \in clients /\ ing[c] = None /\ r \in Create(None, desired)
    <3>1. /\ r \in Outcomes({None, desired}) /\ r.res \in {None, desired}
          /\ ~r.err => r.res = desired
          /\ r.err => r.fault
      BY <2>6, CreateOutcome
    <3> QED BY <1>1, <2>1, <2>6, <3>1, WiderOutcome
  <2>7. CASE c \in clients /\ force /\ r \in Call(ing[c], desired)
    <3>1. /\ r \in Outcomes({ing[c], desired}) /\ r.res \in {ing[c], desired}
          /\ ~r.err => r.res = desired
          /\ r.err => r.fault
      BY <2>7, CallOutcome
    <3> QED BY <1>1, <2>1, <2>7, <3>1, WiderOutcome
  <2> QED BY <2>2, <2>3, <2>4, <2>5, <2>6, <2>7
<1>3. o \in Choices(f) /\ DOMAIN f = Clusters
  BY DEF EnsureIngress
<1> HIDE DEF f, desired
<1>4. Loop(f, Clusters, Ings)
  BY <1>2, <1>3 DEF Loop
<1>5. LoopEnds(f, Clusters, Ings, o)
  BY <1>3, <1>4, LoopOutcome
<1>6. ASSUME NEW c \in Clusters
      PROVE  /\ c \notin clients => Results(o)[c] = ing[c]
             /\ ing[c] # None => Results(o)[c] # None
             /\ ing[c] # None /\ ~force => Results(o)[c] = ing[c]
             /\ Results(o)[c] \in {ing[c], desired}
             /\ c \in clients /\ ~AnyErr(o) =>
                  Results(o)[c] # None /\ Results(o)[c].spec = spec
  <2>1. o[c] \in f[c] /\ Results(o)[c] = o[c].res /\ (~AnyErr(o) => ~o[c].err)
    BY <1>5 DEF LoopEnds
  <2> QED BY <1>2, <2>1
<1>7. force /\ AnyErr(o) => AnyFault(o)
  BY <1>2, <1>5 DEF LoopEnds
<1>8. IngressesEnsured(spec, clients, force, o)
  BY <1>6, <1>7 DEF IngressesEnsured, desired
<1> QED BY <1>5, <1>8 DEF LoopEnds

(***************************************************************************)
(* DeleteIngress only deletes, and only fails on a fault.                  *)
(***************************************************************************)
LEMMA DeleteIngressOutcome ==
  ASSUME IngressTypeOK, NEW clients, NEW o \in DeleteIngress(clients)
  PROVE  /\ Results(o) \in [Clusters -> Ings]
         /\ AnyErr(o) \in BOOLEAN /\ AnyFault(o) \in BOOLEAN
         /\ \A k \in Clusters :
              /\ Results(o)[k] \in {ing[k], None}
              /\ k \notin clients => Results(o)[k] = ing[k]
              /\ k \in clients /\ ~AnyErr(o) => Results(o)[k] = None
         /\ AnyErr(o) => AnyFault(o)
<1> DEFINE f == [k \in Clusters |-> IF k \in clients
                    THEN Delete(ing[k], FALSE) ELSE {Ok(ing[k])}]
           keys == {k \in Clusters : k \in clients}
<1>1. ing \in [Clusters -> Ings] /\ None \in Ings
  BY DEF IngressTypeOK, Ings
<1>2. o \in Choices(f) /\ DOMAIN f = Clusters
  BY DEF DeleteIngress
<1>3. DeleteLoop(f, Clusters, ing, keys, {})
  BY DEF DeleteLoop, Delete
<1>4. \A k \in Clusters : k \in keys <=> k \in clients
  OBVIOUS
<1> HIDE DEF f, keys
<1>5. DeleteLoopEnds(Ings, Clusters, ing, keys, {}, o)
  BY <1>1, <1>2, <1>3, DeleteLoopOutcome
<1> QED BY <1>4, <1>5 DEF DeleteLoopEnds

\* What ingToNodePorts reads of the services in cluster c.
PortsRead(spec, c, r) ==
  /\ \A p \in NodePorts : r.ports[p] # None =>
       r.ports[p] \in ServicesOf(spec) /\ nodePort[c][r.ports[p]] = p
  /\ ~r.fault =>
       \A s \in ServicesOf(spec) :
         nodePort[c][s] # None => r.ports[nodePort[c][s]] = s

(***************************************************************************)
(* ingToNodePorts maps node ports to services of the ingress that listen   *)
(* on them; if no call fails it finds every service that has a port.       *)
(***************************************************************************)
LEMMA ingToNodePortsType ==
  ASSUME IngressTypeOK, NEW spec \in SpecType, NEW c \in Clusters,
         NEW r \in ingToNodePorts(spec, c)
  PROVE  /\ r.ports \in [NodePorts -> Services \cup {None}] /\ r.fault \in BOOLEAN
         /\ PortsRead(spec, c, r)
<1> DEFINE known == {s \in ServicesOf(spec) : nodePort[c][s] # None}
           portsOf(S) == [p \in NodePorts |->
                            IF \E s \in S : nodePort[c][s] = p
                              THEN CHOOSE s \in S : nodePort[c][s] = p
                              ELSE None]
<1>1. PICK S \in SUBSET known : r = [ports |-> portsOf(S), fault |-> S # known]
  BY DEF ingToNodePorts
<1>2. S \subseteq Services /\ S \subseteq ServicesOf(spec) /\ None \notin Services
  BY <1>1, NoneAssumption DEF ServicesOf, SpecType
<1>3. ASSUME NEW p \in NodePorts
      PROVE  \/ portsOf(S)[p] = None /\ ~\E s \in S : nodePort[c][s] = p
             \/ portsOf(S)[p] \in S /\ nodePort[c][portsOf(S)[p]] = p
  <2>1. CASE \E s \in S : nodePort[c][s] = p
    <3>1. /\ (CHOOSE s \in S : nodePort[c][s] = p) \in S
          /\ nodePort[c][CHOOSE s \in S : nodePort[c][s] = p] = p
      BY <2>1, Zenon
    <3> QED BY <1>2, <2>1, <3>1
  <2>2. CASE ~\E s \in S : nodePort[c][s] = p
    BY <2>2
  <2> QED BY <2>1, <2>2
<1>4. portsOf(S) \in [NodePorts -> Services \cup {None}]
  <2> SUFFICES ASSUME NEW p \in NodePorts
               PROVE  portsOf(S)[p] \in Services \cup {None}
    OBVIOUS
  <2> HIDE DEF portsOf
  <2> QED BY <1>2, <1>3
<1> DEFINE ports == portsOf(S)
<1>5. r.ports = ports /\ r.fault = (S # known)
  BY <1>1
<1>6. ASSUME S = known, NEW s \in ServicesOf(spec), nodePort[c][s] # None
      PROVE  ports[nodePort[c][s]] = s
  <2>1. s \in S /\ s \in Services
    BY <1>2, <1>6
  <2>2. nodePort[c][s] \in NodePorts
    BY <1>6, <2>1, PortMapsAssumption DEF IngressTypeOK
  <2> HIDE DEF ports, portsOf, known
  <2>3. ports[nodePort[c][s]] \in S /\ nodePort[c][ports[nodePort[c][s]]] = nodePort[c][s]
    BY <1>3, <2>1, <2>2 DEF ports
  <2> QED BY <1>2, <1>6, <2>1, <2>3, PortMapsAssumption DEF IngressTypeOK
<1>7. \A p \in NodePorts : ports[p] # None => ports[p] \in S /\ nodePort[c][ports[p]] = p
  BY <1>3
<1> HIDE DEF known, portsOf, ports
<1>8. PortsRead(spec, c, r)
  BY <1>2, <1>5, <1>6, <1>7 DEF PortsRead
<1> QED BY <1>4, <1>5, <1>8 DEF ports
=============================================================================
