-------------------------- MODULE ConcurrentProofs --------------------------
(***************************************************************************)
(* Concurrent commands, for any number of processes and clusters: types;   *)
(* that a remove-clusters changes nothing but its own clusters in the      *)
(* backend services and the status; that it takes effect for good; and     *)
(* that in the end the status tells what the backend services have.        *)
(***************************************************************************)
EXTENDS ConcurrentCommands, SyncerProofs

(***************************************************************************)
(* What a process knows of the resource it works on: it has a value of     *)
(* that kind, and the ports it works on have a service.  Before it has     *)
(* asked for a resource it knows none.                                     *)
(***************************************************************************)
LocalOK(s) ==
  /\ s.at = "put" => s.key \in Keys
  /\ s.at \in {"ingress", "status", "ports", "igs"} => s.todo = {} /\ s.key = None
  /\ s.at \in {"ingress", "status", "ports", "igs", "get"} => s.seen = None
  /\ \A p \in NodePorts : p \in s.todo \/ p = s.key => s.ports[p] # None
  /\ s.key = "fw" => s.seen \in FWs
  /\ s.key = "um" => s.seen \in UMs

(***************************************************************************)
(* The inductive invariant: types, and a url map always has a status.      *)
(***************************************************************************)
HasStatus == um # None => um.st \in Status

ConcurrentInv == /\ ConcurrentTypeOK
                 /\ HasStatus
                 /\ \A i \in Procs : LocalOK(proc[i])

-----------------------------------------------------------------------------
(***************************************************************************)
(* The job of a process is a command.                                      *)
(***************************************************************************)
LEMMA JobType ==
  ASSUME NEW i \in Procs
  PROVE  /\ Job[i].op \in {"create", "remove"} /\ Job[i].spec \in Specs
         /\ Job[i].spec \in SpecType /\ Job[i].spec.ip \in IPs
         /\ Job[i].clusters \in SUBSET Clusters /\ Job[i].force \in BOOLEAN
<1>1. Job[i] \in CommandType /\ Job[i].op \in {"create", "remove"} /\ Job[i].spec.ip # None
  BY JobAssumption, ConfigAssumption
<1>2. /\ Job[i].spec \in Specs /\ Job[i].clusters \in SUBSET Clusters
      /\ Job[i].force \in BOOLEAN
  BY <1>1 DEF CommandType
<1>3. Job[i].spec \in SpecType
  BY <1>2, ConfigAssumption
<1>4. Job[i].spec.ip \in IPs
  BY <1>1, <1>3 DEF SpecType
<1> QED BY <1>1, <1>2, <1>3, <1>4

(***************************************************************************)
(* A process advances to a state of its own and leaves the others alone.   *)
(***************************************************************************)
LEMMA AdvanceLocal ==
  ASSUME ConcurrentInv, NEW i \in Procs, NEW s \in States, LocalOK(s),
         NEW e \in BOOLEAN, NEW f \in BOOLEAN, Advance(i, s, e, f)
  PROVE  /\ proc' \in [Procs -> States] /\ faults' \in 0..MaxFaults
         /\ \A j \in Procs : LocalOK(proc'[j])
         /\ \A j \in Procs : j # i => proc'[j] = proc[j]
<1> DEFINE t == [s EXCEPT !.err = @ \/ e]
<1>1. proc \in [Procs -> States] /\ faults \in 0..MaxFaults /\ MaxFaults \in Nat
  BY ConfigAssumption DEF ConcurrentInv, ConcurrentTypeOK
<1>2. t \in States /\ LocalOK(t)
  <2>1. t \in States
    BY DEF States
  <2>2. /\ t.at = s.at /\ t.ports = s.ports /\ t.todo = s.todo /\ t.key = s.key
        /\ t.seen = s.seen
    BY DEF States
  <2> QED BY <2>1, <2>2 DEF LocalOK
<1> HIDE DEF t
<1>3. proc' = [proc EXCEPT ![i] = t] /\ faults' = IF f THEN faults + 1 ELSE faults
  BY DEF Advance, t
<1>4. faults' \in 0..MaxFaults
  BY <1>1, <1>3 DEF Advance
<1>5. \A j \in Procs : proc'[j] = IF j = i THEN t ELSE proc[j]
  BY <1>1, <1>3
<1>6. \A j \in Procs : LocalOK(proc'[j])
  BY <1>2, <1>5 DEF ConcurrentInv
<1> QED BY <1>1, <1>2, <1>3, <1>4, <1>5, <1>6

(***************************************************************************)
(* The steps that leave the cloud alone need only to keep the types of     *)
(* the ingresses and of the process.                                       *)
(***************************************************************************)
LEMMA LocalStep ==
  ASSUME ConcurrentInv, NEW i \in Procs, NEW s \in States, LocalOK(s),
         NEW e \in BOOLEAN, NEW f \in BOOLEAN, Advance(i, s, e, f),
         UNCHANGED <<be, um, fw, nodePort>>, ing' \in [Clusters -> Ings]
  PROVE  ConcurrentInv'
<1>1. /\ proc' \in [Procs -> States] /\ faults' \in 0..MaxFaults
      /\ \A j \in Procs : LocalOK(proc'[j])
  BY AdvanceLocal
<1>2. /\ be' = be /\ um' = um /\ fw' = fw /\ nodePort' = nodePort
      /\ BackendServiceTypeOK /\ URLMapTypeOK /\ FirewallRuleTypeOK
      /\ nodePort \in PortMaps /\ HasStatus
  BY DEF ConcurrentInv, ConcurrentTypeOK, IngressTypeOK
<1>3. ConcurrentTypeOK'
  BY <1>1, <1>2 DEF ConcurrentTypeOK, BackendServiceTypeOK, URLMapTypeOK,
     FirewallRuleTypeOK, IngressTypeOK, Ings
<1>4. HasStatus'
  BY <1>2 DEF HasStatus
<1> QED BY <1>1, <1>3, <1>4 DEF ConcurrentInv, LocalOK

(***************************************************************************)
(* Moving on to another step, the local state stays as it was.             *)
(***************************************************************************)
LEMMA GotoType ==
  ASSUME ConcurrentInv, NEW i \in Procs,
         NEW step \in {"ingress", "status", "ports", "igs", "get", "put",
                       "delIngress", "done"}
  PROVE  /\ Goto(i, step) \in States
         /\ Goto(i, step).at = step /\ Goto(i, step).ports = proc[i].ports
         /\ Goto(i, step).todo = proc[i].todo /\ Goto(i, step).key = proc[i].key
         /\ Goto(i, step).seen = proc[i].seen /\ Goto(i, step).bes = proc[i].bes
         /\ Goto(i, step).err = proc[i].err /\ Goto(i, step).igs = proc[i].igs
BY DEF ConcurrentInv, ConcurrentTypeOK, Goto, States

(***************************************************************************)
(* The same for what is known of the resource, unless the step is one that *)
(* expects more.                                                           *)
(***************************************************************************)
LEMMA GotoLocal ==
  ASSUME ConcurrentInv, NEW i \in Procs,
         NEW step \in {"ports", "igs", "get", "delIngress", "done"},
         step \in {"ports", "igs"} => proc[i].at \in {"ingress", "status", "ports"},
         step = "get" => proc[i].at = "igs"
  PROVE  Goto(i, step) \in States /\ LocalOK(Goto(i, step))
<1>1. LocalOK(proc[i])
  BY DEF ConcurrentInv
<1>2. /\ Goto(i, step) \in States
      /\ Goto(i, step).at = step /\ Goto(i, step).ports = proc[i].ports
      /\ Goto(i, step).todo = proc[i].todo /\ Goto(i, step).key = proc[i].key
      /\ Goto(i, step).seen = proc[i].seen
  BY GotoType
<1>3. step # "put" /\ step \notin {"ingress", "status"}
  OBVIOUS
<1> QED BY <1>1, <1>2, <1>3 DEF LocalOK

LEMMA createIngressInv ==
  ASSUME ConcurrentInv, NEW i \in Procs, createIngress(i)
  PROVE  ConcurrentInv'
<1>1. PICK o \in EnsureIngress(Job[i].spec, Job[i].clusters, Job[i].force) :
        /\ ing' = Results(o)
        /\ Advance(i, Goto(i, IF AnyErr(o) THEN "done" ELSE "ports"), AnyErr(o), AnyFault(o))
  BY DEF createIngress
<1> DEFINE step == IF AnyErr(o) THEN "done" ELSE "ports"
<1>2. ing' \in [Clusters -> Ings] /\ AnyErr(o) \in BOOLEAN /\ AnyFault(o) \in BOOLEAN
  BY <1>1, JobType, EnsureIngressOutcome DEF ConcurrentInv, ConcurrentTypeOK
<1>3. Goto(i, step) \in States /\ LocalOK(Goto(i, step))
  BY GotoLocal DEF createIngress, At
<1> QED BY <1>1, <1>2, <1>3, LocalStep DEF createIngress

(***************************************************************************)
(* A step that neither reads nor writes an ingress keeps their types.      *)
(***************************************************************************)
LEMMA IngressesTyped ==
  ASSUME ConcurrentInv, UNCHANGED ing
  PROVE  ing' \in [Clusters -> Ings]
BY DEF ConcurrentInv, ConcurrentTypeOK, IngressTypeOK, Ings

LEMMA AfterSyncerType ==
  ASSUME NEW i \in Procs, NEW e
  PROVE  AfterSyncer(i, e) \in {"done", "delIngress"}
BY DEF AfterSyncer

LEMMA checkStatusInv ==
  ASSUME ConcurrentInv, NEW i \in Procs, checkStatus(i)
  PROVE  ConcurrentInv'
<1>1. ing' \in [Clusters -> Ings] /\ UNCHANGED <<be, um, fw, nodePort>>
  BY IngressesTyped DEF checkStatus
<1>2. PICK goOn \in BOOLEAN :
        \/ Advance(i, Goto(i, IF goOn THEN "ports" ELSE AfterSyncer(i, TRUE)), ~goOn, FALSE)
        \/ Advance(i, Goto(i, AfterSyncer(i, TRUE)), TRUE, TRUE)
  BY DEF checkStatus
<1> DEFINE step == IF goOn THEN "ports" ELSE AfterSyncer(i, TRUE)
<1>3. /\ Goto(i, step) \in States /\ LocalOK(Goto(i, step))
      /\ Goto(i, AfterSyncer(i, TRUE)) \in States /\ LocalOK(Goto(i, AfterSyncer(i, TRUE)))
  BY GotoLocal, AfterSyncerType DEF checkStatus, At
<1> QED BY <1>1, <1>2, <1>3, LocalStep

LEMMA readPortsInv ==
  ASSUME ConcurrentInv, NEW i \in Procs, readPorts(i)
  PROVE  ConcurrentInv'
<1>0. PICK c \in Job[i].clusters : \E r \in ingToNodePorts(Job[i].spec, c) :
        Advance(i, [Goto(i, "igs") EXCEPT !.ports = r.ports], FALSE, r.fault)
  BY DEF readPorts
<1>1. PICK r \in ingToNodePorts(Job[i].spec, c) :
        Advance(i, [Goto(i, "igs") EXCEPT !.ports = r.ports], FALSE, r.fault)
  BY <1>0
<1> DEFINE s == [Goto(i, "igs") EXCEPT !.ports = r.ports]
<1>2. r.ports \in [NodePorts -> Services \cup {None}] /\ r.fault \in BOOLEAN
  BY <1>1, JobType, ingToNodePortsType DEF ConcurrentInv, ConcurrentTypeOK
<1>3. Goto(i, "igs") \in States /\ LocalOK(Goto(i, "igs")) /\ Goto(i, "igs").at = "igs"
  BY GotoLocal, GotoType DEF readPorts, At
<1>4. s \in States
  BY <1>2, <1>3 DEF States
<1>5. LocalOK(s)
  <2>1. /\ s.at = "igs" /\ s.todo = Goto(i, "igs").todo /\ s.key = Goto(i, "igs").key
        /\ s.seen = Goto(i, "igs").seen
    BY <1>3 DEF States
  <2>2. s.todo = {} /\ s.key = None
    BY <1>3, <2>1 DEF LocalOK
  <2> QED BY <1>3, <2>1, <2>2, NoneAssumption DEF LocalOK
<1>6. ing' \in [Clusters -> Ings] /\ UNCHANGED <<be, um, fw, nodePort>>
  BY IngressesTyped DEF readPorts
<1> HIDE DEF s
<1>7. Advance(i, s, FALSE, r.fault)
  BY <1>1 DEF s
<1> QED BY <1>2, <1>4, <1>5, <1>6, <1>7, LocalStep

LEMMA getIGsInv ==
  ASSUME ConcurrentInv, NEW i \in Procs, getIGs(i)
  PROVE  ConcurrentInv'
<1> DEFINE all == {p \in NodePorts : proc[i].ports[p] # None} \cup {"fw", "um"}
<1>1. PICK found \in SUBSET Clusters, todo \in {all, {"um"}, {}}, e \in BOOLEAN, f \in BOOLEAN :
        /\ \A c \in found : ing[c] # None
        /\ Advance(i, [Goto(i, IF todo = {} THEN "done" ELSE "get") EXCEPT
                         !.igs = [c \in Clusters |-> IF c \in found THEN ing[c].igs ELSE {}],
                         !.todo = todo], e, f)
  <2>1. PICK found \in SUBSET {c \in Job[i].clusters : ing[c] # None /\ ing[c].igs # {}} :
          LET failed == found # Job[i].clusters
              fault == found # {c \in Job[i].clusters : ing[c] # None}
              todo == CASE Job[i].op = "create" /\ found # {} -> all
                        [] Job[i].op = "remove" /\ ~failed -> all
                        [] Job[i].op = "remove" /\ failed /\ Job[i].force -> {"um"}
                        [] OTHER -> {}
          IN  Advance(i, [Goto(i, IF todo = {} THEN "done" ELSE "get") EXCEPT
                            !.igs = [c \in Clusters |->
                                       IF c \in found THEN ing[c].igs ELSE {}],
                            !.todo = todo], failed, fault)
    BY DEF getIGs
  <2> DEFINE failed == found # Job[i].clusters
             fault == found # {c \in Job[i].clusters : ing[c] # None}
             todo == CASE Job[i].op = "create" /\ found # {} -> all
                       [] Job[i].op = "remove" /\ ~failed -> all
                       [] Job[i].op = "remove" /\ failed /\ Job[i].force -> {"um"}
                       [] OTHER -> {}
  <2>2. failed \in BOOLEAN /\ fault \in BOOLEAN
    OBVIOUS
  <2>3. todo \in {all, {"um"}, {}}
    BY JobType
  <2>4. found \in SUBSET Clusters /\ \A c \in found : ing[c] # None
    BY <2>1, JobType
  <2> QED BY <2>1, <2>2, <2>3, <2>4
<1> DEFINE step == IF todo = {} THEN "done" ELSE "get"
           links == [c \in Clusters |-> IF c \in found THEN ing[c].igs ELSE {}]
           s == [Goto(i, step) EXCEPT !.igs = links, !.todo = todo]
<1>2. links \in [Clusters -> SUBSET InstanceGroups]
  BY <1>1 DEF ConcurrentInv, ConcurrentTypeOK, IngressTypeOK, Ingresses
<1>3. todo \in SUBSET Keys
  BY <1>1 DEF Keys
<1>4. Goto(i, step) \in States /\ LocalOK(Goto(i, step))
  BY GotoLocal DEF getIGs, At
<1>5. s \in States
  BY <1>2, <1>3, <1>4 DEF States
<1>6. LocalOK(s)
  <2>1. /\ s.at = step /\ s.ports = proc[i].ports /\ s.key = proc[i].key
        /\ s.seen = proc[i].seen /\ s.todo = todo
    BY <1>4, GotoType DEF States
  <2>2. proc[i].at = "igs" /\ LocalOK(proc[i])
    BY DEF getIGs, At, ConcurrentInv
  <2>3. s.key = None
    BY <2>1, <2>2 DEF LocalOK
  <2>4. \A p \in NodePorts : p \in s.todo \/ p = s.key => s.ports[p] # None
    BY <1>1, <2>1, <2>3, NoneAssumption, JobAssumption
  <2>5. step \in {"done", "get"}
    OBVIOUS
  <2> HIDE DEF s, step
  <2> QED BY <2>1, <2>2, <2>4, <2>5 DEF LocalOK
<1>7. ing' \in [Clusters -> Ings] /\ UNCHANGED <<be, um, fw, nodePort>>
  BY IngressesTyped DEF getIGs
<1>8. Advance(i, s, e, f)
  BY <1>1
<1> HIDE DEF s
<1> QED BY <1>1, <1>5, <1>6, <1>7, <1>8, LocalStep

(***************************************************************************)
(* What a Get returns is a resource of the kind that was asked for.        *)
(***************************************************************************)
LEMMA ResourceType ==
  ASSUME ConcurrentInv, NEW k \in Keys
  PROVE  /\ Resource(k) \in Values \cup {None}
         /\ k = "fw" => Resource(k) = fw /\ fw \in FWs
         /\ k = "um" => Resource(k) = um /\ um \in UMs
         /\ k \in NodePorts => Resource(k) = be[k] /\ be[k] \in BEs
<1>1. /\ fw \in FWs /\ um \in UMs
      /\ \A p \in NodePorts : be[p] \in BEs
  BY DEF ConcurrentInv, ConcurrentTypeOK, BackendServiceTypeOK, URLMapTypeOK,
     FirewallRuleTypeOK, FWs, UMs, BEs
<1>2. NodePorts \cap {"fw", "um"} = {}
  BY JobAssumption
<1> QED BY <1>1, <1>2 DEF Resource, Keys, Values, FWs, UMs, BEs

LEMMA getInv ==
  ASSUME ConcurrentInv, NEW i \in Procs, get(i)
  PROVE  ConcurrentInv'
<1>0. proc[i] \in States /\ LocalOK(proc[i]) /\ proc[i].at = "get"
  BY DEF ConcurrentInv, ConcurrentTypeOK, get, At
<1>1. PICK k \in proc[i].todo :
        LET s == [Goto(i, "put") EXCEPT !.key = k]
        IN  \/ Advance(i, [s EXCEPT !.seen = Resource(k)], FALSE, FALSE)
            \/ Advance(i, s, FALSE, TRUE)
  BY DEF get
<1> DEFINE s == [Goto(i, "put") EXCEPT !.key = k]
           t == [s EXCEPT !.seen = Resource(k)]
<1>2. k \in Keys
  BY <1>0 DEF States
<1>3. Goto(i, "put") \in States
  BY GotoType
<1>4. s \in States /\ t \in States
  BY <1>2, <1>3, ResourceType DEF States
<1>5. /\ s.at = "put" /\ s.ports = proc[i].ports /\ s.todo = proc[i].todo
      /\ s.key = k /\ s.seen = proc[i].seen
      /\ t.at = "put" /\ t.ports = proc[i].ports /\ t.todo = proc[i].todo
      /\ t.key = k /\ t.seen = Resource(k)
  BY <1>3, GotoType DEF States
<1>6. LocalOK(s) /\ LocalOK(t)
  BY <1>0, <1>2, <1>5, ResourceType DEF LocalOK, FWs, UMs
<1>7. ing' \in [Clusters -> Ings] /\ UNCHANGED <<be, um, fw, nodePort>>
  BY IngressesTyped DEF get
<1>8. Advance(i, t, FALSE, FALSE) \/ Advance(i, s, FALSE, TRUE)
  BY <1>1
<1> HIDE DEF s, t
<1> QED BY <1>4, <1>6, <1>7, <1>8, LocalStep

-----------------------------------------------------------------------------
(***************************************************************************)
(* An update that changes the resource was sent with no fingerprint or     *)
(* with that of the present value.                                         *)
(***************************************************************************)
LEMMA updateOutcome ==
  ASSUME NEW k, NEW fp, NEW new, NEW o \in update(k, fp, new)
  PROVE  /\ o \in Outcomes({Resource(k), new})
         /\ \/ o.res = Resource(k)
            \/ o.res = new /\ Resource(k) # None /\ (fp # None => fp = Resource(k))
<1> DEFINE cur == Resource(k)
<1>1. CASE cur = None \/ (fp # None /\ fp # cur)
  <2>1. o = Refused(cur) \/ o \in Faulty({cur})
    BY <1>1 DEF update
  <2>2. o \in Outcomes({cur}) /\ o.res = cur
    BY <2>1, FailedOutcome
  <2>3. o \in Outcomes({cur, new})
    BY <2>2, WiderOutcome
  <2> QED BY <2>2, <2>3
<1>2. CASE ~(cur = None \/ (fp # None /\ fp # cur))
  <2>1. o \in Call(cur, new)
    BY <1>2 DEF update
  <2>2. o \in Outcomes({cur, new}) /\ o.res \in {cur, new}
    BY <2>1, CallOutcome
  <2> QED BY <1>2, <2>2
<1> QED BY <1>1, <1>2

(***************************************************************************)
(* A create leaves what is there or writes what it desires.                *)
(***************************************************************************)
LEMMA ensureOutcome ==
  ASSUME NEW i \in Procs, NEW k \in Keys, NEW seen, NEW o \in ensure(i, k, seen)
  PROVE  \/ o \in Outcomes({Resource(k)})
         \/ ~NotComputable(i, k) /\ o \in Outcomes({Resource(k), Desired(i, k)})
<1> DEFINE cur == Resource(k)
           new == Desired(i, k)
<1>1. CASE o = Refused(cur) \/ o = Ok(cur)
  <2>1. Refused(cur) \in Outcomes({cur}) /\ Ok(cur) \in Outcomes({cur})
    BY AnsweredOutcome
  <2> QED BY <1>1, <2>1
<1>2. CASE ~NotComputable(i, k) /\ o \in insert(k, new)
  <2>1. o \in Outcomes({cur, new})
    BY <1>2, CreateOutcome DEF insert
  <2> QED BY <1>2, <2>1
<1>3. CASE ~NotComputable(i, k) /\ o \in update(k, fingerprint(k, seen), new)
  <2>1. o \in Outcomes({cur, new})
    BY <1>3, updateOutcome
  <2> QED BY <1>3, <2>1
<1>4. \/ o = Refused(cur) \/ o = Ok(cur)
      \/ ~NotComputable(i, k) /\ o \in insert(k, new)
      \/ ~NotComputable(i, k) /\ o \in update(k, fingerprint(k, seen), new)
  BY DEF ensure
<1> QED BY <1>1, <1>2, <1>3, <1>4

(***************************************************************************)
(* A remove leaves what is there or takes its clusters out of what it has  *)
(* read, which is what is there unless it is the firewall rule.            *)
(***************************************************************************)
LEMMA removeFromOutcome ==
  ASSUME NEW i \in Procs, NEW k \in Keys, NEW seen, NEW o \in removeFrom(i, k, seen)
  PROVE  \/ o \in Outcomes({Resource(k)}) /\ o.res = Resource(k)
         \/ /\ seen # None /\ (k # "fw" => seen = Resource(k))
            /\ o \in Outcomes({Resource(k), WithoutClusters(i, k, seen)})
            /\ o.res = WithoutClusters(i, k, seen)
<1> DEFINE cur == Resource(k)
           new == WithoutClusters(i, k, seen)
<1>1. CASE o = Refused(cur)
  BY <1>1, AnsweredOutcome
<1>2. CASE seen # None /\ o \in update(k, fingerprint(k, seen), new)
  <2>1. /\ o \in Outcomes({cur, new})
        /\ \/ o.res = cur
           \/ o.res = new /\ cur # None
              /\ (fingerprint(k, seen) # None => fingerprint(k, seen) = cur)
    BY <1>2, updateOutcome
  <2>2. CASE o.res = cur
    <3>1. o \in Outcomes({cur})
      BY <2>1, <2>2 DEF Outcomes
    <3> QED BY <2>2, <3>1
  <2>3. CASE o.res # cur
    <3>1. k # "fw" => fingerprint(k, seen) = seen
      BY DEF fingerprint
    <3> QED BY <1>2, <2>1, <2>3, <3>1
  <2> QED BY <2>2, <2>3
<1>3. o = Refused(cur) \/ (seen # None /\ o \in update(k, fingerprint(k, seen), new))
  BY DEF removeFrom
<1> QED BY <1>1, <1>2, <1>3

(***************************************************************************)
(* EnsuredServices maps the services to ports that were ensured.           *)
(***************************************************************************)
LEMMA EnsuredServicesType ==
  ASSUME ConcurrentInv, NEW i \in Procs
  PROVE  EnsuredServices(i) \in [Services -> NodePorts \cup {None}]
<1>1. proc[i].bes \subseteq NodePorts
  BY DEF ConcurrentInv, ConcurrentTypeOK, States
<1>2. ASSUME NEW s \in Services, \E p \in proc[i].bes : proc[i].ports[p] = s
      PROVE  (CHOOSE p \in proc[i].bes : proc[i].ports[p] = s) \in NodePorts
  <2>1. (CHOOSE p \in proc[i].bes : proc[i].ports[p] = s) \in proc[i].bes
    BY <1>2, Zenon
  <2> QED BY <1>1, <2>1
<1> QED BY <1>2 DEF EnsuredServices

(***************************************************************************)
(* What a create writes has its type, and a url map has a status.          *)
(***************************************************************************)
LEMMA DesiredType ==
  ASSUME ConcurrentInv, NEW i \in Procs, NEW k \in Keys, ~NotComputable(i, k),
         Job[i].op = "create", k \in NodePorts => proc[i].ports[k] # None
  PROVE  /\ k = "fw" => Desired(i, k) \in FirewallRules
         /\ k = "um" => Desired(i, k) \in URLMaps /\ Desired(i, k).st \in Status
         /\ k \in NodePorts => Desired(i, k) \in BackendServices
<1>0. NodePorts \cap {"fw", "um"} = {}
  BY JobAssumption
<1>1. /\ proc[i].ports \in [NodePorts -> Services \cup {None}]
      /\ proc[i].igs \in [Clusters -> SUBSET InstanceGroups]
  BY DEF ConcurrentInv, ConcurrentTypeOK, States
<1>2. CASE k = "fw"
  <2>1. Desired(i, k) = desiredFirewallRule(proc[i].ports, Known(i))
    BY <1>0, <1>2 DEF Desired
  <2>2. getTargetTags(Known(i)) \subseteq Tags
    BY <1>2, ConfigAssumption DEF NotComputable, getTargetTags, Known
  <2> QED BY <1>0, <1>2, <2>1, <2>2 DEF desiredFirewallRule, FirewallRules
<1>3. CASE k = "um"
  <2> DEFINE bes == EnsuredServices(i)
             spec == Job[i].spec
  <2>1. Desired(i, k) = desiredURLMap(spec, Job[i].clusters, bes, 1)
    BY <1>0, <1>3 DEF Desired
  <2>2. ~ingToURLMapFails(spec, bes)
    BY <1>3 DEF NotComputable
  <2>3. bes \in [Services -> NodePorts \cup {None}]
    BY EnsuredServicesType
  <2>4. /\ spec \in SpecType /\ Job[i].clusters \in SUBSET Clusters /\ spec.ip \in IPs
    BY JobType
  <2> HIDE DEF bes, spec
  <2>5. bes[spec.default] \in NodePorts
    BY <2>2, <2>3, <2>4 DEF ingToURLMapFails, ServicesOf, SpecType
  <2>6. [s \in Services |-> IF s \in spec.paths THEN bes[s] ELSE None]
          \in [Services -> NodePorts \cup {None}]
    BY <2>3
  <2>7. [clusters |-> Job[i].clusters, ip |-> spec.ip] \in Status
    BY <2>4 DEF Status
  <2>8. desiredURLMap(spec, Job[i].clusters, bes, 1) \in URLMaps
    BY <2>5, <2>6, <2>7 DEF desiredURLMap, URLMaps
  <2>9. desiredURLMap(spec, Job[i].clusters, bes, 1).st \in Status
    BY <2>7 DEF desiredURLMap
  <2> QED BY <1>0, <1>3, <2>1, <2>8, <2>9
<1>4. CASE k \in NodePorts
  <2>1. Desired(i, k) = desiredBackendService(proc[i].ports[k], IGs(i))
    BY <1>0, <1>4 DEF Desired
  <2>2. IGs(i) \in SUBSET InstanceGroups
    BY <1>1 DEF IGs
  <2>3. proc[i].ports[k] \in Services
    BY <1>1, <1>4
  <2> QED BY <1>0, <1>4, <2>1, <2>2, <2>3 DEF desiredBackendService, BackendServices
<1> QED BY <1>2, <1>3, <1>4 DEF Keys

(***************************************************************************)
(* The same for what a remove writes.                                      *)
(***************************************************************************)
LEMMA WithoutClustersType ==
  ASSUME ConcurrentInv, NEW i \in Procs, NEW k \in Keys, NEW v, v # None,
         k = "fw" => v \in FWs, k # "fw" => v = Resource(k)
  PROVE  /\ k = "fw" => WithoutClusters(i, k, v) \in FirewallRules
         /\ k = "um" => /\ WithoutClusters(i, k, v) \in URLMaps
                        /\ WithoutClusters(i, k, v).st \in Status
                        /\ WithoutClusters(i, k, v)
                             = [um EXCEPT !.st.clusters = @ \ Job[i].clusters]
         /\ k \in NodePorts => /\ WithoutClusters(i, k, v) \in BackendServices
                               /\ WithoutClusters(i, k, v) = [be[k] EXCEPT !.igs = @ \ IGs(i)]
<1>0. NodePorts \cap {"fw", "um"} = {}
  BY JobAssumption
<1>1. CASE k = "fw"
  <2>1. WithoutClusters(i, k, v) = [v EXCEPT !.tags = @ \ getTargetTags(Known(i))]
    BY <1>0, <1>1 DEF WithoutClusters, desiredFirewallRuleWithoutClusters
  <2>2. v \in FirewallRules
    BY <1>1 DEF FWs
  <2> QED BY <1>0, <1>1, <2>1, <2>2 DEF FirewallRules
<1>2. CASE k = "um"
  <2>1. um # None /\ um \in URLMaps /\ um.st \in Status /\ v = um
    BY <1>2, ResourceType DEF UMs, ConcurrentInv, HasStatus
  <2>2. um.st # None
    BY <2>1, NoneAssumption
  <2>3. WithoutClusters(i, k, v) = [um EXCEPT !.st = RemoveClusters(@, Job[i].clusters)]
    BY <1>0, <1>2, <2>1 DEF WithoutClusters, desiredURLMapWithoutClusters
  <2>4. RemoveClusters(um.st, Job[i].clusters)
          = [um.st EXCEPT !.clusters = @ \ Job[i].clusters]
    BY <2>2 DEF RemoveClusters
  <2>5. RemoveClusters(um.st, Job[i].clusters) \in Status
    BY <2>1, <2>4 DEF Status
  <2>6. WithoutClusters(i, k, v) \in URLMaps /\ WithoutClusters(i, k, v).st \in Status
    BY <2>1, <2>3, <2>5 DEF URLMaps
  <2>7. WithoutClusters(i, k, v) = [um EXCEPT !.st.clusters = @ \ Job[i].clusters]
    BY <2>3, <2>4
  <2> QED BY <1>0, <1>2, <2>6, <2>7
<1>3. CASE k \in NodePorts
  <2>1. v = be[k] /\ be[k] \in BackendServices
    BY <1>0, <1>3, ResourceType DEF BEs
  <2>2. WithoutClusters(i, k, v) = [be[k] EXCEPT !.igs = @ \ IGs(i)]
    BY <1>0, <1>3, <2>1 DEF WithoutClusters, desiredBackendServiceWithoutClusters
  <2>3. WithoutClusters(i, k, v) \in BackendServices
    BY <2>1, <2>2 DEF BackendServices
  <2> QED BY <1>0, <1>3, <2>2, <2>3
<1> QED BY <1>1, <1>2, <1>3 DEF Keys

(***************************************************************************)
(* A create without --force leaves what is there.                          *)
(***************************************************************************)
LEMMA ensureUnforced ==
  ASSUME NEW i \in Procs, NEW k, NEW seen, ~Job[i].force, Resource(k) # None,
         NEW o \in ensure(i, k, seen)
  PROVE  o.res = Resource(k)
<1>1. o = Refused(Resource(k)) \/ o = Ok(Resource(k)) \/ o \in insert(k, Desired(i, k))
  BY DEF ensure
<1>2. Refused(Resource(k)).res = Resource(k) /\ Ok(Resource(k)).res = Resource(k)
  BY AnsweredOutcome
<1>3. CASE o \in insert(k, Desired(i, k))
  BY <1>3, CreateOutcome DEF insert
<1> QED BY <1>1, <1>2, <1>3

(***************************************************************************)
(* If it reports no error, it has found what it wants or has inserted it.  *)
(***************************************************************************)
LEMMA ensureSucceeds ==
  ASSUME NEW i \in Procs, NEW k, NEW seen, ~Job[i].force,
         NEW o \in ensure(i, k, seen), ~o.err
  PROVE  \/ o.res = Resource(k) /\ seen = Desired(i, k)
         \/ Resource(k) = None /\ o.res = Desired(i, k) /\ ~NotComputable(i, k)
<1>1. Refused(Resource(k)).err /\ Ok(Resource(k)).res = Resource(k)
  BY AnsweredOutcome
<1>2. \/ o = Ok(Resource(k)) /\ seen = Desired(i, k)
      \/ ~NotComputable(i, k) /\ o \in insert(k, Desired(i, k))
  BY <1>1 DEF ensure
<1>3. CASE ~NotComputable(i, k) /\ o \in insert(k, Desired(i, k))
  BY <1>3, CreateOutcome DEF insert
<1> QED BY <1>1, <1>2, <1>3

(***************************************************************************)
(* A remove that reports no error has made its change.                     *)
(***************************************************************************)
LEMMA removeFromSucceeds ==
  ASSUME NEW i \in Procs, NEW k, NEW seen, NEW o \in removeFrom(i, k, seen), ~o.err
  PROVE  seen # None /\ o.res = WithoutClusters(i, k, seen)
         /\ (k # "fw" => seen = Resource(k))
<1> DEFINE cur == Resource(k)
           new == WithoutClusters(i, k, seen)
           fp == fingerprint(k, seen)
<1>1. Refused(cur).err
  BY AnsweredOutcome
<1>2. seen # None /\ o \in update(k, fp, new)
  BY <1>1 DEF removeFrom
<1>3. ~(cur = None \/ (fp # None /\ fp # cur)) /\ o \in Call(cur, new)
  <2>1. CASE o = Refused(cur) \/ o \in Faulty({cur})
    BY <2>1, FailedOutcome
  <2> QED BY <1>2, <2>1 DEF update
<1>4. o.res = new
  BY <1>3, CallOutcome
<1>5. k # "fw" => fp = seen
  BY DEF fingerprint
<1> QED BY <1>2, <1>3, <1>4, <1>5

(***************************************************************************)
(* The outcome of a put: types, and what a remove may have changed.        *)
(***************************************************************************)
PutOutcome(i, k, o) ==
  /\ o.err \in BOOLEAN /\ o.fault \in BOOLEAN
  /\ k = "fw" => o.res \in FWs
  /\ k = "um" => o.res \in UMs /\ (o.res # None => o.res.st \in Status)
  /\ k \in NodePorts => o.res \in BEs

\* What a create without --force leaves, and a remove without an error writes.
UnforcedOutcome(k, o) == Resource(k) # None => o.res = Resource(k)

RemovedOutcome(i, k, o) ==
  /\ k = "um" => um # None /\ o.res = [um EXCEPT !.st.clusters = @ \ Job[i].clusters]
  /\ k \in NodePorts => be[k] # None /\ o.res = [be[k] EXCEPT !.igs = @ \ IGs(i)]

\* What a create without --force and without an error has found or written.
CreatedOutcome(i, k, o) ==
  \/ o.res = Resource(k) /\ proc[i].seen = Desired(i, k)
  \/ Resource(k) = None /\ o.res = Desired(i, k) /\ ~NotComputable(i, k)

RemoveOutcome(i, k, o) ==
  /\ k = "um" => \/ o.res = um
                 \/ um # None /\ o.res = [um EXCEPT !.st.clusters = @ \ Job[i].clusters]
  /\ k \in NodePorts => \/ o.res = be[k]
                        \/ be[k] # None /\ o.res = [be[k] EXCEPT !.igs = @ \ IGs(i)]

LEMMA CreatePut ==
  ASSUME ConcurrentInv, NEW i \in Procs, At(i, "put"), Job[i].op = "create",
         NEW o \in ensure(i, proc[i].key, proc[i].seen)
  PROVE  /\ PutOutcome(i, proc[i].key, o)
         /\ ~Job[i].force => UnforcedOutcome(proc[i].key, o)
         /\ ~Job[i].force /\ ~o.err => CreatedOutcome(i, proc[i].key, o)
<1> DEFINE k == proc[i].key
<1>1. k \in Keys /\ (k \in NodePorts => proc[i].ports[k] # None)
  BY DEF ConcurrentInv, LocalOK, At
<1>2. \/ o \in Outcomes({Resource(k)})
      \/ ~NotComputable(i, k) /\ o \in Outcomes({Resource(k), Desired(i, k)})
  BY <1>1, ensureOutcome
<1>3. /\ k = "fw" => Resource(k) \in FWs
      /\ k = "um" => Resource(k) \in UMs /\ (Resource(k) # None => Resource(k).st \in Status)
      /\ k \in NodePorts => Resource(k) \in BEs
  BY <1>1, ResourceType DEF ConcurrentInv, HasStatus
<1>4. ~NotComputable(i, k) =>
        /\ k = "fw" => Desired(i, k) \in FirewallRules
        /\ k = "um" => Desired(i, k) \in URLMaps /\ Desired(i, k).st \in Status
        /\ k \in NodePorts => Desired(i, k) \in BackendServices
  BY <1>1, DesiredType
<1> HIDE DEF k
<1>5. /\ o.err \in BOOLEAN /\ o.fault \in BOOLEAN
      /\ o.res = Resource(k) \/ (~NotComputable(i, k) /\ o.res = Desired(i, k))
  BY <1>2 DEF Outcomes
<1>6. PutOutcome(i, k, o)
  BY <1>3, <1>4, <1>5 DEF PutOutcome, FWs, UMs, BEs
<1>7. ~Job[i].force => UnforcedOutcome(k, o)
  BY ensureUnforced DEF UnforcedOutcome, k
<1>8. ~Job[i].force /\ ~o.err => CreatedOutcome(i, k, o)
  BY ensureSucceeds DEF CreatedOutcome, k
<1> QED BY <1>6, <1>7, <1>8 DEF k

LEMMA RemovePut ==
  ASSUME ConcurrentInv, NEW i \in Procs, At(i, "put"),
         NEW o \in removeFrom(i, proc[i].key, proc[i].seen)
  PROVE  /\ PutOutcome(i, proc[i].key, o) /\ RemoveOutcome(i, proc[i].key, o)
         /\ ~o.err => RemovedOutcome(i, proc[i].key, o)
<1> DEFINE k == proc[i].key
           v == proc[i].seen
<1>1. k \in Keys /\ (k = "fw" => v \in FWs)
  BY DEF ConcurrentInv, LocalOK, At
<1>2. \/ o \in Outcomes({Resource(k)}) /\ o.res = Resource(k)
      \/ /\ v # None /\ (k # "fw" => v = Resource(k))
         /\ o \in Outcomes({Resource(k), WithoutClusters(i, k, v)})
         /\ o.res = WithoutClusters(i, k, v)
  BY <1>1, removeFromOutcome
<1>3. /\ k = "fw" => Resource(k) \in FWs
      /\ k = "um" => /\ Resource(k) = um /\ um \in UMs
                     /\ um # None => um.st \in Status
      /\ k \in NodePorts => Resource(k) = be[k] /\ be[k] \in BEs
  BY <1>1, ResourceType DEF ConcurrentInv, HasStatus
<1>6. ASSUME ~o.err
      PROVE  RemovedOutcome(i, k, o)
  <2>1. v # None /\ o.res = WithoutClusters(i, k, v) /\ (k # "fw" => v = Resource(k))
    BY <1>6, removeFromSucceeds
  <2> HIDE DEF k, v
  <2>2. /\ k = "um" => o.res = [um EXCEPT !.st.clusters = @ \ Job[i].clusters]
        /\ k \in NodePorts => o.res = [be[k] EXCEPT !.igs = @ \ IGs(i)]
    BY <1>1, <2>1, WithoutClustersType
  <2>3. (k = "um" => um # None) /\ (k \in NodePorts => be[k] # None)
    BY <1>3, <2>1, JobAssumption
  <2> QED BY <2>2, <2>3 DEF RemovedOutcome
<1> HIDE DEF k, v
<1>4. CASE o \in Outcomes({Resource(k)}) /\ o.res = Resource(k)
  <2>1. o.err \in BOOLEAN /\ o.fault \in BOOLEAN
    BY <1>4 DEF Outcomes
  <2>2. PutOutcome(i, k, o) /\ RemoveOutcome(i, k, o)
    BY <1>3, <1>4, <2>1 DEF PutOutcome, RemoveOutcome
  <2> QED BY <1>6, <2>2 DEF k
<1>5. CASE /\ v # None /\ (k # "fw" => v = Resource(k))
           /\ o \in Outcomes({Resource(k), WithoutClusters(i, k, v)})
           /\ o.res = WithoutClusters(i, k, v)
  <2>1. o.err \in BOOLEAN /\ o.fault \in BOOLEAN
    BY <1>5 DEF Outcomes
  <2>2. /\ k = "fw" => o.res \in FirewallRules
        /\ k = "um" => /\ o.res \in URLMaps /\ o.res.st \in Status
                       /\ o.res = [um EXCEPT !.st.clusters = @ \ Job[i].clusters]
        /\ k \in NodePorts => /\ o.res \in BackendServices
                              /\ o.res = [be[k] EXCEPT !.igs = @ \ IGs(i)]
    BY <1>1, <1>5, WithoutClustersType
  <2>3. (k = "um" => um # None) /\ (k \in NodePorts => be[k] # None)
    BY <1>3, <1>5, JobAssumption
  <2>4. PutOutcome(i, k, o)
    BY <2>1, <2>2 DEF PutOutcome, FWs, UMs, BEs
  <2>5. RemoveOutcome(i, k, o)
    BY <2>2, <2>3 DEF RemoveOutcome
  <2> QED BY <1>6, <2>4, <2>5 DEF k
<1> QED BY <1>2, <1>4, <1>5

(***************************************************************************)
(* A write changes the one resource it is for.                             *)
(***************************************************************************)
LEMMA WriteType ==
  ASSUME ConcurrentInv, NEW i \in Procs, NEW k \in Keys, NEW o, PutOutcome(i, k, o),
         Write(k, o.res)
  PROVE  /\ BackendServiceTypeOK' /\ URLMapTypeOK' /\ FirewallRuleTypeOK' /\ HasStatus'
<1>0. NodePorts \cap {"fw", "um"} = {}
  BY JobAssumption
<1>1. /\ fw \in FWs /\ um \in UMs /\ HasStatus
      /\ \A p \in NodePorts : be[p] \in BEs
  BY DEF ConcurrentInv, ConcurrentTypeOK, BackendServiceTypeOK, URLMapTypeOK,
     FirewallRuleTypeOK, FWs, UMs, BEs
<1>2. fw' \in FWs
  BY <1>1 DEF Write, PutOutcome
<1>3. um' \in UMs /\ HasStatus'
  BY <1>1 DEF Write, PutOutcome, HasStatus
<1>4. be' \in [NodePorts -> BEs]
  BY <1>1 DEF Write, PutOutcome
<1> QED BY <1>2, <1>3, <1>4 DEF BackendServiceTypeOK, URLMapTypeOK, FirewallRuleTypeOK,
           FWs, UMs, BEs

LEMMA FinishType ==
  ASSUME ConcurrentInv, NEW i \in Procs, At(i, "put"), NEW e,
         NEW bes \in SUBSET NodePorts
  PROVE  LET s == [Finish(i, e) EXCEPT !.bes = bes]
         IN  s \in States /\ LocalOK(s)
<1>1. proc[i] \in States /\ LocalOK(proc[i])
  BY DEF ConcurrentInv, ConcurrentTypeOK
<1> DEFINE r == [proc[i] EXCEPT !.todo = @ \ {proc[i].key}, !.key = None, !.seen = None]
           step == IF r.todo = {} THEN AfterSyncer(i, r.err \/ e) ELSE "get"
           s == [[r EXCEPT !.at = step] EXCEPT !.bes = bes]
<1>2. /\ r \in States /\ r.todo \subseteq proc[i].todo /\ r.key = None /\ r.seen = None
      /\ r.ports = proc[i].ports
  BY <1>1 DEF States
<1>3. step \in {"done", "delIngress", "get"}
  BY AfterSyncerType
<1>4. Finish(i, e) = [r EXCEPT !.at = step]
  BY DEF Finish
<1> HIDE DEF r, step
<1>5. s \in States
  BY <1>2, <1>3 DEF States
<1>6. /\ s.at = step /\ s.todo = r.todo /\ s.key = None /\ s.seen = None
      /\ s.ports = proc[i].ports
  BY <1>2 DEF States
<1> HIDE DEF s
<1>7. \A p \in NodePorts : p \in s.todo \/ p = s.key => s.ports[p] # None
  BY <1>1, <1>2, <1>6, NoneAssumption DEF LocalOK
<1>8. LocalOK(s)
  BY <1>3, <1>6, <1>7 DEF LocalOK, FWs, UMs
<1> QED BY <1>4, <1>5, <1>8 DEF s

(***************************************************************************)
(* What a put does, in terms of the lemmas above.                          *)
(***************************************************************************)
LEMMA putStep ==
  ASSUME ConcurrentInv, NEW i \in Procs, put(i)
  PROVE  \E o : \E bes \in SUBSET NodePorts :
           /\ PutOutcome(i, proc[i].key, o) /\ Write(proc[i].key, o.res)
           /\ Job[i].op = "create" /\ ~Job[i].force =>
                /\ UnforcedOutcome(proc[i].key, o)
                /\ ~o.err => CreatedOutcome(i, proc[i].key, o)
           /\ Job[i].op = "remove" => /\ RemoveOutcome(i, proc[i].key, o)
                                      /\ ~o.err => RemovedOutcome(i, proc[i].key, o)
           /\ bes \subseteq proc[i].bes \cup {proc[i].key}
           /\ Advance(i, [Finish(i, o.err) EXCEPT !.bes = bes], o.err, o.fault)
<1> DEFINE k == proc[i].key
           bes(o) == IF k \in NodePorts /\ ~o.err THEN proc[i].bes \cup {k} ELSE proc[i].bes
<1>0. At(i, "put") /\ proc[i] \in States
  BY DEF put, ConcurrentInv, ConcurrentTypeOK
<1>1. PICK o \in IF Job[i].op = "create" THEN ensure(i, k, proc[i].seen)
                                         ELSE removeFrom(i, k, proc[i].seen) :
        /\ Write(k, o.res)
        /\ Advance(i, [Finish(i, o.err) EXCEPT
                         !.bes = IF k \in NodePorts /\ ~o.err THEN @ \cup {k} ELSE @],
                   o.err, o.fault)
  BY DEF put
<1>2. /\ PutOutcome(i, k, o)
      /\ Job[i].op = "create" /\ ~Job[i].force =>
           UnforcedOutcome(k, o) /\ (~o.err => CreatedOutcome(i, k, o))
      /\ Job[i].op = "remove" => RemoveOutcome(i, k, o) /\ (~o.err => RemovedOutcome(i, k, o))
  <2>1. CASE Job[i].op = "create"
    BY <1>0, <1>1, <2>1, CreatePut
  <2>2. CASE Job[i].op = "remove"
    BY <1>0, <1>1, <2>2, RemovePut
  <2> QED BY <2>1, <2>2, JobType
<1>3. Finish(i, o.err).bes = proc[i].bes
  BY <1>0 DEF Finish, States
<1>4. Advance(i, [Finish(i, o.err) EXCEPT !.bes = bes(o)], o.err, o.fault)
  BY <1>1, <1>3
<1>5. bes(o) \in SUBSET NodePorts /\ bes(o) \subseteq proc[i].bes \cup {k}
  BY <1>0 DEF States
<1> HIDE DEF bes
<1> QED BY <1>1, <1>2, <1>4, <1>5

LEMMA putInv ==
  ASSUME ConcurrentInv, NEW i \in Procs, put(i)
  PROVE  ConcurrentInv' /\ \A j \in Procs : j # i => proc'[j] = proc[j]
<1>0. PICK o : \E bes \in SUBSET NodePorts :
        /\ PutOutcome(i, proc[i].key, o) /\ Write(proc[i].key, o.res)
        /\ Advance(i, [Finish(i, o.err) EXCEPT !.bes = bes], o.err, o.fault)
  BY putStep
<1>1. PICK bes \in SUBSET NodePorts :
        Advance(i, [Finish(i, o.err) EXCEPT !.bes = bes], o.err, o.fault)
  BY <1>0
<1> DEFINE s == [Finish(i, o.err) EXCEPT !.bes = bes]
<1>2. proc[i].key \in Keys /\ At(i, "put")
  BY DEF put, At, ConcurrentInv, LocalOK
<1>3. o.err \in BOOLEAN /\ o.fault \in BOOLEAN
  BY <1>0 DEF PutOutcome
<1>4. s \in States /\ LocalOK(s)
  BY <1>2, FinishType
<1> HIDE DEF s
<1>5. Advance(i, s, o.err, o.fault)
  BY <1>1 DEF s
<1>6. /\ proc' \in [Procs -> States] /\ faults' \in 0..MaxFaults
      /\ \A j \in Procs : LocalOK(proc'[j])
      /\ \A j \in Procs : j # i => proc'[j] = proc[j]
  BY <1>3, <1>4, <1>5, AdvanceLocal
<1>7. BackendServiceTypeOK' /\ URLMapTypeOK' /\ FirewallRuleTypeOK' /\ HasStatus'
  BY <1>0, <1>2, WriteType
<1>8. IngressTypeOK'
  BY DEF put, ConcurrentInv, ConcurrentTypeOK, IngressTypeOK
<1>9. ConcurrentTypeOK'
  BY <1>6, <1>7, <1>8 DEF ConcurrentTypeOK
<1> QED BY <1>6, <1>7, <1>9 DEF ConcurrentInv, LocalOK

LEMMA deleteIngressInv ==
  ASSUME ConcurrentInv, NEW i \in Procs, deleteIngress(i)
  PROVE  ConcurrentInv'
<1>1. PICK o \in DeleteIngress(Job[i].clusters) :
        /\ ing' = Results(o)
        /\ Advance(i, Goto(i, "done"), AnyErr(o), AnyFault(o))
  BY DEF deleteIngress
<1>2. ing' \in [Clusters -> Ings] /\ AnyErr(o) \in BOOLEAN /\ AnyFault(o) \in BOOLEAN
  BY <1>1, DeleteIngressOutcome DEF ConcurrentInv, ConcurrentTypeOK
<1>3. Goto(i, "done") \in States /\ LocalOK(Goto(i, "done"))
  BY GotoLocal
<1> QED BY <1>1, <1>2, <1>3, LocalStep DEF deleteIngress

LEMMA KillInv ==
  ASSUME ConcurrentInv, NEW i \in Procs, Kill(i)
  PROVE  ConcurrentInv'
<1>1. Goto(i, "done") \in States /\ LocalOK(Goto(i, "done"))
  BY GotoLocal
<1>2. ing' \in [Clusters -> Ings]
  BY IngressesTyped DEF Kill
<1> QED BY <1>1, <1>2, LocalStep DEF Kill

LEMMA AnnotateInv ==
  ASSUME ConcurrentInv, NEW c \in Clusters, Annotate(c)
  PROVE  ConcurrentInv'
<1>1. ing' = [ing EXCEPT ![c].igs = IGsOf[c]] /\ ing[c] # None
  BY DEF Annotate
<1>2. ing' \in [Clusters -> Ingresses \cup {None}]
  BY <1>1, ConfigAssumption DEF ConcurrentInv, ConcurrentTypeOK, IngressTypeOK, Ingresses
<1>3. be' = be /\ um' = um /\ fw' = fw /\ nodePort' = nodePort /\ proc' = proc /\ faults' = faults
  BY DEF Annotate
<1> QED BY <1>2, <1>3 DEF ConcurrentInv, ConcurrentTypeOK, HasStatus, LocalOK,
           BackendServiceTypeOK, URLMapTypeOK, FirewallRuleTypeOK, IngressTypeOK

-----------------------------------------------------------------------------
(***************************************************************************)
(* The load balancer that may exist at first has its types.                *)
(***************************************************************************)
LEMMA BuiltType ==
  ASSUME NEW spec \in SpecType, spec.ip # None, NEW C \in SUBSET Clusters,
         NEW ports \in [NodePorts -> Services \cup {None}], Built(spec, C, ports)
  PROVE  BackendServiceTypeOK /\ URLMapTypeOK /\ FirewallRuleTypeOK /\ HasStatus
<1> DEFINE bes == [s \in Services |->
                     IF \E p \in NodePorts : ports[p] = s
                       THEN CHOOSE p \in NodePorts : ports[p] = s ELSE None]
<1>1. UNION {IGsOf[c] : c \in C} \in SUBSET InstanceGroups
  BY ConfigAssumption
<1>2. BackendServiceTypeOK
  BY <1>1 DEF Built, desiredBackendService, BackendServiceTypeOK, BackendServices
<1>3. getTargetTags(C) \subseteq Tags
  BY ConfigAssumption DEF Built, getTargetTags
<1>4. FirewallRuleTypeOK
  BY <1>3 DEF Built, desiredFirewallRule, FirewallRuleTypeOK, FirewallRules
<1>5. bes \in [Services -> NodePorts \cup {None}]
  <2>1. ASSUME NEW s \in Services, \E p \in NodePorts : ports[p] = s
        PROVE  (CHOOSE p \in NodePorts : ports[p] = s) \in NodePorts
    BY <2>1, Zenon
  <2> QED BY <2>1
<1>6. ~ingToURLMapFails(spec, bes) /\ um = desiredURLMap(spec, C, bes, 1)
  BY DEF Built
<1> HIDE DEF bes
<1>7. bes[spec.default] \in NodePorts
  BY <1>5, <1>6 DEF ingToURLMapFails, ServicesOf, SpecType
<1>8. [clusters |-> C, ip |-> spec.ip] \in Status
  BY DEF Status, SpecType
<1>9. [s \in Services |-> IF s \in spec.paths THEN bes[s] ELSE None]
        \in [Services -> NodePorts \cup {None}]
  BY <1>5
<1>10. um \in URLMaps /\ um.st \in Status
  BY <1>6, <1>7, <1>8, <1>9 DEF desiredURLMap, URLMaps
<1> QED BY <1>2, <1>4, <1>10 DEF URLMapTypeOK, HasStatus

LEMMA InitInv ==
  ASSUME Init
  PROVE  ConcurrentInv
<1>1. nodePort \in PortMaps /\ faults \in 0..MaxFaults
  BY ConfigAssumption DEF Init
<1>2. /\ BackendServiceTypeOK /\ URLMapTypeOK /\ FirewallRuleTypeOK /\ HasStatus
      /\ IngressTypeOK
  <2>1. CASE /\ be = [p \in NodePorts |-> None] /\ um = None /\ fw = None
             /\ ing = [c \in Clusters |-> None]
    BY <1>1, <2>1 DEF BackendServiceTypeOK, URLMapTypeOK, FirewallRuleTypeOK, HasStatus,
       IngressTypeOK
  <2>2. CASE \E spec \in Specs, c \in Members :
               /\ spec.ip # None
               /\ \E r \in ingToNodePorts(spec, c) :
                    ~r.fault /\ Built(spec, Members, r.ports)
               /\ ing = [d \in Clusters |->
                           IF d \in Members
                             THEN [spec |-> spec, igs |-> IGsOf[d]] ELSE None]
    <3>1. PICK spec \in Specs, c \in Members :
            /\ spec.ip # None
            /\ \E r \in ingToNodePorts(spec, c) : Built(spec, Members, r.ports)
            /\ ing = [d \in Clusters |->
                        IF d \in Members
                          THEN [spec |-> spec, igs |-> IGsOf[d]] ELSE None]
      BY <2>2
    <3>2. spec \in SpecType /\ Members \in SUBSET Clusters
      BY ConfigAssumption, JobAssumption
    <3>3. IngressTypeOK
      BY <1>1, <3>1, ConfigAssumption DEF IngressTypeOK, Ingresses
    <3>4. PICK r \in ingToNodePorts(spec, c) : Built(spec, Members, r.ports)
      BY <3>1
    <3>5. r.ports \in [NodePorts -> Services \cup {None}]
      BY <3>2, <3>3, <3>4, ingToNodePortsType
    <3> QED BY <3>1, <3>2, <3>3, <3>4, <3>5, BuiltType
  <2> QED BY <2>1, <2>2 DEF Init
<1>3. ASSUME NEW i \in Procs
      PROVE  proc[i] \in States /\ LocalOK(proc[i])
  <2>1. proc[i] = [at |-> IF Job[i].op = "create" THEN "ingress" ELSE "status",
                   ports |-> [p \in NodePorts |-> None],
                   igs |-> [c \in Clusters |-> {}],
                   todo |-> {}, key |-> None, seen |-> None, bes |-> {}, err |-> FALSE]
    BY DEF Init
  <2>2. proc[i] \in States
    BY <2>1 DEF States
  <2>3. LocalOK(proc[i])
    BY <2>1, NoneAssumption DEF LocalOK, FWs, UMs
  <2> QED BY <2>2, <2>3
<1>4. proc \in [Procs -> States]
  BY <1>3 DEF Init
<1> QED BY <1>1, <1>2, <1>3, <1>4 DEF ConcurrentInv, ConcurrentTypeOK

LEMMA NextInv ==
  ASSUME ConcurrentInv, [Next]_vars
  PROVE  ConcurrentInv'
<1>1. ASSUME NEW i \in Procs, Step(i)
      PROVE  ConcurrentInv'
  BY <1>1, createIngressInv, checkStatusInv, readPortsInv, getIGsInv, getInv, putInv,
     deleteIngressInv DEF Step
<1>2. ASSUME UNCHANGED vars
      PROVE  ConcurrentInv'
  BY <1>2 DEF vars, ConcurrentInv, ConcurrentTypeOK, HasStatus, LocalOK,
     BackendServiceTypeOK, URLMapTypeOK, FirewallRuleTypeOK, IngressTypeOK
<1> QED BY <1>1, <1>2, KillInv, AnnotateInv DEF Next, AllDone

(***************************************************************************)
(* The types hold at every moment of any number of concurrent commands.    *)
(***************************************************************************)
THEOREM ConcurrentTypesHold == Spec => []ConcurrentTypeOK
<1>1. Init => ConcurrentInv
  BY InitInv
<1>2. ConcurrentInv /\ [Next]_vars => ConcurrentInv'
  BY NextInv
<1>3. ConcurrentInv => ConcurrentTypeOK
  BY DEF ConcurrentInv
<1> QED BY <1>1, <1>2, <1>3, PTL DEF Spec

(***************************************************************************)
(* A step of a remove only takes out its own clusters.                     *)
(***************************************************************************)
LEMMA OwnStep ==
  ASSUME ConcurrentInv, [Next]_vars, NEW i \in Procs, Job[i].op = "remove",
         proc'[i] # proc[i]
  PROVE  OwnClustersOnly(i)
<1>1. CASE UNCHANGED <<be, um>>
  BY <1>1 DEF OwnClustersOnly
<1>2. CASE put(i)
  <2>1. PICK o :
          /\ PutOutcome(i, proc[i].key, o) /\ Write(proc[i].key, o.res)
          /\ RemoveOutcome(i, proc[i].key, o)
    BY <1>2, putStep
  <2>2. \A p \in NodePorts : be'[p] = IF proc[i].key = p THEN o.res ELSE be[p]
    BY <2>1 DEF Write
  <2>3. um' = IF proc[i].key = "um" THEN o.res ELSE um
    BY <2>1 DEF Write
  <2> QED BY <2>1, <2>2, <2>3 DEF OwnClustersOnly, RemoveOutcome
<1>3. ASSUME NEW j \in Procs, put(j), j # i
      PROVE  FALSE
  BY <1>3, putInv
<1>4. ASSUME NEW j \in Procs, Step(j), ~put(j)
      PROVE  UNCHANGED <<be, um>>
  BY <1>4 DEF Step, createIngress, checkStatus, readPorts, getIGs, get, deleteIngress
<1>5. ASSUME NEW j \in Procs, Kill(j)
      PROVE  UNCHANGED <<be, um>>
  BY <1>5 DEF Kill
<1>6. ASSUME NEW c \in Clusters, Annotate(c)
      PROVE  UNCHANGED <<be, um>>
  BY <1>6 DEF Annotate
<1> QED BY <1>1, <1>2, <1>3, <1>4, <1>5, <1>6 DEF Next, AllDone, vars

(***************************************************************************)
(* Whatever else runs, a remove-clusters never undoes in the backend       *)
(* services or the status what another command did: the fingerprint makes  *)
(* its read-modify-write atomic.                                           *)
(***************************************************************************)
THEOREM RemovesKeepToTheirClusters == Spec => RemovesTouchOwnClusters
<1>1. Init => ConcurrentInv
  BY InitInv
<1>2. ConcurrentInv /\ [Next]_vars => ConcurrentInv'
  BY NextInv
<1>3. ConcurrentInv /\ [Next]_vars =>
        [\A i \in Procs :
           Job[i].op = "remove" /\ proc'[i] # proc[i] => OwnClustersOnly(i)]_vars
  BY OwnStep
<1> QED BY <1>1, <1>2, <1>3, PTL DEF Spec, RemovesTouchOwnClusters

-----------------------------------------------------------------------------
(***************************************************************************)
(* RemovesTakeEffect is not inductive: it says nothing of a remove that is *)
(* half way.  EffectOK says that what a remove has already dealt with is   *)
(* without its clusters, as long as it has met no error.                   *)
(***************************************************************************)
EffectOK(i) ==
  Job[i].op = "remove" /\ ~proc[i].err =>
    /\ proc[i].at \in {"get", "put", "delIngress", "done"} =>
         /\ \A p \in NodePorts : proc[i].ports[p] # None /\ p \notin proc[i].todo =>
              be[p] # None /\ be[p].igs \cap IGs(i) = {}
         /\ "um" \notin proc[i].todo =>
              um # None /\ um.st.clusters \cap Job[i].clusters = {}
    /\ proc[i].at \in {"delIngress", "done"} => proc[i].todo = {}

EffectInv == \A i \in Procs : EffectOK(i)

\* A step that brings no cluster back.
Shrinks ==
  /\ \A p \in NodePorts : be[p] # None => be'[p] # None /\ be'[p].igs \subseteq be[p].igs
  /\ um # None => um' # None /\ um'.st.clusters \subseteq um.st.clusters

(***************************************************************************)
(* Without a forced create no step brings a cluster back.                  *)
(***************************************************************************)
LEMMA StepShrinks ==
  ASSUME ConcurrentInv, NoForcedCreate, [Next]_vars
  PROVE  Shrinks
<1>1. CASE UNCHANGED <<be, um>>
  BY <1>1 DEF Shrinks
<1>2. ASSUME NEW i \in Procs, put(i)
      PROVE  Shrinks
  <2> DEFINE k == proc[i].key
  <2>1. PICK o :
          /\ PutOutcome(i, k, o) /\ Write(k, o.res)
          /\ Job[i].op = "create" /\ ~Job[i].force => UnforcedOutcome(k, o)
          /\ Job[i].op = "remove" => RemoveOutcome(i, k, o)
    BY <1>2, putStep
  <2>2. k \in Keys
    BY <1>2 DEF put, At, ConcurrentInv, LocalOK
  <2>3. /\ k = "um" => Resource(k) = um
        /\ k \in NodePorts => Resource(k) = be[k]
        /\ um \in UMs /\ (um # None => um.st \in Status)
        /\ \A p \in NodePorts : be[p] \in BEs
    BY <2>2, ResourceType DEF ConcurrentInv, ConcurrentTypeOK, HasStatus,
       BackendServiceTypeOK, URLMapTypeOK, BEs, UMs
  <2>4. /\ \A p \in NodePorts : be'[p] = IF k = p THEN o.res ELSE be[p]
        /\ um' = IF k = "um" THEN o.res ELSE um
    BY <2>1 DEF Write
  <2> HIDE DEF k
  <2>5. CASE Job[i].op = "create"
    <3>1. UnforcedOutcome(k, o)
      BY <2>1, <2>5 DEF NoForcedCreate
    <3> QED BY <2>3, <2>4, <3>1 DEF UnforcedOutcome, Shrinks
  <2>6. CASE Job[i].op = "remove"
    <3>0. RemoveOutcome(i, k, o)
      BY <2>1, <2>6
    <3>1. ASSUME NEW p \in NodePorts, be[p] # None
          PROVE  be'[p] # None /\ be'[p].igs \subseteq be[p].igs
      <4>1. be[p] \in BackendServices
        BY <2>3, <3>1 DEF BEs
      <4>2. [be[p] EXCEPT !.igs = @ \ IGs(i)] \in BackendServices
        BY <4>1 DEF BackendServices
      <4>3. [be[p] EXCEPT !.igs = @ \ IGs(i)].igs \subseteq be[p].igs
        BY <4>1 DEF BackendServices
      <4>4. be'[p] = be[p] \/ be'[p] = [be[p] EXCEPT !.igs = @ \ IGs(i)]
        BY <2>4, <3>0 DEF RemoveOutcome
      <4> QED BY <3>1, <4>2, <4>3, <4>4, NoneIsNoResource
    <3>2. ASSUME um # None
          PROVE  um' # None /\ um'.st.clusters \subseteq um.st.clusters
      <4> DEFINE new == [um EXCEPT !.st.clusters = @ \ Job[i].clusters]
      <4>1. um \in URLMaps /\ um.st \in Status
        BY <2>3, <3>2 DEF UMs
      <4>2. new.st = [um.st EXCEPT !.clusters = @ \ Job[i].clusters]
        BY <4>1 DEF URLMaps
      <4>3. new.st \in Status /\ new.st.clusters \subseteq um.st.clusters
        BY <4>1, <4>2 DEF Status
      <4>4. new \in URLMaps
        BY <4>1, <4>2, <4>3 DEF URLMaps
      <4>5. um' = um \/ um' = new
        BY <2>4, <3>0 DEF RemoveOutcome
      <4> QED BY <3>2, <4>3, <4>4, <4>5, NoneIsNoResource
    <3> QED BY <3>1, <3>2 DEF Shrinks
  <2> QED BY <2>5, <2>6, JobType
<1>4. ASSUME NEW j \in Procs, Step(j), ~put(j)
      PROVE  UNCHANGED <<be, um>>
  BY <1>4 DEF Step, createIngress, checkStatus, readPorts, getIGs, get, deleteIngress
<1>5. ASSUME NEW j \in Procs, Kill(j)
      PROVE  UNCHANGED <<be, um>>
  BY <1>5 DEF Kill
<1>6. ASSUME NEW c \in Clusters, Annotate(c)
      PROVE  UNCHANGED <<be, um>>
  BY <1>6 DEF Annotate
<1> QED BY <1>1, <1>2, <1>4, <1>5, <1>6 DEF Next, AllDone, vars

(***************************************************************************)
(* A process that stays where it is keeps what it has achieved.            *)
(***************************************************************************)
LEMMA EffectKept ==
  ASSUME NEW i \in Procs, EffectOK(i), Shrinks, proc'[i] = proc[i]
  PROVE  EffectOK(i)'
<1>1. IGs(i)' = IGs(i)
  BY DEF IGs
<1> QED BY <1>1 DEF EffectOK, Shrinks

(***************************************************************************)
(* The fields of a process after it has advanced.                          *)
(***************************************************************************)
LEMMA AdvanceSelf ==
  ASSUME ConcurrentInv, NEW i \in Procs, NEW s \in States, NEW e \in BOOLEAN, NEW f,
         Advance(i, s, e, f)
  PROVE  /\ proc'[i].at = s.at /\ proc'[i].ports = s.ports /\ proc'[i].igs = s.igs
         /\ proc'[i].todo = s.todo /\ proc'[i].err = (s.err \/ e)
         /\ proc'[i].key = s.key /\ proc'[i].seen = s.seen /\ proc'[i].bes = s.bes
<1>1. proc \in [Procs -> States]
  BY DEF ConcurrentInv, ConcurrentTypeOK
<1>2. proc'[i] = [s EXCEPT !.err = @ \/ e]
  BY <1>1 DEF Advance
<1> QED BY <1>2 DEF States

(***************************************************************************)
(* A step that only moves the process and keeps what it has to do.         *)
(***************************************************************************)
LEMMA EffectMove ==
  ASSUME ConcurrentInv, NEW i \in Procs, EffectOK(i), Shrinks,
         NEW step \in {"ports", "igs", "get", "put", "delIngress", "done"},
         NEW e \in BOOLEAN, NEW f, NEW s \in States, Advance(i, s, e, f),
         s.at = step, s.ports = proc[i].ports, s.igs = proc[i].igs,
         s.todo = proc[i].todo, s.err = proc[i].err,
         \/ e \/ step \in {"ports", "igs"}
         \/ proc[i].at = "get" /\ step = "put"
         \/ proc[i].at = "delIngress" /\ step = "done"
  PROVE  EffectOK(i)'
<1>1. /\ proc'[i].at = step /\ proc'[i].ports = proc[i].ports /\ proc'[i].igs = proc[i].igs
      /\ proc'[i].todo = proc[i].todo /\ proc'[i].err = (proc[i].err \/ e)
  BY AdvanceSelf
<1>2. IGs(i)' = IGs(i)
  BY <1>1 DEF IGs
<1>3. CASE e
  BY <1>1, <1>3 DEF EffectOK
<1>4. CASE step \in {"ports", "igs"}
  BY <1>1, <1>4 DEF EffectOK
<1>5. CASE ~e /\ proc[i].at = "get" /\ step = "put"
  BY <1>1, <1>2, <1>5 DEF EffectOK, Shrinks
<1>6. CASE ~e /\ proc[i].at = "delIngress" /\ step = "done"
  BY <1>1, <1>2, <1>6 DEF EffectOK, Shrinks
<1> QED BY <1>3, <1>4, <1>5, <1>6

LEMMA EffectOfSteps ==
  ASSUME ConcurrentInv, NEW i \in Procs, EffectOK(i), Shrinks, proc'[i] # proc[i],
         createIngress(i) \/ checkStatus(i) \/ readPorts(i) \/ get(i) \/ deleteIngress(i)
           \/ Kill(i)
  PROVE  EffectOK(i)'
<1>1. CASE createIngress(i)
  <2>1. PICK o \in EnsureIngress(Job[i].spec, Job[i].clusters, Job[i].force) :
          Advance(i, Goto(i, IF AnyErr(o) THEN "done" ELSE "ports"), AnyErr(o), AnyFault(o))
    BY <1>1 DEF createIngress
  <2>2. AnyErr(o) \in BOOLEAN
    BY DEF AnyErr
  <2> DEFINE step == IF AnyErr(o) THEN "done" ELSE "ports"
  <2>3. step \in {"ports", "done"} /\ (AnyErr(o) \/ step = "ports")
    OBVIOUS
  <2>4. Advance(i, Goto(i, step), AnyErr(o), AnyFault(o))
    BY <2>1
  <2> HIDE DEF step
  <2> QED BY <2>2, <2>3, <2>4, GotoType, EffectMove
<1>2. CASE checkStatus(i)
  <2>1. PICK goOn \in BOOLEAN :
          \/ Advance(i, Goto(i, IF goOn THEN "ports" ELSE AfterSyncer(i, TRUE)), ~goOn, FALSE)
          \/ Advance(i, Goto(i, AfterSyncer(i, TRUE)), TRUE, TRUE)
    BY <1>2 DEF checkStatus
  <2> DEFINE step == IF goOn THEN "ports" ELSE AfterSyncer(i, TRUE)
             e == ~goOn
  <2>2. /\ step \in {"ports", "delIngress", "done"} /\ (e \/ step = "ports") /\ e \in BOOLEAN
        /\ AfterSyncer(i, TRUE) \in {"delIngress", "done"}
    BY AfterSyncerType
  <2>3. CASE Advance(i, Goto(i, step), e, FALSE)
    <3> HIDE DEF step, e
    <3> QED BY <2>2, <2>3, GotoType, EffectMove
  <2>4. CASE Advance(i, Goto(i, AfterSyncer(i, TRUE)), TRUE, TRUE)
    BY <2>2, <2>4, GotoType, EffectMove
  <2> QED BY <2>1, <2>3, <2>4
<1>3. CASE readPorts(i)
  <2>1. PICK c \in Job[i].clusters : \E r \in ingToNodePorts(Job[i].spec, c) :
          Advance(i, [Goto(i, "igs") EXCEPT !.ports = r.ports], FALSE, r.fault)
    BY <1>3 DEF readPorts
  <2>2. PICK r \in ingToNodePorts(Job[i].spec, c) :
          Advance(i, [Goto(i, "igs") EXCEPT !.ports = r.ports], FALSE, r.fault)
    BY <2>1
  <2>3. r.ports \in [NodePorts -> Services \cup {None}]
    BY <2>2, JobType, ingToNodePortsType DEF ConcurrentInv, ConcurrentTypeOK
  <2> DEFINE s == [Goto(i, "igs") EXCEPT !.ports = r.ports]
  <2>4. s \in States /\ s.at = "igs"
    BY <2>3, GotoType DEF States
  <2>5. Advance(i, s, FALSE, r.fault)
    BY <2>2
  <2> HIDE DEF s
  <2>6. proc'[i].at = "igs"
    BY <2>4, <2>5, AdvanceSelf
  <2> QED BY <2>6 DEF EffectOK
<1>4. CASE get(i)
  <2>1. PICK k \in proc[i].todo :
          LET s == [Goto(i, "put") EXCEPT !.key = k]
          IN  \/ Advance(i, [s EXCEPT !.seen = Resource(k)], FALSE, FALSE)
              \/ Advance(i, s, FALSE, TRUE)
    BY <1>4 DEF get
  <2>2. k \in Keys /\ proc[i].at = "get"
    BY <1>4 DEF get, At, ConcurrentInv, ConcurrentTypeOK, States
  <2> DEFINE s == [Goto(i, "put") EXCEPT !.key = k]
             t == [s EXCEPT !.seen = Resource(k)]
  <2>3. Advance(i, t, FALSE, FALSE) \/ Advance(i, s, FALSE, TRUE)
    BY <2>1
  <2>4. s \in States /\ t \in States
    <3>1. Goto(i, "put") \in States /\ Resource(k) \in Values \cup {None}
      BY <2>2, GotoType, ResourceType
    <3> QED BY <2>2, <3>1 DEF States
  <2>5. /\ s.at = "put" /\ s.ports = proc[i].ports /\ s.igs = proc[i].igs
        /\ s.todo = proc[i].todo /\ s.err = proc[i].err
        /\ t.at = "put" /\ t.ports = proc[i].ports /\ t.igs = proc[i].igs
        /\ t.todo = proc[i].todo /\ t.err = proc[i].err
    BY GotoType DEF States
  <2> HIDE DEF s, t
  <2>6. CASE Advance(i, t, FALSE, FALSE)
    BY <2>2, <2>4, <2>5, <2>6, EffectMove
  <2>7. CASE Advance(i, s, FALSE, TRUE)
    BY <2>2, <2>4, <2>5, <2>7, EffectMove
  <2> QED BY <2>3, <2>6, <2>7
<1>5. CASE deleteIngress(i)
  <2>1. PICK o \in DeleteIngress(Job[i].clusters) :
          Advance(i, Goto(i, "done"), AnyErr(o), AnyFault(o))
    BY <1>5 DEF deleteIngress
  <2>2. AnyErr(o) \in BOOLEAN /\ proc[i].at = "delIngress"
    BY <1>5 DEF AnyErr, deleteIngress, At
  <2> QED BY <2>1, <2>2, GotoType, EffectMove
<1>6. CASE Kill(i)
  BY <1>6, GotoType, EffectMove DEF Kill
<1> QED BY <1>1, <1>2, <1>3, <1>4, <1>5, <1>6

(***************************************************************************)
(* A remove that goes on after getIGs has all its resources before it.     *)
(***************************************************************************)
LEMMA EffectOfGetIGs ==
  ASSUME ConcurrentInv, NEW i \in Procs, getIGs(i)
  PROVE  EffectOK(i)'
<1> DEFINE all == {p \in NodePorts : proc[i].ports[p] # None} \cup {"fw", "um"}
<1>1. PICK found \in SUBSET {c \in Job[i].clusters : ing[c] # None /\ ing[c].igs # {}} :
        LET failed == found # Job[i].clusters
            fault == found # {c \in Job[i].clusters : ing[c] # None}
            todo == CASE Job[i].op = "create" /\ found # {} -> all
                      [] Job[i].op = "remove" /\ ~failed -> all
                      [] Job[i].op = "remove" /\ failed /\ Job[i].force -> {"um"}
                      [] OTHER -> {}
        IN  Advance(i, [Goto(i, IF todo = {} THEN "done" ELSE "get") EXCEPT
                          !.igs = [c \in Clusters |->
                                     IF c \in found THEN ing[c].igs ELSE {}],
                          !.todo = todo], failed, fault)
  BY DEF getIGs
<1> DEFINE failed == found # Job[i].clusters
           fault == found # {c \in Job[i].clusters : ing[c] # None}
           todo == CASE Job[i].op = "create" /\ found # {} -> all
                     [] Job[i].op = "remove" /\ ~failed -> all
                     [] Job[i].op = "remove" /\ failed /\ Job[i].force -> {"um"}
                     [] OTHER -> {}
           step == IF todo = {} THEN "done" ELSE "get"
           links == [c \in Clusters |-> IF c \in found THEN ing[c].igs ELSE {}]
           s == [Goto(i, step) EXCEPT !.igs = links, !.todo = todo]
<1>2. /\ todo \in {all, {"um"}, {}} /\ failed \in BOOLEAN
      /\ Job[i].op = "remove" /\ ~failed => todo = all
  BY JobType
<1>3. links \in [Clusters -> SUBSET InstanceGroups]
  <2>1. found \in SUBSET Clusters
    BY JobType
  <2> QED BY <2>1 DEF ConcurrentInv, ConcurrentTypeOK, IngressTypeOK, Ingresses
<1>4. Advance(i, s, failed, fault)
  BY <1>1
<1> HIDE DEF todo, failed, fault, links
<1>5. todo \in SUBSET Keys
  BY <1>2 DEF Keys
<1>6. /\ s \in States /\ s.at = step /\ s.ports = proc[i].ports /\ s.todo = todo
  <2>1. step \in {"done", "get"}
    OBVIOUS
  <2>2. /\ Goto(i, step) \in States /\ Goto(i, step).at = step
        /\ Goto(i, step).ports = proc[i].ports
    BY <2>1, GotoType
  <2> HIDE DEF step
  <2>3. s \in States
    BY <1>3, <1>5, <2>2 DEF States
  <2>4. s.at = step /\ s.ports = proc[i].ports /\ s.todo = todo
    BY <2>2 DEF States
  <2> QED BY <2>3, <2>4
<1> HIDE DEF s
<1>7. /\ proc'[i].at = step /\ proc'[i].ports = proc[i].ports /\ proc'[i].todo = todo
      /\ failed => proc'[i].err
  BY <1>2, <1>4, <1>6, AdvanceSelf
<1>8. CASE Job[i].op = "remove" /\ ~failed
  <2>1. todo = all /\ step = "get"
    BY <1>2, <1>8
  <2> QED BY <1>7, <2>1 DEF EffectOK
<1>9. CASE ~(Job[i].op = "remove" /\ ~failed)
  BY <1>7, <1>9 DEF EffectOK
<1> QED BY <1>8, <1>9

(***************************************************************************)
(* A put without an error adds a resource to those without the clusters.   *)
(***************************************************************************)
LEMMA EffectOfPut ==
  ASSUME ConcurrentInv, NEW i \in Procs, EffectOK(i), Shrinks, put(i)
  PROVE  EffectOK(i)'
<1> DEFINE k == proc[i].key
<1>0. PICK o : \E bes \in SUBSET NodePorts :
        /\ PutOutcome(i, k, o) /\ Write(k, o.res)
        /\ Job[i].op = "remove" /\ ~o.err => RemovedOutcome(i, k, o)
        /\ Advance(i, [Finish(i, o.err) EXCEPT !.bes = bes], o.err, o.fault)
  BY putStep
<1>1. PICK bes \in SUBSET NodePorts :
        Advance(i, [Finish(i, o.err) EXCEPT !.bes = bes], o.err, o.fault)
  BY <1>0
<1> DEFINE s == [Finish(i, o.err) EXCEPT !.bes = bes]
<1>2. /\ proc[i] \in States /\ proc[i].at = "put" /\ At(i, "put") /\ o.err \in BOOLEAN
      /\ k \in Keys
  BY <1>0 DEF put, At, ConcurrentInv, ConcurrentTypeOK, PutOutcome, LocalOK
<1>3. s \in States
  BY <1>2, FinishType
<1>4. /\ s.ports = proc[i].ports /\ s.igs = proc[i].igs /\ s.todo = proc[i].todo \ {k}
      /\ s.err = proc[i].err /\ (s.todo # {} => s.at = "get")
  BY <1>2 DEF Finish, States
<1>5. Advance(i, s, o.err, o.fault)
  BY <1>1
<1> HIDE DEF s
<1>6. /\ proc'[i].ports = proc[i].ports /\ proc'[i].igs = proc[i].igs
      /\ proc'[i].todo = proc[i].todo \ {k} /\ proc'[i].err = (proc[i].err \/ o.err)
      /\ proc'[i].todo # {} => proc'[i].at = "get"
  BY <1>2, <1>3, <1>4, <1>5, AdvanceSelf
<1>7. IGs(i)' = IGs(i)
  BY <1>6 DEF IGs
<1>8. CASE Job[i].op # "remove" \/ proc[i].err \/ o.err
  BY <1>6, <1>8 DEF EffectOK
<1>9. CASE Job[i].op = "remove" /\ ~proc[i].err /\ ~o.err
  <2>1. RemovedOutcome(i, k, o) /\ Write(k, o.res)
    BY <1>0, <1>9
  <2>2. ASSUME NEW p \in NodePorts, proc[i].ports[p] # None, p \notin proc[i].todo \ {k}
        PROVE  be'[p] # None /\ be'[p].igs \cap IGs(i) = {}
    <3>1. CASE p # k
      <4>1. be[p] # None /\ be[p].igs \cap IGs(i) = {}
        BY <1>2, <1>9, <2>2, <3>1 DEF EffectOK
      <4> QED BY <4>1 DEF Shrinks
    <3>2. CASE p = k
      <4>1. be[p] # None /\ be'[p] = [be[p] EXCEPT !.igs = @ \ IGs(i)]
        BY <2>1, <3>2 DEF RemovedOutcome, Write
      <4>2. be[p] \in BackendServices
        BY <4>1 DEF ConcurrentInv, ConcurrentTypeOK, BackendServiceTypeOK
      <4>3. be'[p].igs \cap IGs(i) = {}
        BY <4>1, <4>2 DEF BackendServices
      <4> QED BY <4>1, <4>3 DEF Shrinks
    <3> QED BY <3>1, <3>2
  <2>3. ASSUME "um" \notin proc[i].todo \ {k}
        PROVE  um' # None /\ um'.st.clusters \cap Job[i].clusters = {}
    <3>1. CASE k # "um"
      <4>1. um # None /\ um.st.clusters \cap Job[i].clusters = {}
        BY <1>2, <1>9, <2>3, <3>1 DEF EffectOK
      <4> QED BY <4>1 DEF Shrinks
    <3>2. CASE k = "um"
      <4>1. um # None /\ um' = [um EXCEPT !.st.clusters = @ \ Job[i].clusters]
        BY <2>1, <3>2 DEF RemovedOutcome, Write
      <4>2. um \in URLMaps /\ um.st \in Status
        BY <4>1 DEF ConcurrentInv, ConcurrentTypeOK, URLMapTypeOK, HasStatus
      <4>3. um'.st = [um.st EXCEPT !.clusters = @ \ Job[i].clusters]
        BY <4>1, <4>2 DEF URLMaps
      <4>4. um'.st.clusters \cap Job[i].clusters = {}
        BY <4>2, <4>3 DEF Status
      <4> QED BY <4>1, <4>4 DEF Shrinks
    <3> QED BY <3>1, <3>2
  <2> HIDE DEF k
  <2> QED BY <1>6, <1>7, <2>2, <2>3 DEF EffectOK
<1> QED BY <1>2, <1>8, <1>9

LEMMA NextEffect ==
  ASSUME ConcurrentInv, NoForcedCreate, EffectInv, [Next]_vars
  PROVE  EffectInv'
<1> SUFFICES ASSUME NEW i \in Procs
             PROVE  EffectOK(i)'
  BY DEF EffectInv
<1>0. EffectOK(i) /\ Shrinks
  BY StepShrinks DEF EffectInv
<1>1. CASE proc'[i] = proc[i]
  BY <1>0, <1>1, EffectKept
<1>2. CASE proc'[i] # proc[i]
  <2>1. ASSUME NEW j \in Procs, Step(j) \/ Kill(j), j # i
        PROVE  FALSE
    <3>1. proc'[i] = proc[i]
      <4>1. CASE put(j)
        BY <2>1, <4>1, putInv
      <4>2. ASSUME NEW s, NEW e, NEW f, Advance(j, s, e, f)
            PROVE  proc'[i] = proc[i]
        BY <2>1, <4>2 DEF Advance, ConcurrentInv, ConcurrentTypeOK
      <4>3. CASE ~put(j)
        BY <2>1, <4>2, <4>3 DEF Step, Kill, createIngress, checkStatus, readPorts,
           getIGs, get, deleteIngress
      <4> QED BY <4>1, <4>3
    <3> QED BY <1>2, <3>1
  <2>2. CASE Step(i) \/ Kill(i)
    BY <1>0, <1>2, <2>2, EffectOfSteps, EffectOfGetIGs, EffectOfPut DEF Step
  <2>3. ASSUME NEW c \in Clusters, Annotate(c)
        PROVE  FALSE
    BY <1>2, <2>3 DEF Annotate
  <2>4. ~UNCHANGED vars
    BY <1>2 DEF vars
  <2> QED BY <2>1, <2>2, <2>3, <2>4 DEF Next, AllDone
<1> QED BY <1>1, <1>2

(***************************************************************************)
(* Beside any number of removes and unforced creates, a remove-clusters    *)
(* that reports no error has taken its clusters out of the backend         *)
(* services and the status, for good.                                      *)
(***************************************************************************)
THEOREM RemovesHold == Spec => []RemovesTakeEffect
<1>1. CASE ~NoForcedCreate
  <2>1. RemovesTakeEffect
    BY <1>1 DEF RemovesTakeEffect
  <2> QED BY <2>1, PTL
<1>2. CASE NoForcedCreate
  <2>1. Init => ConcurrentInv /\ EffectInv
    <3>1. Init => EffectInv
      BY DEF Init, EffectInv, EffectOK
    <3> QED BY <3>1, InitInv
  <2>2. ConcurrentInv /\ EffectInv /\ [Next]_vars => (ConcurrentInv /\ EffectInv)'
    BY <1>2, NextInv, NextEffect
  <2>3. EffectInv => RemovesTakeEffect
    BY DEF EffectInv, EffectOK, RemovesTakeEffect, Succeeded, At
  <2> QED BY <2>1, <2>2, <2>3, PTL DEF Spec
<1> QED BY <1>1, <1>2

-----------------------------------------------------------------------------
(***************************************************************************)
(* StatusTellsMembers relates the url map and the backend services, which  *)
(* are written by different steps.  It holds as long as no command has met *)
(* an error or has missed a service (Fine), up to what removes are about   *)
(* to do: a remove takes its clusters out of the one resource before the   *)
(* other (Taken).  Before there is a url map, what creates have ensured is *)
(* as they want it (BeforeMap), since no remove has begun.                 *)
(***************************************************************************)
Past(i) == proc[i].at \in {"get", "put", "delIngress", "done"}

Fine == \A i \in Procs : /\ ~proc[i].err
                         /\ Past(i) \/ proc[i].at = "igs" => FoundServices(i)

\* What a process has read.
Knows(i) ==
  /\ \A p \in NodePorts : proc[i].ports[p] # None =>
       /\ proc[i].ports[p] \in ServicesOf(Job[i].spec)
       /\ \E c \in Clusters : nodePort[c][proc[i].ports[p]] = p
  /\ \A p \in proc[i].bes : proc[i].ports[p] # None
  /\ Past(i) => \A c \in Clusters :
                  proc[i].igs[c] = IF c \in Job[i].clusters THEN IGsOf[c] ELSE {}
  /\ ~Past(i) => proc[i].bes = {}
  /\ Job[i].op = "remove" /\ proc[i].at # "status" => um # None

BeforeMap(i) ==
  /\ \A p \in proc[i].bes : be[p] # None /\ be[p].igs = IGs(i)
  /\ proc[i].at = "put" /\ proc[i].key \in NodePorts /\ proc[i].seen # None =>
       proc[i].seen = be[proc[i].key]

\* A remove has dealt with the resource k.
Taken(c, k) == \E i \in Procs : /\ Job[i].op = "remove" /\ Past(i)
                                /\ k \notin proc[i].todo /\ c \in Job[i].clusters

Agree(c, p) == IF c \in um.st.clusters THEN IGsOf[c] \subseteq be[p].igs
                                       ELSE IGsOf[c] \cap be[p].igs = {}

PortOfService(p) ==
  \E spec \in Specs : \E s \in ServicesOf(spec), c \in Clusters : nodePort[c][s] = p

HasMembers(p) ==
  /\ be[p] # None /\ be[p].igs \subseteq UNION {IGsOf[c] : c \in Clusters}
  /\ PortOfService(p)
  /\ \A c \in Clusters : Agree(c, p) \/ Taken(c, "um") \/ Taken(c, p)

AnnotatedByController == \A c \in Clusters : ing[c] # None => ing[c].igs \in {{}, IGsOf[c]}

MembersInv ==
  /\ AnnotatedByController
  /\ Fine => /\ \A i \in Procs : Knows(i)
             /\ um = None => \A i \in Procs : BeforeMap(i)
             /\ um # None => \A p \in BackendServicesInUse : HasMembers(p)

\* Clusters have instance groups of their own.
GroupsApart == \A c, d \in Clusters : c # d => IGsOf[c] \cap IGsOf[d] = {}

(***************************************************************************)
(* The steps of a process that meets no error: it moves on, reads the      *)
(* ports, reads the instance groups of all its clusters, or writes.        *)
(***************************************************************************)
Moves(i) ==
  /\ UNCHANGED <<be, um>>
  /\ proc'[i].ports = proc[i].ports /\ proc'[i].igs = proc[i].igs
  /\ proc'[i].todo = proc[i].todo /\ proc'[i].bes = proc[i].bes
  /\ Past(i)' = Past(i) /\ proc[i].at # "igs" /\ proc'[i].at \notin {"igs", "status"}
  /\ proc'[i].at = "put" => proc'[i].seen \in {None, Resource(proc'[i].key)}
  /\ proc[i].at = "status" => um # None

Reads(i) ==
  /\ UNCHANGED <<be, um>>
  /\ proc[i].at = "ports" /\ proc'[i].at = "igs" /\ proc'[i].bes = proc[i].bes
  /\ \E c \in Clusters : \E r : PortsRead(Job[i].spec, c, r) /\ proc'[i].ports = r.ports

Finds(i) ==
  /\ UNCHANGED <<be, um>>
  /\ proc[i].at = "igs" /\ proc'[i].at = "get"
  /\ proc'[i].ports = proc[i].ports /\ proc'[i].bes = proc[i].bes
  /\ \A c \in Clusters :
       proc'[i].igs[c] = IF c \in Job[i].clusters THEN ing[c].igs ELSE {}
  /\ \A c \in Job[i].clusters : ing[c] # None /\ ing[c].igs # {}

Puts(i, o) ==
  /\ proc[i].at = "put" /\ proc[i].key \in Keys
  /\ proc'[i].at \in {"get", "delIngress", "done"}
  /\ proc'[i].ports = proc[i].ports /\ proc'[i].igs = proc[i].igs
  /\ proc'[i].todo = proc[i].todo \ {proc[i].key}
  /\ proc'[i].bes \subseteq NodePorts
  /\ proc'[i].bes \subseteq proc[i].bes \cup {proc[i].key}
  /\ Write(proc[i].key, o.res)
  /\ Job[i].op = "create" => CreatedOutcome(i, proc[i].key, o)
  /\ Job[i].op = "remove" => RemovedOutcome(i, proc[i].key, o)

\* A process that only moves on.
LEMMA MovesOn ==
  ASSUME ConcurrentInv, NEW i \in Procs, NEW s \in States, NEW e \in BOOLEAN, NEW f,
         Advance(i, s, e, f), UNCHANGED <<be, um>>,
         s.ports = proc[i].ports, s.igs = proc[i].igs, s.todo = proc[i].todo,
         s.bes = proc[i].bes,
         \/ proc[i].at \in {"ingress", "status"} /\ s.at = "ports"
         \/ proc[i].at = "get" /\ s.at = "put" /\ s.seen \in {None, Resource(s.key)}
         \/ proc[i].at = "delIngress" /\ s.at = "done",
         proc[i].at = "status" => um # None
  PROVE  Moves(i)
<1>1. /\ proc'[i].at = s.at /\ proc'[i].ports = s.ports /\ proc'[i].igs = s.igs
      /\ proc'[i].todo = s.todo /\ proc'[i].bes = s.bes
      /\ proc'[i].key = s.key /\ proc'[i].seen = s.seen
  BY AdvanceSelf
<1>2. Past(i)' = Past(i)
  BY <1>1 DEF Past
<1> QED BY <1>1, <1>2 DEF Moves

\* An error is never forgotten.
LEMMA ErrorStays ==
  ASSUME ConcurrentInv, NEW i \in Procs, NEW s \in States, NEW e \in BOOLEAN, NEW f,
         Advance(i, s, e, f), s.err = proc[i].err, ~proc'[i].err
  PROVE  ~proc[i].err /\ ~e
<1>1. proc'[i].err = (s.err \/ e)
  BY AdvanceSelf
<1> QED BY <1>1

\* The steps before the resources, and the Get.
LEMMA MovingSteps ==
  ASSUME ConcurrentInv, NEW i \in Procs, ~proc'[i].err,
         createIngress(i) \/ checkStatus(i) \/ get(i) \/ deleteIngress(i) \/ Kill(i)
  PROVE  ~proc[i].err /\ Moves(i)
<1>1. CASE createIngress(i)
  <2>1. PICK o \in EnsureIngress(Job[i].spec, Job[i].clusters, Job[i].force) :
          Advance(i, Goto(i, IF AnyErr(o) THEN "done" ELSE "ports"), AnyErr(o), AnyFault(o))
    BY <1>1 DEF createIngress
  <2>2. AnyErr(o) \in BOOLEAN /\ proc[i].at = "ingress" /\ UNCHANGED <<be, um>>
    BY <1>1 DEF AnyErr, createIngress, At
  <2> DEFINE step == IF AnyErr(o) THEN "done" ELSE "ports"
  <2>3. step \in {"ports", "done"}
    OBVIOUS
  <2>4. Advance(i, Goto(i, step), AnyErr(o), AnyFault(o))
    BY <2>1
  <2>5. ~proc[i].err /\ ~AnyErr(o)
    <3> HIDE DEF step
    <3> QED BY <2>2, <2>3, <2>4, GotoType, ErrorStays
  <2>6. step = "ports"
    BY <2>5
  <2> HIDE DEF step
  <2> QED BY <2>2, <2>3, <2>4, <2>5, <2>6, GotoType, MovesOn
<1>2. CASE checkStatus(i)
  <2> DEFINE goOn == /\ um # None
                     /\ \/ hasSomeRemainingClusters(um.st.clusters, Job[i].clusters)
                        \/ Job[i].force
             step == IF goOn THEN "ports" ELSE AfterSyncer(i, TRUE)
             e == ~goOn
  <2>1. \/ Advance(i, Goto(i, step), e, FALSE)
        \/ Advance(i, Goto(i, AfterSyncer(i, TRUE)), TRUE, TRUE)
    BY <1>2 DEF checkStatus
  <2>2. /\ step \in {"ports", "delIngress", "done"} /\ e \in BOOLEAN
        /\ AfterSyncer(i, TRUE) \in {"delIngress", "done"}
        /\ ~e => step = "ports" /\ um # None
        /\ proc[i].at = "status" /\ UNCHANGED <<be, um>>
    BY <1>2, AfterSyncerType DEF checkStatus, At
  <2> HIDE DEF goOn, step, e
  <2>3. CASE Advance(i, Goto(i, AfterSyncer(i, TRUE)), TRUE, TRUE)
    BY <2>2, <2>3, GotoType, ErrorStays
  <2>4. CASE Advance(i, Goto(i, step), e, FALSE)
    <3>1. ~proc[i].err /\ ~e
      BY <2>2, <2>4, GotoType, ErrorStays
    <3> QED BY <2>2, <2>4, <3>1, GotoType, MovesOn
  <2> QED BY <2>1, <2>3, <2>4
<1>3. CASE get(i)
  <2>1. PICK k \in proc[i].todo :
          LET s == [Goto(i, "put") EXCEPT !.key = k]
          IN  \/ Advance(i, [s EXCEPT !.seen = Resource(k)], FALSE, FALSE)
              \/ Advance(i, s, FALSE, TRUE)
    BY <1>3 DEF get
  <2>2. /\ k \in Keys /\ proc[i].at = "get" /\ proc[i].seen = None
        /\ UNCHANGED <<be, um>>
    BY <1>3 DEF get, At, ConcurrentInv, ConcurrentTypeOK, States, LocalOK
  <2> DEFINE s == [Goto(i, "put") EXCEPT !.key = k]
             t == [s EXCEPT !.seen = Resource(k)]
  <2>3. Advance(i, t, FALSE, FALSE) \/ Advance(i, s, FALSE, TRUE)
    BY <2>1
  <2>4. s \in States /\ t \in States
    <3>1. Goto(i, "put") \in States /\ Resource(k) \in Values \cup {None}
      BY <2>2, GotoType, ResourceType
    <3> QED BY <2>2, <3>1 DEF States
  <2>5. /\ s.at = "put" /\ s.ports = proc[i].ports /\ s.igs = proc[i].igs
        /\ s.todo = proc[i].todo /\ s.err = proc[i].err /\ s.bes = proc[i].bes
        /\ s.key = k /\ s.seen = None
    BY <2>2, GotoType DEF States
  <2>6. /\ t.at = "put" /\ t.ports = proc[i].ports /\ t.igs = proc[i].igs
        /\ t.todo = proc[i].todo /\ t.err = proc[i].err /\ t.bes = proc[i].bes
        /\ t.key = k /\ t.seen = Resource(k)
    BY GotoType DEF States
  <2> HIDE DEF s, t
  <2>7. CASE Advance(i, t, FALSE, FALSE)
    <3>1. ~proc[i].err
      BY <2>4, <2>6, <2>7, ErrorStays
    <3> QED BY <2>2, <2>4, <2>6, <2>7, <3>1, MovesOn
  <2>8. CASE Advance(i, s, FALSE, TRUE)
    <3>1. ~proc[i].err
      BY <2>4, <2>5, <2>8, ErrorStays
    <3> QED BY <2>2, <2>4, <2>5, <2>8, <3>1, MovesOn
  <2> QED BY <2>3, <2>7, <2>8
<1>4. CASE deleteIngress(i)
  <2>1. PICK o \in DeleteIngress(Job[i].clusters) :
          Advance(i, Goto(i, "done"), AnyErr(o), AnyFault(o))
    BY <1>4 DEF deleteIngress
  <2>2. AnyErr(o) \in BOOLEAN /\ proc[i].at = "delIngress" /\ UNCHANGED <<be, um>>
    BY <1>4 DEF AnyErr, deleteIngress, At
  <2>3. ~proc[i].err
    BY <2>1, <2>2, GotoType, ErrorStays
  <2> QED BY <2>1, <2>2, <2>3, GotoType, MovesOn
<1>5. CASE Kill(i)
  BY <1>5, GotoType, ErrorStays DEF Kill
<1> QED BY <1>1, <1>2, <1>3, <1>4, <1>5

\* Reading the ports.
LEMMA ReadingStep ==
  ASSUME ConcurrentInv, NEW i \in Procs, ~proc'[i].err, readPorts(i)
  PROVE  ~proc[i].err /\ Reads(i)
<1>1. PICK c \in Job[i].clusters : \E r \in ingToNodePorts(Job[i].spec, c) :
        Advance(i, [Goto(i, "igs") EXCEPT !.ports = r.ports], FALSE, r.fault)
  BY DEF readPorts
<1>2. PICK r \in ingToNodePorts(Job[i].spec, c) :
        Advance(i, [Goto(i, "igs") EXCEPT !.ports = r.ports], FALSE, r.fault)
  BY <1>1
<1>3. /\ r.ports \in [NodePorts -> Services \cup {None}] /\ c \in Clusters
      /\ PortsRead(Job[i].spec, c, r)
  BY JobType, ingToNodePortsType DEF ConcurrentInv, ConcurrentTypeOK
<1> DEFINE s == [Goto(i, "igs") EXCEPT !.ports = r.ports]
<1>4. /\ s \in States /\ s.at = "igs" /\ s.ports = r.ports /\ s.err = proc[i].err
      /\ s.bes = proc[i].bes
  BY <1>3, GotoType DEF States
<1>5. Advance(i, s, FALSE, r.fault)
  BY <1>2
<1> HIDE DEF s
<1>6. /\ proc'[i].at = "igs" /\ proc'[i].ports = r.ports /\ proc'[i].bes = proc[i].bes
  BY <1>4, <1>5, AdvanceSelf
<1>7. ~proc[i].err
  BY <1>4, <1>5, ErrorStays
<1>8. proc[i].at = "ports" /\ UNCHANGED <<be, um>>
  BY DEF readPorts, At
<1> QED BY <1>3, <1>6, <1>7, <1>8 DEF Reads

\* Reading the instance groups.
LEMMA FindingStep ==
  ASSUME ConcurrentInv, NEW i \in Procs, ~proc'[i].err, getIGs(i)
  PROVE  ~proc[i].err /\ Finds(i)
<1> DEFINE all == {p \in NodePorts : proc[i].ports[p] # None} \cup {"fw", "um"}
<1>1. PICK found \in SUBSET {c \in Job[i].clusters : ing[c] # None /\ ing[c].igs # {}} :
        LET failed == found # Job[i].clusters
            fault == found # {c \in Job[i].clusters : ing[c] # None}
            todo == CASE Job[i].op = "create" /\ found # {} -> all
                      [] Job[i].op = "remove" /\ ~failed -> all
                      [] Job[i].op = "remove" /\ failed /\ Job[i].force -> {"um"}
                      [] OTHER -> {}
        IN  Advance(i, [Goto(i, IF todo = {} THEN "done" ELSE "get") EXCEPT
                          !.igs = [c \in Clusters |->
                                     IF c \in found THEN ing[c].igs ELSE {}],
                          !.todo = todo], failed, fault)
  BY DEF getIGs
<1> DEFINE failed == found # Job[i].clusters
           fault == found # {c \in Job[i].clusters : ing[c] # None}
           todo == CASE Job[i].op = "create" /\ found # {} -> all
                     [] Job[i].op = "remove" /\ ~failed -> all
                     [] Job[i].op = "remove" /\ failed /\ Job[i].force -> {"um"}
                     [] OTHER -> {}
           step == IF todo = {} THEN "done" ELSE "get"
           links == [c \in Clusters |-> IF c \in found THEN ing[c].igs ELSE {}]
           s == [Goto(i, step) EXCEPT !.igs = links, !.todo = todo]
<1>2. Job[i].clusters # {} /\ Job[i].op \in {"create", "remove"}
  BY JobAssumption
<1>3. todo \in {all, {"um"}, {}} /\ failed \in BOOLEAN /\ (~failed => todo = all)
  BY <1>2
<1>4. /\ links \in [Clusters -> SUBSET InstanceGroups]
      /\ ~failed => \A c \in Clusters :
                      links[c] = IF c \in Job[i].clusters THEN ing[c].igs ELSE {}
      /\ ~failed => \A c \in Job[i].clusters : ing[c] # None /\ ing[c].igs # {}
  <2>1. found \in SUBSET Clusters
    BY JobType
  <2> QED BY <2>1 DEF ConcurrentInv, ConcurrentTypeOK, IngressTypeOK, Ingresses
<1>5. Advance(i, s, failed, fault)
  BY <1>1
<1> HIDE DEF todo, failed, fault, links
<1>6. todo \in SUBSET Keys
  BY <1>3 DEF Keys
<1>7. /\ s \in States /\ s.at = step /\ s.ports = proc[i].ports /\ s.igs = links
      /\ s.err = proc[i].err /\ s.bes = proc[i].bes
  <2>1. step \in {"done", "get"}
    OBVIOUS
  <2>2. /\ Goto(i, step) \in States /\ Goto(i, step).at = step
        /\ Goto(i, step).ports = proc[i].ports /\ Goto(i, step).err = proc[i].err
        /\ Goto(i, step).bes = proc[i].bes
    BY <2>1, GotoType
  <2> HIDE DEF step
  <2>3. s \in States
    BY <1>4, <1>6, <2>2 DEF States
  <2>4. /\ s.at = step /\ s.ports = proc[i].ports /\ s.igs = links
        /\ s.err = proc[i].err /\ s.bes = proc[i].bes
    BY <2>2 DEF States
  <2> QED BY <2>3, <2>4
<1> HIDE DEF s
<1>8. ~proc[i].err /\ ~failed
  BY <1>3, <1>5, <1>7, ErrorStays
<1>9. step = "get"
  BY <1>3, <1>8
<1>10. /\ proc'[i].at = "get" /\ proc'[i].ports = proc[i].ports /\ proc'[i].igs = links
       /\ proc'[i].bes = proc[i].bes
  BY <1>3, <1>5, <1>7, <1>9, AdvanceSelf
<1>11. proc[i].at = "igs" /\ UNCHANGED <<be, um>>
  BY DEF getIGs, At
<1> QED BY <1>4, <1>8, <1>10, <1>11 DEF Finds

\* Writing.
LEMMA PuttingStep ==
  ASSUME ConcurrentInv, NoForcedCreate, NEW i \in Procs, ~proc'[i].err, put(i)
  PROVE  ~proc[i].err /\ \E o : Puts(i, o)
<1> DEFINE k == proc[i].key
<1>1. PICK o : \E bes \in SUBSET NodePorts :
        /\ PutOutcome(i, k, o) /\ Write(k, o.res)
        /\ Job[i].op = "create" /\ ~Job[i].force /\ ~o.err => CreatedOutcome(i, k, o)
        /\ Job[i].op = "remove" /\ ~o.err => RemovedOutcome(i, k, o)
        /\ bes \subseteq proc[i].bes \cup {k}
        /\ Advance(i, [Finish(i, o.err) EXCEPT !.bes = bes], o.err, o.fault)
  BY putStep
<1>2. PICK bes \in SUBSET NodePorts :
        /\ bes \subseteq proc[i].bes \cup {k}
        /\ Advance(i, [Finish(i, o.err) EXCEPT !.bes = bes], o.err, o.fault)
  BY <1>1
<1> DEFINE s == [Finish(i, o.err) EXCEPT !.bes = bes]
<1>3. /\ proc[i] \in States /\ proc[i].at = "put" /\ At(i, "put") /\ o.err \in BOOLEAN
      /\ k \in Keys
  BY <1>1 DEF put, At, ConcurrentInv, ConcurrentTypeOK, PutOutcome, LocalOK
<1>4. s \in States
  BY <1>3, FinishType
<1>5. /\ s.ports = proc[i].ports /\ s.igs = proc[i].igs /\ s.todo = proc[i].todo \ {k}
      /\ s.err = proc[i].err /\ s.bes = bes
  BY <1>3 DEF Finish, States
<1>6. s.at \in {"get", "delIngress", "done"}
  BY <1>3, AfterSyncerType DEF Finish, States
<1>7. Advance(i, s, o.err, o.fault)
  BY <1>2
<1> HIDE DEF s
<1>8. ~proc[i].err /\ ~o.err
  BY <1>3, <1>4, <1>5, <1>7, ErrorStays
<1>9. /\ proc'[i].at \in {"get", "delIngress", "done"}
      /\ proc'[i].ports = proc[i].ports /\ proc'[i].igs = proc[i].igs
      /\ proc'[i].todo = proc[i].todo \ {k} /\ proc'[i].bes = bes
  BY <1>3, <1>4, <1>5, <1>6, <1>7, AdvanceSelf
<1>10. Job[i].op = "create" => CreatedOutcome(i, k, o)
  BY <1>1, <1>8 DEF NoForcedCreate
<1>11. Job[i].op = "remove" => RemovedOutcome(i, k, o)
  BY <1>1, <1>8
<1> QED BY <1>1, <1>2, <1>3, <1>8, <1>9, <1>10, <1>11 DEF Puts

\* All steps of a process.
LEMMA StepOf ==
  ASSUME ConcurrentInv, NoForcedCreate, NEW i \in Procs, Step(i) \/ Kill(i), ~proc'[i].err
  PROVE  /\ ~proc[i].err
         /\ Moves(i) \/ Reads(i) \/ Finds(i) \/ \E o : Puts(i, o)
BY MovingSteps, ReadingStep, FindingStep, PuttingStep DEF Step

\* Only one process takes a step.
LEMMA OthersStay ==
  ASSUME ConcurrentInv, NEW i \in Procs, Step(i) \/ Kill(i)
  PROVE  nodePort' = nodePort /\ \A j \in Procs : j # i => proc'[j] = proc[j]
<1>1. CASE put(i)
  BY <1>1, putInv DEF put
<1>2. ASSUME NEW s, NEW e, NEW f, Advance(i, s, e, f), NEW j \in Procs, j # i
      PROVE  proc'[j] = proc[j]
  BY <1>2 DEF Advance, ConcurrentInv, ConcurrentTypeOK
<1>3. CASE ~put(i)
  BY <1>2, <1>3 DEF Step, Kill, createIngress, checkStatus, readPorts, getIGs, get,
     deleteIngress
<1> QED BY <1>1, <1>3

\* A process that is past the instance groups stays there and has less to do.
LEMMA PastStays ==
  ASSUME NEW i \in Procs, Past(i), Moves(i) \/ Reads(i) \/ Finds(i) \/ \E o : Puts(i, o)
  PROVE  Past(i)' /\ proc'[i].todo \subseteq proc[i].todo
<1>1. ~Reads(i) /\ ~Finds(i)
  BY DEF Past, Reads, Finds
<1>2. CASE Moves(i)
  BY <1>2 DEF Moves
<1>3. CASE \E o : Puts(i, o)
  BY <1>3 DEF Puts, Past
<1> QED BY <1>1, <1>2, <1>3

\* If all is fine after a step, it was before.
LEMMA FineBefore ==
  ASSUME ConcurrentInv, NoForcedCreate, NEW i \in Procs, Step(i) \/ Kill(i), Fine'
  PROVE  /\ Fine /\ ~proc'[i].err
         /\ Moves(i) \/ Reads(i) \/ Finds(i) \/ \E o : Puts(i, o)
<1>1. ~proc'[i].err
  BY DEF Fine
<1>2. /\ ~proc[i].err
      /\ Moves(i) \/ Reads(i) \/ Finds(i) \/ \E o : Puts(i, o)
  BY <1>1, StepOf
<1>3. ASSUME NEW j \in Procs, j # i
      PROVE  ~proc[j].err /\ (Past(j) \/ proc[j].at = "igs" => FoundServices(j))
  <2>1. proc'[j] = proc[j]
    BY <1>3, OthersStay
  <2> QED BY <2>1 DEF Fine, Past, FoundServices
<1>4. Past(i) \/ proc[i].at = "igs" => FoundServices(i)
  <2>1. ASSUME Past(i) \/ proc[i].at = "igs"
        PROVE  /\ Past(i)' \/ proc'[i].at = "igs"
               /\ proc'[i].ports = proc[i].ports
    <3>1. ~Reads(i)
      BY <2>1 DEF Reads, Past
    <3>2. CASE Moves(i)
      BY <2>1, <3>2 DEF Moves
    <3>3. CASE Finds(i)
      BY <3>3 DEF Finds, Past
    <3>4. CASE \E o : Puts(i, o)
      BY <3>4 DEF Puts, Past
    <3> QED BY <1>2, <3>1, <3>2, <3>3, <3>4
  <2> QED BY <2>1 DEF Fine, FoundServices
<1>5. Fine
  BY <1>2, <1>3, <1>4 DEF Fine
<1> QED BY <1>1, <1>2, <1>5

-----------------------------------------------------------------------------
\* The instance groups of a process are those of its clusters.
LEMMA KnownIGs ==
  ASSUME NEW i \in Procs, Knows(i), Past(i), GroupsApart
  PROVE  \A c \in Clusters : /\ c \in Job[i].clusters => IGsOf[c] \subseteq IGs(i)
                             /\ c \notin Job[i].clusters => IGsOf[c] \cap IGs(i) = {}
<1>1. \A c \in Clusters :
        proc[i].igs[c] = IF c \in Job[i].clusters THEN IGsOf[c] ELSE {}
  BY DEF Knows
<1>2. ASSUME NEW c \in Clusters, c \in Job[i].clusters
      PROVE  IGsOf[c] \subseteq IGs(i)
  BY <1>1, <1>2 DEF IGs
<1>3. ASSUME NEW c \in Clusters, c \notin Job[i].clusters, NEW g \in IGsOf[c], g \in IGs(i)
      PROVE  FALSE
  <2>1. PICK d \in Clusters : g \in proc[i].igs[d]
    BY <1>3 DEF IGs
  <2>2. g \in IGsOf[d] /\ d \in Job[i].clusters
    BY <1>1, <2>1
  <2> QED BY <1>3, <2>2 DEF GroupsApart
<1> QED BY <1>2, <1>3

\* What the processes know.
LEMMA KnowsStays ==
  ASSUME ConcurrentInv, AnnotatedByController, NEW i \in Procs, Knows(i), Shrinks,
         nodePort' = nodePort, um' = None => um = None,
         \/ proc'[i] = proc[i]
         \/ Moves(i) \/ Reads(i) \/ Finds(i) \/ \E o : Puts(i, o)
  PROVE  Knows(i)'
<1>0. proc[i].bes \subseteq NodePorts /\ proc[i].ports \in [NodePorts -> Services \cup {None}]
  BY DEF ConcurrentInv, ConcurrentTypeOK, States
<1>1. CASE proc'[i] = proc[i]
  BY <1>1 DEF Knows, Past
<1>2. CASE Moves(i)
  <2>1. Past(i)' = Past(i)
    BY <1>2 DEF Moves
  <2>2. Job[i].op = "remove" => um' # None
    BY <1>2 DEF Moves, Knows
  <2> QED BY <1>2, <2>1, <2>2 DEF Moves, Knows
<1>3. CASE Reads(i)
  <2>1. ~Past(i)' /\ proc'[i].bes = {} /\ um' = um /\ proc[i].at # "status"
    BY <1>3 DEF Reads, Past, Knows
  <2>2. PICK c \in Clusters : \E r : PortsRead(Job[i].spec, c, r) /\ proc'[i].ports = r.ports
    BY <1>3 DEF Reads
  <2>3. \A p \in NodePorts : proc'[i].ports[p] # None =>
          /\ proc'[i].ports[p] \in ServicesOf(Job[i].spec)
          /\ nodePort[c][proc'[i].ports[p]] = p
    BY <2>2 DEF PortsRead
  <2> QED BY <2>1, <2>3 DEF Knows
<1>4. CASE Finds(i)
  <2>1. Past(i)' /\ proc'[i].bes = {} /\ um' = um /\ proc[i].at # "status"
        /\ proc'[i].ports = proc[i].ports
    BY <1>4 DEF Finds, Past, Knows
  <2>2. ASSUME NEW c \in Clusters
        PROVE  proc'[i].igs[c] = IF c \in Job[i].clusters THEN IGsOf[c] ELSE {}
    <3>1. proc'[i].igs[c] = IF c \in Job[i].clusters THEN ing[c].igs ELSE {}
      BY <1>4 DEF Finds
    <3>2. c \in Job[i].clusters => ing[c].igs = IGsOf[c]
      BY <1>4 DEF Finds, AnnotatedByController
    <3> QED BY <3>1, <3>2
  <2> QED BY <2>1, <2>2 DEF Knows
<1>5. CASE \E o : Puts(i, o)
  <2>1. /\ Past(i) /\ Past(i)' /\ proc'[i].ports = proc[i].ports
        /\ proc'[i].igs = proc[i].igs /\ proc[i].at # "status"
    BY <1>5 DEF Puts, Past
  <2>2. \A p \in proc'[i].bes : proc[i].ports[p] # None
    <3>1. proc'[i].bes \subseteq NodePorts /\ proc'[i].bes \subseteq proc[i].bes \cup {proc[i].key}
      BY <1>5 DEF Puts
    <3>2. proc[i].key \in NodePorts => proc[i].ports[proc[i].key] # None
      BY DEF ConcurrentInv, LocalOK
    <3> QED BY <3>1, <3>2 DEF Knows
  <2> QED BY <2>1, <2>2 DEF Knows
<1> QED BY <1>1, <1>2, <1>3, <1>4, <1>5

\* Without a url map no remove is at work, and what is there stays as it is.
LEMMA BeforeMapStays ==
  ASSUME ConcurrentInv, NEW i \in Procs, \A j \in Procs : Knows(j) /\ BeforeMap(j),
         Moves(i) \/ Reads(i) \/ Finds(i) \/ \E o : Puts(i, o),
         \A j \in Procs : j # i => proc'[j] = proc[j], um = None, um' = None
  PROVE  \A j \in Procs : BeforeMap(j)'
<1>1. \A p \in NodePorts : be[p] # None => be'[p] = be[p]
  <2>1. CASE \E o : Puts(i, o)
    <3>1. PICK o : Puts(i, o)
      BY <2>1
    <3>2. CreatedOutcome(i, proc[i].key, o) /\ proc[i].key \in Keys
      BY <3>1, JobType DEF Puts, Knows
    <3>3. \A p \in NodePorts : be'[p] = IF proc[i].key = p THEN o.res ELSE be[p]
      BY <3>1 DEF Puts, Write
    <3>4. proc[i].key \in NodePorts => Resource(proc[i].key) = be[proc[i].key]
      BY <3>2, ResourceType
    <3> QED BY <3>2, <3>3, <3>4 DEF CreatedOutcome
  <2> QED BY <2>1 DEF Moves, Reads, Finds
<1>2. ASSUME NEW j \in Procs, proc[j].bes \subseteq NodePorts
      PROVE  /\ \A p \in proc[j].bes : be'[p] # None /\ be'[p].igs = IGs(j)
             /\ proc[j].at = "put" /\ proc[j].key \in NodePorts /\ proc[j].seen # None =>
                  proc[j].seen = be'[proc[j].key]
  BY <1>1, <1>2 DEF BeforeMap
<1>3. \A j \in Procs : proc[j].bes \subseteq NodePorts
  BY DEF ConcurrentInv, ConcurrentTypeOK, States
<1>4. ASSUME NEW j \in Procs, j # i
      PROVE  BeforeMap(j)'
  <2>1. IGs(j)' = IGs(j)
    BY <1>4 DEF IGs
  <2> QED BY <1>2, <1>3, <1>4, <2>1 DEF BeforeMap
<1>5. BeforeMap(i)'
  <2>1. CASE Moves(i)
    <3>1. IGs(i)' = IGs(i) /\ proc'[i].bes = proc[i].bes
      BY <2>1 DEF Moves, IGs
    <3>2. ASSUME proc'[i].at = "put", proc'[i].key \in NodePorts, proc'[i].seen # None
          PROVE  proc'[i].seen = be'[proc'[i].key]
      <4>1. proc'[i].seen = Resource(proc'[i].key) /\ be' = be
        BY <2>1, <3>2 DEF Moves
      <4>2. Resource(proc'[i].key) = be[proc'[i].key]
        BY <3>2, ResourceType DEF Keys
      <4> QED BY <4>1, <4>2
    <3> QED BY <1>2, <1>3, <3>1, <3>2 DEF BeforeMap
  <2>2. CASE Reads(i) \/ Finds(i)
    BY <2>2 DEF Reads, Finds, Knows, Past, BeforeMap
  <2>3. CASE \E o : Puts(i, o)
    <3>1. PICK o : Puts(i, o)
      BY <2>3
    <3> DEFINE k == proc[i].key
    <3>2. /\ k \in Keys /\ proc[i].at = "put" /\ Job[i].op = "create"
          /\ CreatedOutcome(i, k, o) /\ proc'[i].at # "put"
          /\ proc'[i].bes \subseteq NodePorts /\ proc'[i].bes \subseteq proc[i].bes \cup {k}
      BY <3>1, JobType DEF Puts, Knows
    <3>3. IGs(i)' = IGs(i)
      BY <3>1 DEF Puts, IGs
    <3>4. ASSUME k \in NodePorts, k \in proc'[i].bes
          PROVE  be'[k] # None /\ be'[k].igs = IGs(i)
      <4>1. be'[k] = o.res /\ Resource(k) = be[k]
        BY <3>1, <3>2, <3>4, ResourceType DEF Puts, Write
      <4>2. proc[i].ports[k] # None
        BY <3>4 DEF ConcurrentInv, LocalOK
      <4>3. Desired(i, k) = desiredBackendService(proc[i].ports[k], IGs(i))
        BY <3>4, JobAssumption DEF Desired
      <4>4. Desired(i, k) \in BackendServices /\ Desired(i, k).igs = IGs(i)
        <5>1. ~NotComputable(i, k)
          BY <3>4, JobAssumption DEF NotComputable
        <5>2. Desired(i, k) \in BackendServices
          BY <3>2, <3>4, <4>2, <5>1, DesiredType
        <5> QED BY <4>3, <5>2 DEF desiredBackendService
      <4>5. o.res = Desired(i, k)
        <5>1. CASE proc[i].seen = Desired(i, k) /\ o.res = Resource(k)
          BY <3>2, <3>4, <4>1, <4>4, <5>1, NoneIsNoResource DEF BeforeMap
        <5> QED BY <3>2, <5>1 DEF CreatedOutcome
      <4> QED BY <4>1, <4>4, <4>5, NoneIsNoResource
    <3>5. \A p \in proc'[i].bes : be'[p] # None /\ be'[p].igs = IGs(i)
      BY <1>2, <1>3, <3>2, <3>4
    <3> QED BY <3>2, <3>3, <3>5 DEF BeforeMap
  <2> QED BY <2>1, <2>2, <2>3
<1> QED BY <1>4, <1>5

\* The url map that a create inserts lists the members of its services.
LEMMA MapInserted ==
  ASSUME ConcurrentInv, GroupsApart, NEW i \in Procs,
         \A j \in Procs : Knows(j) /\ BeforeMap(j),
         Moves(i) \/ Reads(i) \/ Finds(i) \/ \E o : Puts(i, o),
         nodePort' = nodePort, um = None, um' # None,
         NEW p \in BackendServicesInUse'
  PROVE  HasMembers(p)'
<1>1. PICK o : Puts(i, o)
  BY DEF Moves, Reads, Finds
<1> DEFINE k == proc[i].key
           bes == EnsuredServices(i)
           spec == Job[i].spec
<1>2. k = "um" /\ um' = o.res /\ proc[i].at = "put" /\ Job[i].op = "create"
  BY <1>1, JobType DEF Puts, Write, Knows
<1>3. be' = be
  <2>1. be' = [q \in NodePorts |-> IF k = q THEN o.res ELSE be[q]]
    BY <1>1 DEF Puts, Write
  <2>2. \A q \in NodePorts : k # q
    BY <1>2, JobAssumption
  <2>3. be \in [NodePorts -> BEs]
    BY DEF ConcurrentInv, ConcurrentTypeOK, BackendServiceTypeOK, BEs
  <2> QED BY <2>1, <2>2, <2>3
<1>4. Resource(k) = um
  BY <1>2, ResourceType DEF Keys
<1>5. um' = desiredURLMap(spec, Job[i].clusters, bes, 1) /\ ~ingToURLMapFails(spec, bes)
  <2>1. o.res = Desired(i, k) /\ ~NotComputable(i, k)
    BY <1>1, <1>2, <1>4 DEF Puts, CreatedOutcome
  <2>2. Desired(i, k) = desiredURLMap(spec, Job[i].clusters, bes, 1)
    BY <1>2, JobAssumption DEF Desired
  <2> QED BY <1>2, <2>1, <2>2 DEF NotComputable
<1>6. /\ um'.st.clusters = Job[i].clusters
      /\ um'.default = bes[spec.default]
      /\ \A s \in Services : um'.rules[s] = IF s \in spec.paths THEN bes[s] ELSE None
  BY <1>5 DEF desiredURLMap
<1>7. p \in NodePorts /\ (p = um'.default \/ \E s \in Services : p = um'.rules[s])
  BY DEF BackendServicesInUse
<1>8. PICK s \in ServicesOf(spec) : s \in Services /\ p = bes[s]
  <2>1. spec \in SpecType /\ spec.default # None
    BY <1>5, JobType DEF ingToURLMapFails
  <2> HIDE DEF bes, spec
  <2>2. CASE p = um'.default
    BY <1>6, <2>1, <2>2 DEF ServicesOf, SpecType
  <2>3. ASSUME NEW s \in Services, p = um'.rules[s]
        PROVE  s \in ServicesOf(spec) /\ p = bes[s]
    BY <1>6, <1>7, <2>1, <2>3, NoneAssumption DEF ServicesOf, SpecType
  <2> QED BY <1>6, <1>7, <2>1, <2>2, <2>3 DEF ServicesOf, SpecType
<1>9. p \in proc[i].bes /\ proc[i].ports[p] = s
  <2>1. bes[s] = IF \E q \in proc[i].bes : proc[i].ports[q] = s
                   THEN CHOOSE q \in proc[i].bes : proc[i].ports[q] = s ELSE None
    BY <1>8 DEF EnsuredServices
  <2>2. \E q \in proc[i].bes : proc[i].ports[q] = s
    BY <1>7, <1>8, <2>1, NoneAssumption
  <2>3. p = CHOOSE q \in proc[i].bes : proc[i].ports[q] = s
    BY <1>8, <2>1, <2>2
  <2> QED BY <2>2, <2>3, Zenon
<1>10. be'[p] # None /\ be'[p].igs = IGs(i)
  BY <1>3, <1>9 DEF BeforeMap
<1>11. Past(i)
  BY <1>2 DEF Past
<1>12. \A c \in Clusters : /\ c \in Job[i].clusters => IGsOf[c] \subseteq IGs(i)
                           /\ c \notin Job[i].clusters => IGsOf[c] \cap IGs(i) = {}
  BY <1>11, KnownIGs
<1>13. IGs(i) \subseteq UNION {IGsOf[c] : c \in Clusters}
  BY <1>11 DEF Knows, IGs
<1>14. PortOfService(p)'
  <2>1. PICK c \in Clusters : nodePort[c][s] = p
    BY <1>7, <1>8, <1>9, NoneAssumption DEF Knows
  <2> QED BY <1>8, <2>1, JobType DEF PortOfService
<1>15. \A c \in Clusters : Agree(c, p)'
  BY <1>6, <1>10, <1>12 DEF Agree
<1> QED BY <1>10, <1>13, <1>14, <1>15 DEF HasMembers

\* What a remove has taken it has taken for good.
LEMMA TakenStays ==
  ASSUME NEW i \in Procs, Moves(i) \/ Reads(i) \/ Finds(i) \/ \E o : Puts(i, o),
         \A j \in Procs : j # i => proc'[j] = proc[j], NEW c, NEW k, Taken(c, k)
  PROVE  Taken(c, k)'
<1>1. PICK j \in Procs : /\ Job[j].op = "remove" /\ Past(j)
                         /\ k \notin proc[j].todo /\ c \in Job[j].clusters
  BY DEF Taken
<1>2. Past(j)' /\ proc'[j].todo \subseteq proc[j].todo
  BY <1>1, PastStays DEF Past
<1> QED BY <1>1, <1>2 DEF Taken

\* A step on a load balancer that exists.
LEMMA MembersStay ==
  ASSUME ConcurrentInv, GroupsApart, NEW i \in Procs, Knows(i),
         Moves(i) \/ Reads(i) \/ Finds(i) \/ \E o : Puts(i, o),
         \A j \in Procs : j # i => proc'[j] = proc[j], nodePort' = nodePort,
         um # None, NEW p \in NodePorts, HasMembers(p)
  PROVE  HasMembers(p)'
<1>1. PortOfService(p)'
  BY DEF HasMembers, PortOfService
<1>2. \A c, k : Taken(c, k) => Taken(c, k)'
  BY TakenStays
<1>3. CASE be'[p] = be[p] /\ um'.st.clusters = um.st.clusters
  BY <1>1, <1>2, <1>3 DEF HasMembers, Agree
<1>4. CASE \E o : Puts(i, o)
  <2>1. PICK o : Puts(i, o)
    BY <1>4
  <2> DEFINE k == proc[i].key
  <2>2. /\ k \in Keys /\ proc[i].at = "put" /\ Past(i) /\ Past(i)' /\ k \notin proc'[i].todo
        /\ be'[p] = IF k = p THEN o.res ELSE be[p]
        /\ um' = IF k = "um" THEN o.res ELSE um
    BY <2>1 DEF Puts, Write, Past
  <2>3. CASE Job[i].op = "create"
    <3>1. CreatedOutcome(i, k, o) /\ be[p] # None
      BY <2>1, <2>3 DEF Puts, HasMembers
    <3>2. (k = "um" => Resource(k) = um) /\ (k = p => Resource(k) = be[p])
      BY <2>2, ResourceType
    <3>3. be'[p] = be[p] /\ um' = um
      BY <2>2, <3>1, <3>2 DEF CreatedOutcome
    <3> QED BY <1>3, <3>3
  <2>4. CASE Job[i].op = "remove" /\ k = "um"
    <3>1. um' = [um EXCEPT !.st.clusters = @ \ Job[i].clusters]
      BY <2>1, <2>2, <2>4 DEF Puts, RemovedOutcome
    <3>2. be'[p] = be[p]
      BY <2>2, <2>4, JobAssumption
    <3>3. um \in URLMaps /\ um.st \in Status
      BY DEF ConcurrentInv, ConcurrentTypeOK, URLMapTypeOK, HasStatus
    <3>4. um'.st = [um.st EXCEPT !.clusters = @ \ Job[i].clusters]
      BY <3>1, <3>3 DEF URLMaps
    <3>5. um'.st.clusters = um.st.clusters \ Job[i].clusters
      BY <3>3, <3>4 DEF Status
    <3>6. \A c \in Job[i].clusters : Taken(c, "um")'
      BY <2>2, <2>4 DEF Taken
    <3>7. \A c \in Clusters : c \notin Job[i].clusters => (Agree(c, p) => Agree(c, p)')
      BY <3>2, <3>5 DEF Agree
    <3>8. \A c \in Clusters : Agree(c, p)' \/ Taken(c, "um")' \/ Taken(c, p)'
      BY <1>2, <3>6, <3>7 DEF HasMembers
    <3> QED BY <1>1, <3>2, <3>8 DEF HasMembers
  <2>5. CASE Job[i].op = "remove" /\ k = p
    <3>1. be'[p] = [be[p] EXCEPT !.igs = @ \ IGs(i)]
      BY <2>1, <2>2, <2>5 DEF Puts, RemovedOutcome
    <3>2. um' = um
      BY <2>2, <2>5, JobAssumption
    <3>3. be[p] \in BackendServices
      BY DEF HasMembers, ConcurrentInv, ConcurrentTypeOK, BackendServiceTypeOK
    <3>4. be'[p] \in BackendServices /\ be'[p].igs = be[p].igs \ IGs(i)
      BY <3>1, <3>3 DEF BackendServices
    <3>5. \A c \in Job[i].clusters : Taken(c, p)'
      BY <2>2, <2>5 DEF Taken
    <3>6. \A c \in Clusters : c \notin Job[i].clusters => IGsOf[c] \cap IGs(i) = {}
      BY <2>2, KnownIGs
    <3>7. \A c \in Clusters : c \notin Job[i].clusters => (Agree(c, p) => Agree(c, p)')
      BY <3>2, <3>4, <3>6 DEF Agree
    <3>8. \A c \in Clusters : Agree(c, p)' \/ Taken(c, "um")' \/ Taken(c, p)'
      BY <1>2, <3>5, <3>7 DEF HasMembers
    <3>9. be'[p] # None /\ be'[p].igs \subseteq UNION {IGsOf[c] : c \in Clusters}
      BY <3>4, NoneIsNoResource DEF HasMembers
    <3> QED BY <1>1, <3>8, <3>9 DEF HasMembers
  <2>6. CASE k # "um" /\ k # p
    BY <1>3, <2>2, <2>6
  <2> QED BY <2>3, <2>4, <2>5, <2>6, JobType
<1> QED BY <1>3, <1>4 DEF Moves, Reads, Finds

\* Annotations are written by the controllers and dropped by commands.
LEMMA NextAnnotated ==
  ASSUME ConcurrentInv, AnnotatedByController, [Next]_vars
  PROVE  AnnotatedByController'
<1>0. IngressTypeOK
  BY DEF ConcurrentInv, ConcurrentTypeOK
<1>1. CASE ing' = ing
  BY <1>1 DEF AnnotatedByController
<1>2. ASSUME NEW i \in Procs, createIngress(i)
      PROVE  AnnotatedByController'
  <2>1. PICK o \in EnsureIngress(Job[i].spec, Job[i].clusters, Job[i].force) :
          ing' = Results(o)
    BY <1>2 DEF createIngress
  <2>2. IngressesEnsured(Job[i].spec, Job[i].clusters, Job[i].force, o)
    BY <1>0, JobType, EnsureIngressOutcome
  <2>3. \A c \in Clusters : ing'[c] = ing[c] \/ ing'[c].igs = {}
    BY <2>1, <2>2 DEF IngressesEnsured, desiredIngress
  <2> QED BY <2>3 DEF AnnotatedByController
<1>3. ASSUME NEW i \in Procs, deleteIngress(i)
      PROVE  AnnotatedByController'
  <2>1. PICK o \in DeleteIngress(Job[i].clusters) : ing' = Results(o)
    BY <1>3 DEF deleteIngress
  <2>2. \A c \in Clusters : ing'[c] \in {ing[c], None}
    BY <1>0, <2>1, DeleteIngressOutcome
  <2> QED BY <2>2 DEF AnnotatedByController
<1>4. ASSUME NEW c \in Clusters, Annotate(c)
      PROVE  AnnotatedByController'
  BY <1>0, <1>4 DEF Annotate, AnnotatedByController, IngressTypeOK, Ingresses
<1>5. ASSUME NEW i \in Procs, Step(i) \/ Kill(i), ~createIngress(i), ~deleteIngress(i)
      PROVE  ing' = ing
  BY <1>5 DEF Step, Kill, checkStatus, readPorts, getIGs, get, put
<1> QED BY <1>1, <1>2, <1>3, <1>4, <1>5 DEF Next, AllDone, vars

\* Once it exists, the url map keeps its rules.
LEMMA MapTargetsStay ==
  ASSUME ConcurrentInv, NEW i \in Procs, um # None,
         Moves(i) \/ Reads(i) \/ Finds(i) \/ \E o : Puts(i, o)
  PROVE  BackendServicesInUse' = BackendServicesInUse
<1>1. CASE um' = um
  BY <1>1 DEF BackendServicesInUse
<1>2. CASE \E o : Puts(i, o)
  <2>1. PICK o : Puts(i, o)
    BY <1>2
  <2> DEFINE k == proc[i].key
  <2>2. k \in Keys /\ um' = IF k = "um" THEN o.res ELSE um
    BY <2>1 DEF Puts, Write
  <2>3. k = "um" /\ Job[i].op = "create" => um' = um
    <3>1. k = "um" => Resource(k) = um
      BY <2>2, ResourceType
    <3> QED BY <2>1, <2>2, <3>1 DEF Puts, CreatedOutcome
  <2>4. ASSUME k = "um", Job[i].op = "remove"
        PROVE  BackendServicesInUse' = BackendServicesInUse
    <3>1. um' = [um EXCEPT !.st.clusters = @ \ Job[i].clusters]
      BY <2>1, <2>2, <2>4 DEF Puts, RemovedOutcome
    <3>2. um \in URLMaps /\ um.st \in Status
      BY DEF ConcurrentInv, ConcurrentTypeOK, URLMapTypeOK, HasStatus
    <3>3. um'.st = [um.st EXCEPT !.clusters = @ \ Job[i].clusters]
      BY <3>1, <3>2 DEF URLMaps
    <3>4. um'.st \in Status
      BY <3>2, <3>3 DEF Status
    <3>5. um' \in URLMaps /\ um'.default = um.default /\ um'.rules = um.rules
      BY <3>1, <3>2, <3>3, <3>4 DEF URLMaps
    <3> QED BY <3>5, NoneIsNoResource DEF BackendServicesInUse
  <2> QED BY <1>1, <2>2, <2>3, <2>4, JobType
<1> QED BY <1>1, <1>2 DEF Moves, Reads, Finds

\* The inductive step.
LEMMA NextMembers ==
  ASSUME ConcurrentInv, NoForcedCreate, GroupsApart, MembersInv, [Next]_vars
  PROVE  MembersInv'
<1>1. AnnotatedByController'
  BY NextAnnotated DEF MembersInv
<1>2. Shrinks
  BY StepShrinks
<1>3. ASSUME NEW i \in Procs, Step(i) \/ Kill(i), Fine'
      PROVE  /\ \A j \in Procs : Knows(j)'
             /\ um' = None => \A j \in Procs : BeforeMap(j)'
             /\ um' # None => \A p \in BackendServicesInUse' : HasMembers(p)'
  <2>1. /\ Fine /\ ~proc'[i].err
        /\ Moves(i) \/ Reads(i) \/ Finds(i) \/ \E o : Puts(i, o)
    BY <1>3, FineBefore
  <2>2. nodePort' = nodePort /\ \A j \in Procs : j # i => proc'[j] = proc[j]
    BY <1>3, OthersStay
  <2>3. /\ AnnotatedByController /\ \A j \in Procs : Knows(j)
        /\ um = None => \A j \in Procs : BeforeMap(j)
        /\ um # None => \A p \in BackendServicesInUse : HasMembers(p)
    BY <2>1 DEF MembersInv
  <2>4. um' = None => um = None
    BY <1>2 DEF Shrinks
  <2>5. ASSUME NEW j \in Procs PROVE Knows(j)'
    <3>1. CASE j = i
      BY <1>2, <2>1, <2>2, <2>3, <2>4, <3>1, KnowsStays
    <3>2. CASE j # i
      BY <1>2, <2>2, <2>3, <2>4, <3>2, KnowsStays
    <3> QED BY <3>1, <3>2
  <2>6. um' = None => \A j \in Procs : BeforeMap(j)'
    BY <2>1, <2>2, <2>3, <2>4, BeforeMapStays
  <2>7. ASSUME um' # None, NEW p \in BackendServicesInUse'
        PROVE  HasMembers(p)'
    <3>1. CASE um = None
      BY <2>1, <2>2, <2>3, <2>7, <3>1, MapInserted
    <3>2. CASE um # None
      <4>1. BackendServicesInUse' = BackendServicesInUse
        BY <2>1, <3>2, MapTargetsStay
      <4>2. p \in NodePorts /\ HasMembers(p)
        BY <2>3, <2>7, <3>2, <4>1 DEF BackendServicesInUse
      <4> QED BY <2>1, <2>2, <2>3, <3>2, <4>2, MembersStay
    <3> QED BY <3>1, <3>2
  <2> QED BY <2>5, <2>6, <2>7
<1>4. CASE UNCHANGED <<be, um, nodePort, proc>>
  <2>1. (Fine' <=> Fine) /\ BackendServicesInUse' = BackendServicesInUse
    BY <1>4 DEF Fine, Past, FoundServices, BackendServicesInUse
  <2>2. \A i \in Procs : (Knows(i)' <=> Knows(i)) /\ (BeforeMap(i)' <=> BeforeMap(i))
    BY <1>4 DEF Knows, BeforeMap, Past, IGs
  <2>3. \A p : HasMembers(p)' <=> HasMembers(p)
    BY <1>4 DEF HasMembers, Agree, Taken, Past, PortOfService
  <2> QED BY <1>1, <1>4, <2>1, <2>2, <2>3 DEF MembersInv
<1>5. CASE \E i \in Procs : Step(i) \/ Kill(i)
  BY <1>1, <1>3, <1>5 DEF MembersInv
<1>6. CASE \E c \in Clusters : Annotate(c)
  BY <1>4, <1>6 DEF Annotate
<1>7. CASE UNCHANGED vars
  BY <1>4, <1>7 DEF vars
<1> QED BY <1>5, <1>6, <1>7 DEF Next, AllDone

\* A service has one port.
LEMMA PortsOfBuilt ==
  ASSUME NEW ports, NEW s, NEW p,
         p = (IF \E q \in NodePorts : ports[q] = s
                THEN CHOOSE q \in NodePorts : ports[q] = s ELSE None), p # None
  PROVE  p \in NodePorts /\ ports[p] = s
<1>1. \E q \in NodePorts : ports[q] = s
  OBVIOUS
<1>2. p = CHOOSE q \in NodePorts : ports[q] = s
  BY <1>1
<1> QED BY <1>1, <1>2, Zenon

\* The load balancer that may exist at first.
LEMMA InitMembers ==
  ASSUME Init, GroupsApart
  PROVE  MembersInv
<1>0. ConcurrentInv
  BY InitInv
<1>1. ASSUME NEW i \in Procs
      PROVE  /\ ~Past(i) /\ proc[i].bes = {} /\ proc[i].at # "put"
             /\ \A p \in NodePorts : proc[i].ports[p] = None
             /\ Job[i].op = "remove" => proc[i].at = "status"
  <2>1. proc[i] = [at |-> IF Job[i].op = "create" THEN "ingress" ELSE "status",
                   ports |-> [p \in NodePorts |-> None],
                   igs |-> [c \in Clusters |-> {}],
                   todo |-> {}, key |-> None, seen |-> None, bes |-> {}, err |-> FALSE]
    BY DEF Init
  <2> QED BY <2>1 DEF Past
<1>2. \A i \in Procs : Knows(i) /\ BeforeMap(i)
  BY <1>1 DEF Knows, BeforeMap
<1>3. CASE um = None /\ ing = [c \in Clusters |-> None]
  BY <1>2, <1>3 DEF MembersInv, AnnotatedByController
<1>4. CASE \E spec \in Specs, c \in Members :
             /\ spec.ip # None
             /\ \E r \in ingToNodePorts(spec, c) : ~r.fault /\ Built(spec, Members, r.ports)
             /\ ing = [d \in Clusters |->
                         IF d \in Members
                           THEN [spec |-> spec, igs |-> IGsOf[d]] ELSE None]
  <2>1. PICK spec \in Specs, c \in Members :
          /\ \E r \in ingToNodePorts(spec, c) : Built(spec, Members, r.ports)
          /\ ing = [d \in Clusters |->
                      IF d \in Members
                        THEN [spec |-> spec, igs |-> IGsOf[d]] ELSE None]
    BY <1>4
  <2>2. spec \in SpecType /\ Members \in SUBSET Clusters /\ c \in Clusters
    BY ConfigAssumption, JobAssumption
  <2>3. PICK r \in ingToNodePorts(spec, c) : Built(spec, Members, r.ports)
    BY <2>1
  <2>4. /\ r.ports \in [NodePorts -> Services \cup {None}]
        /\ PortsRead(spec, c, r)
    BY <1>0, <2>2, ingToNodePortsType DEF ConcurrentInv, ConcurrentTypeOK
  <2>5. AnnotatedByController
    BY <2>1 DEF AnnotatedByController
  <2> DEFINE bes == [s \in Services |->
                       IF \E p \in NodePorts : r.ports[p] = s
                         THEN CHOOSE p \in NodePorts : r.ports[p] = s ELSE None]
             all == UNION {IGsOf[d] : d \in Members}
  <2>6. /\ um = desiredURLMap(spec, Members, bes, 1) /\ ~ingToURLMapFails(spec, bes)
        /\ \A p \in NodePorts : r.ports[p] # None =>
             be[p] = desiredBackendService(r.ports[p], all)
    BY <2>3 DEF Built
  <2>7. ASSUME NEW p \in BackendServicesInUse PROVE HasMembers(p)
    <3>1. p \in NodePorts /\ (p = um.default \/ \E s \in Services : p = um.rules[s])
      BY DEF BackendServicesInUse
    <3>2. /\ um.st.clusters = Members /\ um.default = bes[spec.default]
          /\ \A s \in Services : um.rules[s] = IF s \in spec.paths THEN bes[s] ELSE None
      BY <2>6 DEF desiredURLMap
    <3>3. PICK s \in ServicesOf(spec) : s \in Services /\ p = bes[s]
      <4>1. spec.default # None
        BY <2>6 DEF ingToURLMapFails
      <4> HIDE DEF bes
      <4>2. CASE p = um.default
        BY <2>2, <3>2, <4>1, <4>2 DEF ServicesOf, SpecType
      <4>3. ASSUME NEW s \in Services, p = um.rules[s]
            PROVE  s \in ServicesOf(spec) /\ p = bes[s]
        BY <2>2, <3>1, <3>2, <4>3, NoneAssumption DEF ServicesOf, SpecType
      <4> QED BY <2>2, <3>1, <3>2, <4>1, <4>2, <4>3 DEF ServicesOf, SpecType
    <3>4. r.ports[p] = s
      <4>1. p = IF \E q \in NodePorts : r.ports[q] = s
                  THEN CHOOSE q \in NodePorts : r.ports[q] = s ELSE None
        BY <3>3
      <4> QED BY <3>1, <4>1, PortsOfBuilt, NoneAssumption
    <3>5. be[p] = desiredBackendService(s, all)
      BY <2>6, <3>1, <3>3, <3>4, NoneAssumption
    <3> HIDE DEF bes, all
    <3>6. be[p].igs = all
      BY <3>5 DEF desiredBackendService
    <3>7. PortOfService(p)
      BY <2>2, <2>4, <3>1, <3>3, <3>4, NoneAssumption DEF PortsRead, PortOfService
    <3>8. be[p] # None
      <4>1. all \in SUBSET InstanceGroups
        BY <2>2, ConfigAssumption DEF all
      <4>2. be[p] \in BackendServices
        BY <3>3, <3>5, <4>1 DEF desiredBackendService, BackendServices
      <4> QED BY <4>2, NoneIsNoResource
    <3>9. \A d \in Clusters : Agree(d, p)
      BY <2>2, <3>2, <3>6 DEF Agree, all, GroupsApart
    <3>10. all \subseteq UNION {IGsOf[d] : d \in Clusters}
      BY <2>2 DEF all
    <3> QED BY <3>6, <3>7, <3>8, <3>9, <3>10 DEF HasMembers
  <2> QED BY <1>2, <2>5, <2>7 DEF MembersInv
<1> QED BY <1>3, <1>4 DEF Init

(***************************************************************************)
(* The commands are for one ingress: they mean the same services, which    *)
(* have the same port in all clusters, and clusters do not share instance  *)
(* groups.                                                                 *)
(***************************************************************************)
OneIngress ==
  /\ GroupsApart
  /\ \A a, b \in Specs : ServicesOf(a) = ServicesOf(b)
  /\ \A m \in PortMaps : \A c, d \in Clusters : m[c] = m[d]

\* Then a process that has found its services knows the ports of the url map.
LEMMA PortsAgree ==
  ASSUME ConcurrentInv, OneIngress, NEW i \in Procs, Knows(i), FoundServices(i),
         NEW p \in NodePorts, PortOfService(p)
  PROVE  proc[i].ports[p] # None
<1>1. PICK spec \in Specs : \E s \in ServicesOf(spec), c \in Clusters : nodePort[c][s] = p
  BY DEF PortOfService
<1>2. PICK s \in ServicesOf(spec), c \in Clusters : nodePort[c][s] = p
  BY <1>1
<1>3. s \in ServicesOf(Job[i].spec) /\ s # None
  BY <1>2, JobType DEF OneIngress, ServicesOf
<1>4. PICK q \in NodePorts : proc[i].ports[q] = s
  BY <1>3 DEF FoundServices
<1>5. PICK d \in Clusters : nodePort[d][s] = q
  BY <1>3, <1>4 DEF Knows
<1>6. nodePort[d] = nodePort[c]
  BY DEF OneIngress, ConcurrentInv, ConcurrentTypeOK, IngressTypeOK
<1> QED BY <1>2, <1>3, <1>4, <1>5, <1>6

\* When all commands have succeeded nothing is left to be taken.
LEMMA MembersTold ==
  ASSUME ConcurrentInv, EffectInv, MembersInv, OneIngress
  PROVE  StatusTellsMembers
<1> SUFFICES ASSUME um # None, \A i \in Procs : Succeeded(i) /\ FoundServices(i),
                    NEW p \in BackendServicesInUse
             PROVE  be[p].igs = UNION {IGsOf[c] : c \in um.st.clusters}
  BY DEF StatusTellsMembers
<1>1. Fine /\ \A i \in Procs : Past(i) /\ proc[i].at = "done" /\ ~proc[i].err
  BY DEF Fine, Succeeded, At, Past
<1>2. (\A i \in Procs : Knows(i)) /\ HasMembers(p) /\ p \in NodePorts
  BY <1>1 DEF MembersInv, BackendServicesInUse
<1>3. ASSUME NEW c \in Clusters, Taken(c, "um") \/ Taken(c, p)
      PROVE  c \notin um.st.clusters /\ IGsOf[c] \cap be[p].igs = {}
  <2>1. PICK i \in Procs : Job[i].op = "remove" /\ c \in Job[i].clusters
    BY <1>3 DEF Taken
  <2>2. proc[i].ports[p] # None
    BY <1>2, PortsAgree DEF HasMembers
  <2>3. proc[i].todo = {}
    BY <1>1, <2>1 DEF EffectInv, EffectOK
  <2>4. /\ be[p].igs \cap IGs(i) = {}
        /\ um.st.clusters \cap Job[i].clusters = {}
    BY <1>1, <1>2, <2>1, <2>2, <2>3 DEF EffectInv, EffectOK
  <2>5. IGsOf[c] \subseteq IGs(i)
    BY <1>1, <1>2, <2>1, KnownIGs DEF OneIngress
  <2> QED BY <2>1, <2>4, <2>5
<1>4. ASSUME NEW c \in Clusters PROVE Agree(c, p)
  BY <1>2, <1>3 DEF HasMembers, Agree
<1>5. um.st.clusters \subseteq Clusters
  BY DEF ConcurrentInv, HasStatus, Status
<1>6. ASSUME NEW g \in be[p].igs PROVE g \in UNION {IGsOf[c] : c \in um.st.clusters}
  <2>1. PICK c \in Clusters : g \in IGsOf[c]
    BY <1>2 DEF HasMembers
  <2>2. c \in um.st.clusters
    BY <1>4, <2>1 DEF Agree
  <2> QED BY <2>1, <2>2
<1>7. ASSUME NEW c \in um.st.clusters PROVE IGsOf[c] \subseteq be[p].igs
  BY <1>4, <1>5 DEF Agree
<1> QED BY <1>6, <1>7

(***************************************************************************)
(* StatusTells: when any number of concurrent removes and unforced creates *)
(* for one ingress have all returned without an error, the status lists    *)
(* exactly the clusters whose instance groups the backend services have,   *)
(* although no command writes the two together.                            *)
(***************************************************************************)
THEOREM StatusTells ==
  ASSUME OneIngress
  PROVE  Spec => []StatusTellsMembers
<1>1. CASE ~NoForcedCreate
  <2>1. StatusTellsMembers
    BY <1>1 DEF StatusTellsMembers
  <2> QED BY <2>1, PTL
<1>2. CASE NoForcedCreate
  <2> DEFINE Inv == ConcurrentInv /\ EffectInv /\ MembersInv
  <2>1. Init => Inv
    <3>1. Init => EffectInv
      BY DEF Init, EffectInv, EffectOK
    <3> QED BY <3>1, InitInv, InitMembers DEF OneIngress
  <2>2. Inv /\ [Next]_vars => Inv'
    BY <1>2, NextInv, NextEffect, NextMembers DEF OneIngress
  <2>3. Inv => StatusTellsMembers
    BY MembersTold
  <2> HIDE DEF Inv
  <2> QED BY <2>1, <2>2, <2>3, PTL DEF Spec
<1> QED BY <1>1, <1>2
=============================================================================
