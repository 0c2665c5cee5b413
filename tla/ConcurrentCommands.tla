------------------------- MODULE ConcurrentCommands -------------------------
(***************************************************************************)
(* kubemci takes no lock: several people, or a person and a script, can    *)
(* run commands on one load balancer at the same time.  Here every process *)
(* runs one create or remove-clusters, and the Get and the write of a      *)
(* resource are separate steps.  The model has the resources whose new     *)
(* value depends on what was read: the firewall rule, the backend services *)
(* and the url map.  Health checks and named ports are taken as given.     *)
(***************************************************************************)
EXTENDS BackendServiceSyncer, URLMapSyncer, FirewallRuleSyncer, IngressSyncer

CONSTANTS
  Procs,            \* kubemci processes
  Job,              \* [Procs -> Commands]: the command each of them runs
  Members           \* clusters of the load balancer that exists at first

VARIABLES
  proc,             \* process -> its local state
  faults            \* number of faults so far (ghost, bounded by MaxFaults)

vars == <<be, um, fw, ing, nodePort, proc, faults>>

\* The resources, by name.
Keys == NodePorts \cup {"fw", "um"}
Values == BackendServices \cup URLMaps \cup FirewallRules

Resource(k) == CASE k = "fw" -> fw
                 [] k = "um" -> um
                 [] k \in NodePorts -> be[k]

Write(k, v) == /\ fw' = IF k = "fw" THEN v ELSE fw
               /\ um' = IF k = "um" THEN v ELSE um
               /\ be' = [p \in NodePorts |-> IF k = p THEN v ELSE be[p]]

ASSUME JobAssumption ==
  /\ Job \in [Procs -> Commands]
  /\ \A i \in Procs : /\ Job[i].op \in {"create", "remove"}
                      /\ Job[i].clusters # {} /\ Job[i].spec.ip # None
  /\ Members \subseteq Clusters
  /\ Cardinality(PortMaps) = 1
  /\ NodePorts \cap {"fw", "um"} = {}

(***************************************************************************)
(* ports, igs: what ingToNodePorts and getIGs returned; todo: the          *)
(* resources the process has still to handle; key, seen: the one it works  *)
(* on and what the Get returned; bes: the ports it has ensured.            *)
(***************************************************************************)
States == [at : {"ingress", "status", "ports", "igs", "get", "put",
                 "delIngress", "done"},
           ports : [NodePorts -> Services \cup {None}],
           igs : [Clusters -> SUBSET InstanceGroups],
           todo : SUBSET Keys, key : Keys \cup {None},
           seen : Values \cup {None}, bes : SUBSET NodePorts, err : BOOLEAN]

ConcurrentTypeOK ==
  /\ BackendServiceTypeOK /\ URLMapTypeOK /\ FirewallRuleTypeOK /\ IngressTypeOK
  /\ proc \in [Procs -> States]
  /\ faults \in 0..MaxFaults

\* The load balancer that a create for the clusters C has made.
Built(spec, C, ports) ==
  /\ be = [p \in NodePorts |->
             IF ports[p] = None THEN None
             ELSE desiredBackendService(ports[p], UNION {IGsOf[c] : c \in C})]
  /\ LET bes == [s \in Services |->
                   IF \E p \in NodePorts : ports[p] = s
                     THEN CHOOSE p \in NodePorts : ports[p] = s ELSE None]
     IN  ~ingToURLMapFails(spec, bes) /\ um = desiredURLMap(spec, C, bes, 1)
  /\ None \notin getTargetTags(C) /\ fw = desiredFirewallRule(ports, C)

Init ==
  /\ nodePort \in PortMaps
  /\ \/ /\ be = [p \in NodePorts |-> None] /\ um = None /\ fw = None
        /\ ing = [c \in Clusters |-> None]
     \/ /\ Members # {}
        /\ \E spec \in Specs, c \in Members :
             /\ spec.ip # None
             /\ \E r \in ingToNodePorts(spec, c) :
                  ~r.fault /\ Built(spec, Members, r.ports)
             /\ ing = [d \in Clusters |->
                         IF d \in Members
                           THEN [spec |-> spec, igs |-> IGsOf[d]] ELSE None]
  /\ proc = [i \in Procs |->
               [at |-> IF Job[i].op = "create" THEN "ingress" ELSE "status",
                ports |-> [p \in NodePorts |-> None],
                igs |-> [c \in Clusters |-> {}],
                todo |-> {}, key |-> None, seen |-> None, bes |-> {}, err |-> FALSE]]
  /\ faults = 0

-----------------------------------------------------------------------------
\* Process i goes on in state s, after an error e and a fault f.
Advance(i, s, e, f) ==
  /\ f => faults < MaxFaults
  /\ proc' = [proc EXCEPT ![i] = [s EXCEPT !.err = @ \/ e]]
  /\ faults' = IF f THEN faults + 1 ELSE faults

At(i, step) == proc[i].at = step
Goto(i, step) == [proc[i] EXCEPT !.at = step]

\* Where the load balancer method of process i returns to.
AfterSyncer(i, e) ==
  IF Job[i].op = "create" \/ (e /\ ~Job[i].force) THEN "done" ELSE "delIngress"

\* The known clusters of process i and all their instance groups.
Known(i) == {c \in Clusters : proc[i].igs[c] # {}}
IGs(i) == UNION {proc[i].igs[c] : c \in Clusters}

createIngress(i) ==
  /\ At(i, "ingress")
  /\ \E o \in EnsureIngress(Job[i].spec, Job[i].clusters, Job[i].force) :
       /\ ing' = Results(o)
       /\ Advance(i, Goto(i, IF AnyErr(o) THEN "done" ELSE "ports"),
                  AnyErr(o), AnyFault(o))
  /\ UNCHANGED <<be, um, fw, nodePort>>

\* Whether some cluster would remain is decided here and never looked at again.
checkStatus(i) ==
  /\ At(i, "status")
  /\ LET goOn == /\ um # None
                 /\ \/ hasSomeRemainingClusters(um.st.clusters, Job[i].clusters)
                    \/ Job[i].force
     IN  \/ Advance(i, Goto(i, IF goOn THEN "ports" ELSE AfterSyncer(i, TRUE)),
                    ~goOn, FALSE)
         \/ Advance(i, Goto(i, AfterSyncer(i, TRUE)), TRUE, TRUE)
  /\ UNCHANGED <<be, um, fw, ing, nodePort>>

readPorts(i) ==
  /\ At(i, "ports")
  /\ \E c \in Job[i].clusters : \E r \in ingToNodePorts(Job[i].spec, c) :
       Advance(i, [Goto(i, "igs") EXCEPT !.ports = r.ports], FALSE, r.fault)
  /\ UNCHANGED <<be, um, fw, ing, nodePort>>

(***************************************************************************)
(* getIGs waits for the annotations of the ingresses that exist, unless it *)
(* cannot read one.  A create goes on with the clusters it found, a remove *)
(* only with all of them; under --force it still updates the status.       *)
(***************************************************************************)
getIGs(i) ==
  /\ At(i, "igs")
  /\ \E found \in SUBSET {c \in Job[i].clusters : ing[c] # None /\ ing[c].igs # {}} :
     LET failed == found # Job[i].clusters
         fault == found # {c \in Job[i].clusters : ing[c] # None}
         all == {p \in NodePorts : proc[i].ports[p] # None} \cup {"fw", "um"}
         todo == CASE Job[i].op = "create" /\ found # {} -> all
                   [] Job[i].op = "remove" /\ ~failed -> all
                   [] Job[i].op = "remove" /\ failed /\ Job[i].force -> {"um"}
                   [] OTHER -> {}
     IN  Advance(i, [Goto(i, IF todo = {} THEN "done" ELSE "get") EXCEPT
                       !.igs = [c \in Clusters |->
                                  IF c \in found THEN ing[c].igs ELSE {}],
                       !.todo = todo],
                 failed, fault)
  /\ UNCHANGED <<be, um, fw, ing, nodePort>>

-----------------------------------------------------------------------------
\* The order of the calls: create ends with the firewall rule, remove begins
\* with it; the url map follows the backend services in both.
Precedes(op, k) ==
  CASE k = "fw" -> IF op = "create" THEN NodePorts \cup {"um"} ELSE {}
    [] k = "um" -> NodePorts \cup (IF op = "create" THEN {} ELSE {"fw"})
    [] k \in NodePorts -> IF op = "create" THEN {} ELSE {"fw"}

EnsuredServices(i) ==
  [s \in Services |->
     IF \E p \in proc[i].bes : proc[i].ports[p] = s
       THEN CHOOSE p \in proc[i].bes : proc[i].ports[p] = s ELSE None]

\* What a create wants to write.
Desired(i, k) ==
  CASE k = "fw" -> desiredFirewallRule(proc[i].ports, Known(i))
    [] k = "um" -> desiredURLMap(Job[i].spec, Job[i].clusters, EnsuredServices(i), 1)
    [] k \in NodePorts -> desiredBackendService(proc[i].ports[k], IGs(i))

\* What a remove makes of the resource it has read.
WithoutClusters(i, k, existing) ==
  CASE k = "fw" -> desiredFirewallRuleWithoutClusters(existing, Known(i))
    [] k = "um" -> desiredURLMapWithoutClusters(existing, Job[i].clusters)
    [] k \in NodePorts -> desiredBackendServiceWithoutClusters(existing, IGs(i))

\* Seeded fault: a missing backend service is not noticed.
NotComputableTagsOnly(i, k) == k = "fw" /\ None \in getTargetTags(Known(i))

\* The new resource cannot be computed, which is an error.
NotComputable(i, k) ==
  \/ k = "fw" /\ None \in getTargetTags(Known(i))
  \/ /\ k = "um" /\ Job[i].op = "create"
     /\ ingToURLMapFails(Job[i].spec, EnsuredServices(i))

Finish(i, e) ==
  LET s == [proc[i] EXCEPT !.todo = @ \ {proc[i].key}, !.key = None, !.seen = None]
  IN  [s EXCEPT !.at = IF s.todo = {} THEN AfterSyncer(i, s.err \/ e) ELSE "get"]

\* The Get.  A create takes every error for "not found".
get(i) ==
  /\ At(i, "get")
  /\ \E k \in proc[i].todo :
       /\ Precedes(Job[i].op, k) \cap proc[i].todo = {}
       /\ LET s == [Goto(i, "put") EXCEPT !.key = k]
          IN  \/ Advance(i, [s EXCEPT !.seen = Resource(k)], FALSE, FALSE)
              \/ Advance(i, s, FALSE, TRUE)
  /\ UNCHANGED <<be, um, fw, ing, nodePort>>

\* Seeded fault: the update of a backend service is sent with the fingerprint
\* it has at that moment.
fingerprintRefetched(k, read) ==
  IF k = "fw" THEN None ELSE IF k \in NodePorts THEN Resource(k) ELSE read

\* Seeded fault: the update of the url map is sent with the fingerprint it
\* has at that moment.
fingerprintOfCurrentMap(k, read) ==
  IF k = "fw" THEN None ELSE IF k = "um" THEN Resource(k) ELSE read

(***************************************************************************)
(* The fingerprint of what was read goes with an update of a backend       *)
(* service or the url map; firewall rules have none.  It is a hash of the  *)
(* content, so the content stands for it.                                  *)
(***************************************************************************)
fingerprint(k, read) == IF k = "fw" THEN None ELSE read

\* The cloud refuses an update with a fingerprint that is out of date.
update(k, fp, new) ==
  LET cur == Resource(k)
  IN  IF cur = None \/ (fp # None /\ fp # cur)
        THEN {Refused(cur)} \cup Faulty({cur})
        ELSE Call(cur, new)

insert(k, new) == Create(Resource(k), new)

ensure(i, k, seen) ==
  CASE NotComputable(i, k) -> {Refused(Resource(k))}
    [] ~NotComputable(i, k) /\ seen = None -> insert(k, Desired(i, k))
    [] ~NotComputable(i, k) /\ seen # None ->
         (CASE seen = Desired(i, k) -> {Ok(Resource(k))}
            [] seen # Desired(i, k) /\ Job[i].force ->
                 update(k, fingerprint(k, seen), Desired(i, k))
            [] OTHER -> {Refused(Resource(k))})

removeFrom(i, k, seen) ==
  IF seen = None \/ NotComputable(i, k) THEN {Refused(Resource(k))}
  ELSE update(k, fingerprint(k, seen), WithoutClusters(i, k, seen))

\* The write that follows the Get, if there is one.
put(i) ==
  /\ At(i, "put")
  /\ LET k == proc[i].key
         ended(o) == [Finish(i, o.err) EXCEPT
                        !.bes = IF k \in NodePorts /\ ~o.err THEN @ \cup {k} ELSE @]
     IN  \E o \in IF Job[i].op = "create" THEN ensure(i, k, proc[i].seen)
                                          ELSE removeFrom(i, k, proc[i].seen) :
           /\ Write(k, o.res)
           /\ Advance(i, ended(o), o.err, o.fault)
  /\ UNCHANGED <<ing, nodePort>>

deleteIngress(i) ==
  /\ At(i, "delIngress")
  /\ \E o \in DeleteIngress(Job[i].clusters) :
       /\ ing' = Results(o)
       /\ Advance(i, Goto(i, "done"), AnyErr(o), AnyFault(o))
  /\ UNCHANGED <<be, um, fw, nodePort>>

\* A process is killed.
Kill(i) ==
  /\ ~At(i, "done")
  /\ Advance(i, Goto(i, "done"), TRUE, TRUE)
  /\ UNCHANGED <<be, um, fw, ing, nodePort>>

\* The ingress-gce controller of cluster c (external).
Annotate(c) ==
  /\ ing[c] # None /\ ing[c].igs = {}
  /\ ing' = [ing EXCEPT ![c].igs = IGsOf[c]]
  /\ UNCHANGED <<be, um, fw, nodePort, proc, faults>>

Step(i) == \/ createIngress(i) \/ checkStatus(i) \/ readPorts(i) \/ getIGs(i)
           \/ get(i) \/ put(i) \/ deleteIngress(i)

AllDone == /\ \A i \in Procs : At(i, "done")
           /\ UNCHANGED vars

Next == \/ \E i \in Procs : Step(i) \/ Kill(i)
        \/ \E c \in Clusters : Annotate(c)
        \/ AllDone

Spec == Init /\ [][Next]_vars

-----------------------------------------------------------------------------
(***************************************************************************)
(* What concurrent commands may do to each other.                          *)
(***************************************************************************)

Succeeded(i) == At(i, "done") /\ ~proc[i].err
NoForcedCreate == \A i \in Procs : Job[i].op = "create" => ~Job[i].force

\* A step changes nothing but the clusters of process i.
OwnClustersOnly(i) ==
  /\ \A p \in NodePorts :
       \/ be'[p] = be[p]
       \/ be[p] # None /\ be'[p] = [be[p] EXCEPT !.igs = @ \ IGs(i)]
  /\ \/ um' = um
     \/ um # None /\ um' = [um EXCEPT !.st.clusters = @ \ Job[i].clusters]

(***************************************************************************)
(* RemovesTouchOwnClusters: a remove-clusters computes the new backend     *)
(* service and status from a copy it has read; whatever other commands     *)
(* have done since, its write only takes out its own clusters.  It neither *)
(* puts back what another remove took out nor drops what a create --force  *)
(* has added.                                                              *)
(***************************************************************************)
RemovesTouchOwnClusters ==
  [][\A i \in Procs :
       Job[i].op = "remove" /\ proc'[i] # proc[i] => OwnClustersOnly(i)]_vars

(***************************************************************************)
(* RemovesTakeEffect: whatever removes and unforced creates run beside it, *)
(* a remove-clusters that reports no error has taken its clusters out of   *)
(* the backend services of the ports it found and out of the status, for   *)
(* good.                                                                   *)
(***************************************************************************)
RemovesTakeEffect ==
  NoForcedCreate => \A i \in Procs : Job[i].op = "remove" /\ Succeeded(i) =>
    /\ \A p \in NodePorts : proc[i].ports[p] # None => be[p].igs \cap IGs(i) = {}
    /\ um.st.clusters \cap Job[i].clusters = {}

(***************************************************************************)
(* StatusTellsMembers: when all commands have returned without an error    *)
(* and have found all their services (a service that cannot be read is     *)
(* passed over without an error), the status lists the clusters whose      *)
(* instance groups the backend services have.                              *)
(***************************************************************************)
FoundServices(i) ==
  \A s \in ServicesOf(Job[i].spec) : \E p \in NodePorts : proc[i].ports[p] = s

StatusTellsMembers ==
  /\ NoForcedCreate /\ um # None
  /\ \A i \in Procs : Succeeded(i) /\ FoundServices(i)
  => \A p \in BackendServicesInUse :
       be[p].igs = UNION {IGsOf[c] : c \in um.st.clusters}

-----------------------------------------------------------------------------
(***************************************************************************)
(* A statement of the repository that the code does not keep.              *)
(***************************************************************************)

(***************************************************************************)
(* FirewallRemovesTakeEffect: RemoveFromClusters of the firewall syncer    *)
(* "removes the clusters corresponding to the given instance groups from   *)
(* the firewall rule".                                                     *)
(***************************************************************************)
FirewallRemovesTakeEffect ==
  NoForcedCreate => \A i \in Procs : Job[i].op = "remove" /\ Succeeded(i) =>
    fw.tags \cap getTargetTags(Job[i].clusters) = {}
=============================================================================
