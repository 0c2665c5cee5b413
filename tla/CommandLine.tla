---------------------------- MODULE CommandLine ----------------------------
(***************************************************************************)
(* From the command line to the ingress in the clusters.  A command finds  *)
(* out what to work on from its flags, the ingress file, the kubeconfig    *)
(* and gcloud, all of which may change between two commands; then create   *)
(* puts the ingress into one cluster after the other, and delete and       *)
(* remove-clusters take it out at the end.  Kubemci starts where this has  *)
(* succeeded; here the load balancer syncer is a call that may fail.       *)
(***************************************************************************)
EXTENDS CloudAPI, Naturals

CONSTANTS
  Clusters,         \* names of contexts
  Namespaces, DefaultNamespace,
  Classes, GceMultiIngressClass,
  Addresses,        \* names of static addresses
  Version,          \* [Clusters -> major, minor and patch]
  Files,            \* what the ingress file can hold
  Kubeconfigs,      \* the contexts that a kubeconfig can have
  Invocations,      \* command lines
  MaxFaults         \* bound on failed calls

VARIABLES
  file, contexts,   \* the ingress file, the contexts in the kubeconfig
  deployed,         \* cluster -> namespace -> the ingress of that name
  pc, cmd, err, why,  \* the running command; what made it stop at first
  ing, todo,        \* the ingress it works on, the clusters left
  made,             \* the last create, if it succeeded and nothing was edited since
  faults            \* number of faults so far (ghost)

vars == <<file, contexts, deployed, pc, cmd, err, why, ing, todo, made, faults>>
outside == <<file, contexts, deployed>>

\* No flag, no field.
FileType == [ns : Namespaces \cup {None}, class : Classes \cup {None},
             ip : Addresses \cup {None}]
IngressType == [ns : Namespaces, class : Classes, ip : Addresses \cup {None}]
InvocationType ==
  [op : {"create", "delete", "remove"}, args : Nat, ingress : BOOLEAN,
   kubeconfig : BOOLEAN, project : BOOLEAN, ns : Namespaces \cup {None},
   ip : Addresses \cup {None}, kubecontexts : SUBSET Clusters,
   force : BOOLEAN, validate : BOOLEAN]

ASSUME CommandLineAssumption ==
  /\ Files \subseteq FileType /\ Invocations \subseteq InvocationType
  /\ Kubeconfigs \subseteq (SUBSET Clusters) \ {{}}
  /\ Version \in [Clusters -> [major : Nat, minor : Nat, patch : Nat]]
  /\ DefaultNamespace \in Namespaces /\ GceMultiIngressClass \in Classes
  /\ MaxFaults \in Nat

\* None is not an ingress, and not a reason to stop.
ASSUME NoneOfCommandLine ==
  None \notin IngressType \cup {"args", "file", "clients", "version", "call", "syncer"}

(***************************************************************************)
(* CommandLineTypeOK: the flags, the file and the defaults always make up  *)
(* a complete ingress for the calls to the clusters.                       *)
(***************************************************************************)
CommandLineTypeOK ==
  /\ file \in Files /\ contexts \in Kubeconfigs
  /\ deployed \in [Clusters -> [Namespaces -> IngressType \cup {None}]]
  /\ pc \in {"idle", "args", "file", "clients", "version", "ensure", "syncer",
             "delete", "done"}
  /\ cmd \in Invocations \cup {None}
  /\ ing \in IngressType \cup {None}
  /\ todo \subseteq Clusters
  /\ err \in BOOLEAN /\ faults \in 0..MaxFaults
  /\ made \in [cmd : Invocations, ing : IngressType] \cup {None}

Init == /\ file \in Files /\ contexts \in Kubeconfigs
        /\ deployed = [c \in Clusters |-> [n \in Namespaces |-> None]]
        /\ pc = "idle" /\ cmd = None /\ err = FALSE /\ why = None
        /\ ing = None /\ todo = {} /\ made = None /\ faults = 0

-----------------------------------------------------------------------------
\* The command goes on at next, or stops because of an error e.
Continue(next, e) ==
  /\ pc' = IF e THEN "done" ELSE next
  /\ err' = e
  /\ why' = IF e THEN pc ELSE why
  /\ UNCHANGED <<outside, cmd, made>>

\* A call to the outside fails, and with it the command.
CallFails ==
  /\ faults < MaxFaults /\ faults' = faults + 1
  /\ pc' = "done" /\ err' = TRUE /\ why' = "call"
  /\ UNCHANGED <<outside, cmd, made>>

Run(i) ==
  /\ pc = "idle"
  /\ pc' = "args" /\ cmd' = i
  /\ UNCHANGED <<outside, err, why, ing, todo, made, faults>>

\* validateCreateArgs and its like; without --gcp-project, gcloud is asked.
validateArgs ==
  /\ pc = "args"
  /\ \E gcloud \in BOOLEAN :
       Continue("file", ~(/\ cmd.args = 1 /\ cmd.ingress
                          /\ cmd.project \/ gcloud
                          /\ cmd.kubeconfig))
  /\ UNCHANGED <<ing, todo, faults>>

\* Seeded fault: the flag wins over the file.
UnmarshallFlagWins(f, ns) ==
  IF f.class \notin {None, GceMultiIngressClass}
    THEN {Refused(None)}
    ELSE {Ok([ns |-> IF ns # None THEN ns
                     ELSE IF f.ns # None THEN f.ns ELSE DefaultNamespace,
              class |-> GceMultiIngressClass, ip |-> f.ip])}

\* Seeded fault: no namespace is not defaulted.
UnmarshallWithoutDefault(f, ns) ==
  IF (None \notin {f.ns, ns} /\ f.ns # ns) \/ f.class \notin {None, GceMultiIngressClass}
    THEN {Refused(None)}
    ELSE {Ok([ns |-> IF f.ns # None THEN f.ns ELSE ns,
              class |-> GceMultiIngressClass, ip |-> f.ip])}

\* The namespace of the file, else of the flag, else the default one; a flag
\* or a class that contradicts the file is an error.
UnmarshallAndApplyDefaults(f, ns) ==
  IF (None \notin {f.ns, ns} /\ f.ns # ns) \/ f.class \notin {None, GceMultiIngressClass}
    THEN {Refused(None)}
    ELSE {Ok([ns |-> IF f.ns # None THEN f.ns
                     ELSE IF ns # None THEN ns ELSE DefaultNamespace,
              class |-> GceMultiIngressClass, ip |-> f.ip])}

\* The same for the address, which create needs.
ApplyStaticIP(i, ip) ==
  IF {i.ip, ip} = {None} \/ (None \notin {i.ip, ip} /\ i.ip # ip)
    THEN {Refused(None)}
    ELSE {Ok([i EXCEPT !.ip = IF i.ip = None THEN ip ELSE i.ip])}

readFile ==
  /\ pc = "file"
  /\ \/ /\ \E u \in UnmarshallAndApplyDefaults(file, cmd.ns) :
             \E o \in IF u.err \/ cmd.op # "create" THEN {u} ELSE ApplyStaticIP(u.res, cmd.ip) :
               /\ ing' = o.res
               /\ Continue("clients", o.err)
        /\ UNCHANGED faults
     \/ CallFails /\ UNCHANGED ing
  /\ UNCHANGED todo

(***************************************************************************)
(* GetClients: without --kubecontexts, all contexts of the kubeconfig; a   *)
(* context that is not in it is an error, and so is one for which no       *)
(* client can be made, or no cloud interface before that.                  *)
(***************************************************************************)
GetClients ==
  /\ pc = "clients"
  /\ LET wanted == IF cmd.kubecontexts = {} THEN contexts ELSE cmd.kubecontexts
         next == CASE cmd.op = "create" /\ cmd.validate -> "version"
                   [] cmd.op = "create" /\ ~cmd.validate -> "ensure"
                   [] OTHER -> "syncer"
     IN  \/ /\ todo' = wanted
            /\ Continue(next, ~(wanted \subseteq contexts))
            /\ UNCHANGED faults
         \/ CallFails /\ UNCHANGED todo
  /\ UNCHANGED ing

\* Seeded fault: the patch version is compared first.
serverVersionNewEnoughByPatch(v) ==
  /\ v.patch >= 1
  /\ v.major > 1 \/ (v.major = 1 /\ v.minor >= 8)

serverVersionNewEnough(v) ==
  /\ ~(v.major = 1 /\ v.minor = 10 /\ v.patch = 0)
  /\ \/ v.major > 1
     \/ v.major = 1 /\ v.minor > 8
     \/ v.major = 1 /\ v.minor = 8 /\ v.patch >= 1

\* Validate, but for the node ports, which IngressSyncer has.
serverVersionsNewEnough ==
  /\ pc = "version"
  /\ \/ /\ Continue("ensure", \E c \in todo : ~serverVersionNewEnough(Version[c]))
        /\ UNCHANGED faults
     \/ CallFails
  /\ UNCHANGED <<ing, todo>>

-----------------------------------------------------------------------------
\* One call for cluster c, with outcome o; errors do not end the loop.
Deploy(c, o) ==
  /\ o.fault => faults < MaxFaults
  /\ faults' = IF o.fault THEN faults + 1 ELSE faults
  /\ deployed' = [deployed EXCEPT ![c][ing.ns] = o.res]
  /\ err' = (err \/ o.err)
  /\ todo' = todo \ {c}
  /\ UNCHANGED <<file, contexts, pc, cmd, why, ing, made>>

ensureIngress(c) ==
  /\ pc = "ensure" /\ c \in todo
  /\ LET cur == deployed[c][ing.ns]
     IN  \E o \in Ensure(cur, Create(None, ing), cur = ing, cmd.force, Call(cur, ing)) :
           Deploy(c, o)

\* Seeded fault: the loop ends at the first cluster without the ingress.
deleteIngressWhileFound(c) ==
  /\ pc = "delete" /\ c \in todo
  /\ \E o \in Delete(deployed[c][ing.ns], FALSE) :
       /\ o.fault => faults < MaxFaults
       /\ faults' = IF o.fault THEN faults + 1 ELSE faults
       /\ deployed' = [deployed EXCEPT ![c][ing.ns] = o.res]
       /\ err' = (err \/ o.err)
       /\ todo' = IF deployed[c][ing.ns] = None THEN {} ELSE todo \ {c}
       /\ UNCHANGED <<file, contexts, pc, cmd, why, ing, made>>

deleteIngress(c) ==
  /\ pc = "delete" /\ c \in todo
  /\ \E o \in Delete(deployed[c][ing.ns], FALSE) : Deploy(c, o)

\* The load balancer is created (after all ingresses), deleted or changed; it
\* may fail.  todo is needed again for the ingresses to delete.
loadBalancerSyncer ==
  /\ \/ pc = "syncer"
     \/ pc = "ensure" /\ todo = {} /\ ~err
  /\ \E e \in BOOLEAN :
       /\ e => faults < MaxFaults
       /\ faults' = IF e THEN faults + 1 ELSE faults
       /\ err' = e
       /\ why' = IF e THEN "syncer" ELSE why
       /\ pc' = IF cmd.op = "create" \/ (e /\ ~cmd.force) THEN "done" ELSE "delete"
  /\ UNCHANGED <<outside, cmd, ing, todo, made>>

\* The ingress could not be ensured or has been deleted in all clusters.
endOfClusters ==
  /\ todo = {} /\ \/ pc = "ensure" /\ err
                  \/ pc = "delete"
  /\ pc' = "done"
  /\ UNCHANGED <<outside, cmd, err, why, ing, todo, made, faults>>

Return ==
  /\ pc = "done"
  /\ made' = CASE cmd.op # "create" -> made
                [] cmd.op = "create" /\ ~err -> [cmd |-> cmd, ing |-> ing]
                [] cmd.op = "create" /\ err -> None
  /\ pc' = "idle" /\ cmd' = None /\ err' = FALSE /\ why' = None
  /\ ing' = None /\ todo' = {}
  /\ UNCHANGED <<outside, faults>>

\* The user edits the file, or the kubeconfig.
Edit ==
  /\ pc = "idle"
  /\ \/ file' \in Files \ {file} /\ UNCHANGED contexts
     \/ contexts' \in Kubeconfigs \ {contexts} /\ UNCHANGED file
  /\ made' = None
  /\ UNCHANGED <<deployed, pc, cmd, err, why, ing, todo, faults>>

Next == \/ \E i \in Invocations : Run(i)
        \/ validateArgs \/ readFile \/ GetClients \/ serverVersionsNewEnough
        \/ \E c \in Clusters : ensureIngress(c) \/ deleteIngress(c)
        \/ loadBalancerSyncer \/ endOfClusters \/ Return
        \/ Edit

Spec == Init /\ [][Next]_vars

-----------------------------------------------------------------------------
\* A field of the file and a flag, if they are given, say v.
Says(field, flag, v) == field \in {None, v} /\ flag \in {None, v}

(***************************************************************************)
(* TouchesOnlyAsked: whatever the file, the flags and the kubeconfig say,  *)
(* a command never creates, changes or deletes an ingress in a namespace   *)
(* or in a cluster that contradicts one of them, and never deploys one     *)
(* with another address or class.                                          *)
(***************************************************************************)
TouchesOnlyAsked ==
  [][\A c \in Clusters, n \in Namespaces :
       deployed'[c][n] # deployed[c][n] =>
         /\ Says(file.ns, cmd.ns, n)
         /\ c \in contexts
         /\ cmd.kubecontexts = {} \/ c \in cmd.kubecontexts
         /\ deployed'[c][n] # None =>
              /\ deployed'[c][n].class = GceMultiIngressClass
              /\ deployed'[c][n].ip # None /\ Says(file.ip, cmd.ip, deployed'[c][n].ip)]_vars

(***************************************************************************)
(* DeleteUndoesCreate: a delete with the flags of the last create, which   *)
(* had succeeded, leaves the ingress in no cluster if it reports no error, *)
(* however far deletes and removes that failed before have come.           *)
(***************************************************************************)
DeleteUndoesCreate ==
  /\ pc = "done" /\ cmd.op = "delete" /\ ~err
  /\ made # None
  /\ made.cmd.ns = cmd.ns /\ made.cmd.kubecontexts = cmd.kubecontexts
  => \A c \in IF cmd.kubecontexts = {} THEN contexts ELSE cmd.kubecontexts :
       deployed[c][made.ing.ns] = None

(***************************************************************************)
(* SupportedVersions: a create with validation stops at the version check  *)
(* exactly if some cluster runs an unsupported version: one before 1.8.1,  *)
(* or 1.10.0 ("Need >= 1.8.1 and not 1.10.0").                             *)
(***************************************************************************)
Before181(v) == \/ v.major < 1
                \/ v.major = 1 /\ v.minor < 8
                \/ v.major = 1 /\ v.minor = 8 /\ v.patch < 1
Unsupported(v) == Before181(v) \/ v = [major |-> 1, minor |-> 10, patch |-> 0]

SupportedVersions ==
  /\ pc \in {"ensure", "syncer"} /\ cmd.op = "create" /\ cmd.validate =>
       \A c \in todo : ~Unsupported(Version[c])
  /\ pc = "done" /\ why = "version" => \E c \in todo : Unsupported(Version[c])
=============================================================================
