-------------------------- MODULE CommandLineProofs --------------------------
(***************************************************************************)
(* The properties of CommandLine, for all clusters, versions, files,       *)
(* kubeconfigs, command lines and any number of faults.                    *)
(*                                                                         *)
(* The reads of the file and of the kubeconfig are long behind when the    *)
(* clusters are called.  CommandKnows says what each step has of them, and *)
(* MadeAsRead that the last create had its namespace from the same file.   *)
(***************************************************************************)
EXTENDS CommandLine, CloudAPIProofs

\* The clusters that the running command is for.
Wanted == IF cmd.kubecontexts = {} THEN contexts ELSE cmd.kubecontexts

\* The namespace that a file and a flag ask for, if they do not disagree.
NamespaceOf(f, ns) ==
  IF f.ns # None THEN f.ns ELSE IF ns # None THEN ns ELSE DefaultNamespace

\* What a command knows of its ingress once it has read the file.
KnowsIngress ==
  /\ ing \in IngressType /\ ing.class = GceMultiIngressClass
  /\ ing.ns = NamespaceOf(file, cmd.ns) /\ Says(file.ns, cmd.ns, ing.ns)
  /\ cmd.op = "create" => ing.ip # None /\ Says(file.ip, cmd.ip, ing.ip)

\* What it knows of its clusters once it has the clients.
KnowsClusters == todo \subseteq Wanted /\ Wanted \subseteq contexts

\* A delete has dealt with the clusters that are not left.
DeletedSoFar == \A c \in Wanted \ todo : deployed[c][ing.ns] = None

CommandKnows ==
  /\ pc # "idle" => cmd \in Invocations
  /\ pc \in {"clients", "version", "ensure", "syncer", "delete"} => KnowsIngress
  /\ pc \in {"version", "ensure", "syncer", "delete"} => KnowsClusters
  /\ pc = "syncer" => todo = Wanted
  /\ pc \in {"version", "ensure"} => cmd.op = "create"
  /\ pc \in {"syncer", "delete"} => cmd.op # "create"
  /\ pc = "delete" /\ ~err => DeletedSoFar
  /\ pc = "done" /\ ~err => KnowsIngress /\ KnowsClusters
  /\ pc = "done" /\ ~err /\ cmd.op # "create" => todo = {} /\ DeletedSoFar

MadeAsRead == made # None => made.ing.ns = NamespaceOf(file, made.cmd.ns)

\* A command that has validated its clusters; why another one has stopped.
Validated ==
  /\ pc = "ensure" /\ cmd.validate => \A c \in todo : ~Unsupported(Version[c])
  /\ why = "version" => pc = "done" /\ \E c \in todo : Unsupported(Version[c])

CommandLineInv == CommandLineTypeOK /\ CommandKnows /\ MadeAsRead /\ Validated

-----------------------------------------------------------------------------
\* The constants, as the proofs use them.
LEMMA CommandLineTypes ==
  /\ \A f \in Files : f \in FileType
  /\ \A i \in Invocations : i \in InvocationType
  /\ \A k \in Kubeconfigs : k \subseteq Clusters
  /\ \A c \in Clusters : Version[c] \in [major : Nat, minor : Nat, patch : Nat]
BY CommandLineAssumption

(***************************************************************************)
(* serverVersionNewEnough accepts the supported versions.                  *)
(***************************************************************************)
LEMMA NewEnough ==
  ASSUME NEW v \in [major : Nat, minor : Nat, patch : Nat]
  PROVE  serverVersionNewEnough(v) <=> ~Unsupported(v)
<1>1. v = [major |-> 1, minor |-> 10, patch |-> 0]
        <=> v.major = 1 /\ v.minor = 10 /\ v.patch = 0
  OBVIOUS
<1>2. v.major \in Nat /\ v.minor \in Nat /\ v.patch \in Nat
  OBVIOUS
<1> QED BY <1>1, <1>2 DEF serverVersionNewEnough, Unsupported, Before181

(***************************************************************************)
(* UnmarshallAndApplyDefaults takes namespace, class and address from the  *)
(* file, the flag and the defaults.                                        *)
(***************************************************************************)
LEMMA Unmarshalled ==
  ASSUME NEW f \in FileType, NEW ns \in Namespaces \cup {None},
         NEW u \in UnmarshallAndApplyDefaults(f, ns)
  PROVE  /\ u.err \in BOOLEAN
         /\ u.err => u.res = None
         /\ ~u.err => /\ u.res \in IngressType
                      /\ u.res.ns = NamespaceOf(f, ns) /\ Says(f.ns, ns, u.res.ns)
                      /\ u.res.class = GceMultiIngressClass
                      /\ u.res.ip = f.ip
<1> DEFINE i == [ns |-> NamespaceOf(f, ns), class |-> GceMultiIngressClass, ip |-> f.ip]
           bad == (None \notin {f.ns, ns} /\ f.ns # ns)
                    \/ f.class \notin {None, GceMultiIngressClass}
<1>1. u = IF bad THEN Refused(None) ELSE Ok(i)
  BY DEF UnmarshallAndApplyDefaults, NamespaceOf
<1>2. i \in IngressType
  BY CommandLineAssumption DEF IngressType, FileType, NamespaceOf
<1>3. ~bad => Says(f.ns, ns, i.ns)
  BY DEF Says, NamespaceOf
<1>4. i.ns = NamespaceOf(f, ns) /\ i.class = GceMultiIngressClass /\ i.ip = f.ip
  OBVIOUS
<1> HIDE DEF i, bad
<1>5. CASE bad
  BY <1>1, <1>5 DEF Refused
<1>6. CASE ~bad
  BY <1>1, <1>2, <1>3, <1>4, <1>6 DEF Ok
<1> QED BY <1>5, <1>6

(***************************************************************************)
(* ApplyStaticIP takes the address from the file or the flag.              *)
(***************************************************************************)
LEMMA Addressed ==
  ASSUME NEW i \in IngressType, NEW ip \in Addresses \cup {None},
         NEW o \in ApplyStaticIP(i, ip)
  PROVE  /\ o.err \in BOOLEAN
         /\ o.err => o.res = None
         /\ ~o.err => /\ o.res \in IngressType
                      /\ o.res.ns = i.ns /\ o.res.class = i.class
                      /\ o.res.ip # None /\ Says(i.ip, ip, o.res.ip)
<1> DEFINE j == [i EXCEPT !.ip = IF i.ip = None THEN ip ELSE i.ip]
           bad == {i.ip, ip} = {None} \/ (None \notin {i.ip, ip} /\ i.ip # ip)
<1>1. o = IF bad THEN Refused(None) ELSE Ok(j)
  BY DEF ApplyStaticIP
<1>2. j \in IngressType /\ j.ns = i.ns /\ j.class = i.class
  BY DEF IngressType
<1>3. j.ip = IF i.ip = None THEN ip ELSE i.ip
  BY DEF IngressType
<1>4. ~bad => j.ip # None /\ Says(i.ip, ip, j.ip)
  BY <1>3 DEF Says
<1> HIDE DEF j, bad
<1>5. CASE bad
  BY <1>1, <1>5 DEF Refused
<1>6. CASE ~bad
  BY <1>1, <1>2, <1>4, <1>6 DEF Ok
<1> QED BY <1>5, <1>6

\* What the outcome of readFile is for the step that follows.
IngressRead(f, i, o) ==
  /\ o.res \in IngressType /\ o.res.class = GceMultiIngressClass
  /\ o.res.ns = NamespaceOf(f, i.ns) /\ Says(f.ns, i.ns, o.res.ns)
  /\ i.op = "create" => o.res.ip # None /\ Says(f.ip, i.ip, o.res.ip)

LEMMA FileRead ==
  ASSUME NEW f \in FileType, NEW i \in InvocationType,
         NEW u \in UnmarshallAndApplyDefaults(f, i.ns),
         NEW o \in IF u.err \/ i.op # "create" THEN {u} ELSE ApplyStaticIP(u.res, i.ip)
  PROVE  /\ o.err \in BOOLEAN
         /\ o.err => o.res = None
         /\ ~o.err => IngressRead(f, i, o)
<1>1. i.ns \in Namespaces \cup {None} /\ i.ip \in Addresses \cup {None}
  BY DEF InvocationType
<1>2. /\ u.err \in BOOLEAN
      /\ u.err => u.res = None
      /\ ~u.err => /\ u.res \in IngressType
                   /\ u.res.ns = NamespaceOf(f, i.ns) /\ Says(f.ns, i.ns, u.res.ns)
                   /\ u.res.class = GceMultiIngressClass
                   /\ u.res.ip = f.ip
  BY <1>1, Unmarshalled
<1>3. CASE u.err \/ i.op # "create"
  BY <1>2, <1>3 DEF IngressRead
<1>4. CASE ~u.err /\ i.op = "create"
  <2>1. u.res \in IngressType /\ o \in ApplyStaticIP(u.res, i.ip)
    BY <1>2, <1>4
  <2>2. /\ o.err \in BOOLEAN
        /\ o.err => o.res = None
        /\ ~o.err => /\ o.res \in IngressType
                     /\ o.res.ns = u.res.ns /\ o.res.class = u.res.class
                     /\ o.res.ip # None /\ Says(u.res.ip, i.ip, o.res.ip)
    BY <1>1, <2>1, Addressed
  <2> QED BY <1>2, <1>4, <2>2 DEF IngressRead
<1> QED BY <1>2, <1>3, <1>4

-----------------------------------------------------------------------------
(***************************************************************************)
(* CommandLineInv is inductive: one lemma for each action.                 *)
(***************************************************************************)
LEMMA InitCommandLine == Init => CommandLineInv
<1> SUFFICES ASSUME Init PROVE CommandLineInv
  OBVIOUS
<1> USE DEF Init
<1>1. None \notin IngressType /\ None # "version"
  BY NoneOfCommandLine
<1>2. CommandLineTypeOK
  <2>1. deployed \in [Clusters -> [Namespaces -> IngressType \cup {None}]]
    OBVIOUS
  <2>2. faults \in 0..MaxFaults
    BY CommandLineAssumption
  <2> QED BY <2>1, <2>2 DEF CommandLineTypeOK
<1>3. CommandKnows /\ MadeAsRead /\ Validated
  BY <1>1 DEF CommandKnows, MadeAsRead, Validated
<1> QED BY <1>2, <1>3 DEF CommandLineInv

LEMMA RunKeeps ==
  ASSUME CommandLineInv, NEW i \in Invocations, Run(i)
  PROVE  CommandLineInv'
<1> USE DEF CommandLineInv, Run, outside
<1>1. CommandLineTypeOK'
  BY DEF CommandLineTypeOK
<1>2. CommandKnows'
  BY DEF CommandKnows
<1>3. MadeAsRead' /\ Validated'
  BY DEF MadeAsRead, NamespaceOf, Validated
<1> QED BY <1>1, <1>2, <1>3

\* A command that stops because of an error.
LEMMA StopKeeps ==
  ASSUME CommandLineInv, pc # "idle", pc' = "done", err' = TRUE, why' # "version",
         UNCHANGED <<outside, cmd, made>>,
         ing' \in IngressType \cup {None}, todo' \subseteq Clusters,
         faults' \in 0..MaxFaults
  PROVE  CommandLineInv'
<1> USE DEF CommandLineInv, outside
<1>1. CommandLineTypeOK'
  BY DEF CommandLineTypeOK
<1>2. CommandKnows'
  BY DEF CommandKnows
<1>3. MadeAsRead' /\ Validated'
  BY DEF MadeAsRead, NamespaceOf, Validated
<1> QED BY <1>1, <1>2, <1>3

LEMMA CallFailsKeeps ==
  ASSUME CommandLineInv, pc # "idle", CallFails, UNCHANGED <<ing, todo>>
  PROVE  CommandLineInv'
<1>1. faults' \in 0..MaxFaults
  BY CommandLineAssumption DEF CallFails, CommandLineInv, CommandLineTypeOK
<1>2. ing' \in IngressType \cup {None} /\ todo' \subseteq Clusters
  BY DEF CommandLineInv, CommandLineTypeOK
<1> QED BY <1>1, <1>2, StopKeeps DEF CallFails

LEMMA ArgsKeep ==
  ASSUME CommandLineInv, validateArgs
  PROVE  CommandLineInv'
<1> USE DEF CommandLineInv, validateArgs, Continue
<1>1. pc = "args" /\ ing' \in IngressType \cup {None} /\ todo' \subseteq Clusters
      /\ faults' \in 0..MaxFaults /\ UNCHANGED <<outside, cmd, made>>
  BY DEF CommandLineTypeOK
<1>2. CASE pc' = "done" /\ err' = TRUE /\ why' = "args"
  BY <1>1, <1>2, StopKeeps
<1>3. CASE pc' = "file" /\ err' = FALSE /\ why' = why
  <2>1. CommandLineTypeOK'
    BY <1>1, <1>3 DEF CommandLineTypeOK, outside
  <2>2. CommandKnows'
    BY <1>1, <1>3 DEF CommandKnows
  <2>3. MadeAsRead' /\ Validated'
    BY <1>1, <1>3 DEF MadeAsRead, NamespaceOf, Validated, outside
  <2> QED BY <2>1, <2>2, <2>3
<1> QED BY <1>1, <1>2, <1>3

LEMMA FileKeeps ==
  ASSUME CommandLineInv, readFile
  PROVE  CommandLineInv'
<1> USE DEF CommandLineInv
<1>1. pc = "file" /\ todo' = todo /\ todo \subseteq Clusters
      /\ file \in FileType /\ cmd \in InvocationType /\ cmd \in Invocations
  BY CommandLineTypes DEF readFile, CommandLineTypeOK, CommandKnows
<1>2. CASE CallFails /\ UNCHANGED ing
  BY <1>1, <1>2, CallFailsKeeps
<1>3. ASSUME NEW u \in UnmarshallAndApplyDefaults(file, cmd.ns),
             NEW o \in IF u.err \/ cmd.op # "create" THEN {u} ELSE ApplyStaticIP(u.res, cmd.ip),
             ing' = o.res, Continue("clients", o.err), UNCHANGED faults
      PROVE  CommandLineInv'
  <2>1. /\ o.err \in BOOLEAN
        /\ o.err => o.res = None
        /\ ~o.err => IngressRead(file, cmd, o)
    BY <1>1, FileRead
  <2>2. faults' \in 0..MaxFaults /\ UNCHANGED <<outside, cmd, made>>
    BY <1>3 DEF CommandLineTypeOK, Continue
  <2>3. CASE o.err
    <3>1. pc' = "done" /\ err' = TRUE /\ why' = "file"
      BY <1>1, <1>3, <2>1, <2>3 DEF Continue
    <3>2. ing' \in IngressType \cup {None} /\ todo' \subseteq Clusters
      BY <1>1, <1>3, <2>1, <2>3
    <3> QED BY <1>1, <2>2, <3>1, <3>2, StopKeeps
  <2>4. CASE ~o.err
    <3>1. pc' = "clients" /\ err' = FALSE /\ why' = why
      BY <1>3, <2>1, <2>4 DEF Continue
    <3>2. KnowsIngress'
      BY <1>3, <2>1, <2>2, <2>4 DEF IngressRead, KnowsIngress, NamespaceOf, Says, outside
    <3>3. CommandLineTypeOK'
      BY <1>1, <2>2, <3>1, <3>2 DEF CommandLineTypeOK, outside, KnowsIngress
    <3>4. CommandKnows'
      BY <1>1, <2>2, <3>1, <3>2 DEF CommandKnows
    <3>5. MadeAsRead' /\ Validated'
      BY <1>1, <2>2, <3>1 DEF MadeAsRead, NamespaceOf, Validated, outside
    <3> QED BY <3>3, <3>4, <3>5
  <2> QED BY <2>1, <2>3, <2>4
<1> QED BY <1>1, <1>2, <1>3 DEF readFile

LEMMA ClientsKeep ==
  ASSUME CommandLineInv, GetClients
  PROVE  CommandLineInv'
<1> USE DEF CommandLineInv
<1> DEFINE next == CASE cmd.op = "create" /\ cmd.validate -> "version"
                     [] cmd.op = "create" /\ ~cmd.validate -> "ensure"
                     [] OTHER -> "syncer"
<1>1. pc = "clients" /\ ing' = ing /\ cmd \in InvocationType /\ cmd \in Invocations
      /\ contexts \subseteq Clusters /\ KnowsIngress
  BY CommandLineTypes DEF GetClients, CommandLineTypeOK, CommandKnows
<1>2. Wanted \subseteq Clusters
  BY <1>1 DEF Wanted, InvocationType
<1>3. CASE CallFails /\ UNCHANGED todo
  BY <1>1, <1>3, CallFailsKeeps
<1>4. CASE todo' = Wanted /\ Continue(next, ~(Wanted \subseteq contexts)) /\ UNCHANGED faults
  <2>1. faults' \in 0..MaxFaults /\ UNCHANGED <<outside, cmd, made>>
    BY <1>4 DEF CommandLineTypeOK, Continue
  <2>2. CASE ~(Wanted \subseteq contexts)
    <3>1. pc' = "done" /\ err' = TRUE /\ why' = "clients"
      BY <1>1, <1>4, <2>2 DEF Continue
    <3>2. ing' \in IngressType \cup {None} /\ todo' \subseteq Clusters
      BY <1>1, <1>2, <1>4 DEF CommandLineTypeOK
    <3> QED BY <1>1, <2>1, <3>1, <3>2, StopKeeps
  <2>3. CASE Wanted \subseteq contexts
    <3>1. /\ pc' = next /\ err' = FALSE /\ why' = why
          /\ cmd.op \in {"create", "delete", "remove"} /\ cmd.validate \in BOOLEAN
      BY <1>1, <1>4, <2>3 DEF Continue, InvocationType
    <3>2. \/ pc' = "version" /\ cmd.op = "create" /\ cmd.validate
          \/ pc' = "ensure" /\ cmd.op = "create" /\ ~cmd.validate
          \/ pc' = "syncer" /\ cmd.op # "create"
      BY <3>1
    <3>3. Wanted' = Wanted /\ KnowsIngress' /\ KnowsClusters'
      BY <1>1, <1>4, <2>1, <2>3
      DEF Wanted, KnowsIngress, KnowsClusters, outside, NamespaceOf, Says
    <3>4. CommandLineTypeOK'
      BY <1>1, <1>2, <1>4, <2>1, <3>1, <3>2 DEF CommandLineTypeOK, outside
    <3>5. CommandKnows'
      BY <1>1, <1>4, <2>1, <3>1, <3>2, <3>3 DEF CommandKnows
    <3>6. MadeAsRead' /\ Validated'
      BY <1>1, <2>1, <3>1, <3>2 DEF MadeAsRead, NamespaceOf, Validated, outside
    <3> QED BY <3>4, <3>5, <3>6
  <2> QED BY <2>2, <2>3
<1> QED BY <1>1, <1>3, <1>4 DEF GetClients, Wanted

LEMMA VersionsKeep ==
  ASSUME CommandLineInv, serverVersionsNewEnough
  PROVE  CommandLineInv'
<1> USE DEF CommandLineInv
<1> DEFINE old == \E c \in todo : ~serverVersionNewEnough(Version[c])
<1>1. pc = "version" /\ ing' = ing /\ todo' = todo /\ todo \subseteq Clusters
  BY DEF serverVersionsNewEnough, CommandLineTypeOK
<1>2. old <=> \E c \in todo : Unsupported(Version[c])
  BY <1>1, CommandLineTypes, NewEnough
<1>3. CASE CallFails
  BY <1>1, <1>3, CallFailsKeeps
<1>4. CASE Continue("ensure", old) /\ UNCHANGED faults
  <2>1. faults' = faults /\ UNCHANGED <<outside, cmd, made>>
    BY <1>4 DEF Continue
  <2>2. /\ pc' = IF old THEN "done" ELSE "ensure"
        /\ err' = old /\ why' = IF old THEN "version" ELSE why
    BY <1>1, <1>4 DEF Continue
  <2> HIDE DEF old
  <2>3. CommandLineTypeOK'
    <3>1. old \in BOOLEAN BY DEF old
    <3> QED BY <1>1, <2>1, <2>2, <3>1 DEF CommandLineTypeOK, outside
  <2>4. CommandKnows'
    BY <1>1, <2>1, <2>2
    DEF CommandKnows, KnowsIngress, KnowsClusters, Wanted, outside, NamespaceOf, Says
  <2>5. MadeAsRead'
    BY <2>1 DEF MadeAsRead, NamespaceOf, outside
  <2>6. Validated'
    BY <1>1, <1>2, <2>1, <2>2 DEF Validated
  <2> QED BY <2>3, <2>4, <2>5, <2>6
<1> QED BY <1>3, <1>4 DEF serverVersionsNewEnough

(***************************************************************************)
(* A call for one cluster leaves the ingress as it is, or as asked.        *)
(***************************************************************************)
LEMMA EnsuredIngress ==
  ASSUME NEW cur \in IngressType \cup {None}, NEW i \in IngressType, NEW force \in BOOLEAN,
         NEW o \in Ensure(cur, Create(None, i), cur = i, force, Call(cur, i))
  PROVE  o \in Outcomes({cur, i})
<1>1. EnsureEnds(cur, i, force, o)
  BY DEF EnsureEnds, Ensure
<1> QED BY <1>1, NoneOfCommandLine, EnsureOutcome

LEMMA DeletedIngress ==
  ASSUME NEW cur, NEW o \in Delete(cur, FALSE)
  PROVE  o \in Outcomes({cur, None}) /\ (~o.err => o.res = None)
<1>1. o \in Call(cur, None)
  BY DEF Delete
<1> QED BY <1>1, CallOutcome

\* What a call for a cluster leaves of the variables.
LEMMA DeployTypes ==
  ASSUME CommandLineInv, NEW c \in Clusters, ing \in IngressType,
         NEW o \in Outcomes(IngressType \cup {None}), Deploy(c, o)
  PROVE  /\ CommandLineTypeOK'
         /\ deployed'[c][ing.ns] = o.res
         /\ \A d \in Clusters, n \in Namespaces :
              d # c \/ n # ing.ns => deployed'[d][n] = deployed[d][n]
<1> USE DEF CommandLineInv, CommandLineTypeOK
<1>1. ing.ns \in Namespaces
  BY DEF IngressType
<1>2. o.res \in IngressType \cup {None} /\ o.err \in BOOLEAN /\ o.fault \in BOOLEAN
  BY DEF Outcomes
<1>3. /\ deployed' \in [Clusters -> [Namespaces -> IngressType \cup {None}]]
      /\ deployed'[c][ing.ns] = o.res
      /\ \A d \in Clusters, n \in Namespaces :
           d # c \/ n # ing.ns => deployed'[d][n] = deployed[d][n]
  BY <1>1, <1>2 DEF Deploy
<1>4. faults' \in 0..MaxFaults
  BY <1>2, CommandLineAssumption DEF Deploy
<1> QED BY <1>2, <1>3, <1>4 DEF Deploy

LEMMA EnsureKeeps ==
  ASSUME CommandLineInv, NEW c \in Clusters, ensureIngress(c)
  PROVE  CommandLineInv'
<1> USE DEF CommandLineInv
<1> DEFINE cur == deployed[c][ing.ns]
<1>1. pc = "ensure" /\ c \in todo /\ ing \in IngressType /\ cmd \in InvocationType
  BY CommandLineTypes DEF ensureIngress, CommandKnows, KnowsIngress
<1>2. cur \in IngressType \cup {None}
  BY <1>1 DEF CommandLineTypeOK, IngressType
<1>3. PICK o \in Ensure(cur, Create(None, ing), cur = ing, cmd.force, Call(cur, ing)) :
        Deploy(c, o)
  BY DEF ensureIngress
<1>4. o \in Outcomes(IngressType \cup {None})
  <2>1. cmd.force \in BOOLEAN
    BY <1>1 DEF InvocationType
  <2>2. o \in Outcomes({cur, ing})
    BY <1>1, <1>2, <2>1, EnsuredIngress
  <2> HIDE DEF cur
  <2> QED BY <1>1, <1>2, <2>2, WiderOutcome
<1>5. CommandLineTypeOK'
  BY <1>1, <1>3, <1>4, DeployTypes
<1>6. pc' = pc /\ todo' \subseteq todo /\ UNCHANGED <<file, contexts, cmd, why, ing, made>>
  BY <1>3 DEF Deploy
<1>7. CommandKnows'
  BY <1>1, <1>6
  DEF CommandKnows, KnowsIngress, KnowsClusters, Wanted, NamespaceOf, Says
<1>8. MadeAsRead' /\ Validated'
  BY <1>1, <1>6 DEF MadeAsRead, NamespaceOf, Validated
<1> QED BY <1>5, <1>7, <1>8

LEMMA DeleteKeeps ==
  ASSUME CommandLineInv, NEW c \in Clusters, deleteIngress(c)
  PROVE  CommandLineInv'
<1> USE DEF CommandLineInv
<1> DEFINE cur == deployed[c][ing.ns]
<1>1. pc = "delete" /\ c \in todo /\ ing \in IngressType /\ ing.ns \in Namespaces
      /\ contexts \subseteq Clusters /\ Wanted \subseteq Clusters
  BY CommandLineTypes
  DEF deleteIngress, CommandLineTypeOK, CommandKnows, KnowsIngress, KnowsClusters, IngressType
<1>2. cur \in IngressType \cup {None}
  BY <1>1 DEF CommandLineTypeOK
<1>3. PICK o \in Delete(cur, FALSE) : Deploy(c, o)
  BY DEF deleteIngress
<1>4. o \in Outcomes({cur, None}) /\ (~o.err => o.res = None)
  BY <1>3, DeletedIngress
<1>5. o \in Outcomes(IngressType \cup {None})
  <2> HIDE DEF cur
  <2> QED BY <1>2, <1>4, WiderOutcome
<1>6. /\ CommandLineTypeOK'
      /\ deployed'[c][ing.ns] = o.res
      /\ \A d \in Clusters, n \in Namespaces :
           d # c \/ n # ing.ns => deployed'[d][n] = deployed[d][n]
  BY <1>1, <1>3, <1>5, DeployTypes
<1>7. /\ pc' = pc /\ todo' = todo \ {c} /\ err' = (err \/ o.err)
      /\ UNCHANGED <<file, contexts, cmd, why, ing, made>>
  BY <1>3 DEF Deploy
<1>8. ~err' => DeletedSoFar'
  <2>0. o.err \in BOOLEAN /\ err \in BOOLEAN
    BY <1>4 DEF Outcomes, CommandLineTypeOK
  <2>1. SUFFICES ASSUME ~err', NEW d \in Wanted', d \notin todo'
                 PROVE  deployed'[d][ing.ns] = None
    BY <1>7 DEF DeletedSoFar
  <2>2. d \in Wanted /\ ~err /\ ~o.err
    BY <1>7, <2>0, <2>1 DEF Wanted
  <2>3. CASE d = c
    BY <1>4, <1>6, <2>2, <2>3
  <2>4. CASE d # c
    <3>1. d \in Wanted \ todo
      BY <1>7, <2>1, <2>2, <2>4
    <3>2. deployed[d][ing.ns] = None
      BY <1>1, <2>2, <3>1 DEF CommandKnows, DeletedSoFar
    <3> QED BY <1>1, <1>6, <2>2, <2>4, <3>2
  <2> QED BY <2>3, <2>4
<1>9. CommandKnows'
  BY <1>1, <1>7, <1>8
  DEF CommandKnows, KnowsIngress, KnowsClusters, Wanted, NamespaceOf, Says
<1>10. MadeAsRead' /\ Validated'
  BY <1>1, <1>7 DEF MadeAsRead, NamespaceOf, Validated
<1> QED BY <1>6, <1>9, <1>10

LEMMA SyncerKeeps ==
  ASSUME CommandLineInv, loadBalancerSyncer
  PROVE  CommandLineInv'
<1> USE DEF CommandLineInv
<1>1. /\ pc \in {"syncer", "ensure"}
      /\ pc = "syncer" => todo = Wanted /\ cmd.op # "create"
      /\ pc = "ensure" => cmd.op = "create"
      /\ KnowsIngress /\ KnowsClusters
  BY DEF loadBalancerSyncer, CommandKnows
<1>2. PICK e \in BOOLEAN :
        /\ e => faults < MaxFaults
        /\ faults' = IF e THEN faults + 1 ELSE faults
        /\ err' = e
        /\ why' = IF e THEN "syncer" ELSE why
        /\ pc' = IF cmd.op = "create" \/ (e /\ ~cmd.force) THEN "done" ELSE "delete"
  BY DEF loadBalancerSyncer
<1>3. UNCHANGED <<file, contexts, deployed, cmd, ing, todo, made>>
  BY DEF loadBalancerSyncer, outside
<1>4. CommandLineTypeOK'
  <2>1. faults' \in 0..MaxFaults
    BY <1>2, CommandLineAssumption DEF CommandLineTypeOK
  <2> QED BY <1>2, <1>3, <2>1 DEF CommandLineTypeOK
<1>5. KnowsIngress' /\ KnowsClusters' /\ Wanted' = Wanted
  BY <1>1, <1>3 DEF KnowsIngress, KnowsClusters, Wanted, NamespaceOf, Says
<1>6. pc = "syncer" => DeletedSoFar'
  BY <1>1, <1>3, <1>5 DEF DeletedSoFar
<1>7. CommandKnows'
  <2>1. cmd' \in Invocations
    BY <1>1, <1>3 DEF CommandKnows
  <2> QED BY <1>1, <1>2, <1>3, <1>5, <1>6, <2>1 DEF CommandKnows
<1>8. MadeAsRead'
  BY <1>3 DEF MadeAsRead, NamespaceOf
<1>9. Validated'
  BY <1>1, <1>2, <1>3 DEF Validated
<1> QED BY <1>4, <1>7, <1>8, <1>9

LEMMA EndKeeps ==
  ASSUME CommandLineInv, endOfClusters
  PROVE  CommandLineInv'
<1> USE DEF CommandLineInv, endOfClusters, outside
<1>1. CommandLineTypeOK'
  BY DEF CommandLineTypeOK
<1>2. CommandKnows'
  BY DEF CommandKnows, KnowsIngress, KnowsClusters, DeletedSoFar, Wanted, NamespaceOf, Says
<1>3. MadeAsRead' /\ Validated'
  BY DEF MadeAsRead, NamespaceOf, Validated
<1> QED BY <1>1, <1>2, <1>3

LEMMA ReturnKeeps ==
  ASSUME CommandLineInv, Return
  PROVE  CommandLineInv'
<1> USE DEF CommandLineInv
<1>1. pc = "done" /\ cmd \in Invocations /\ err \in BOOLEAN
      /\ (~err => KnowsIngress)
  BY DEF Return, CommandKnows, CommandLineTypeOK
<1>2. \/ made' = made
      \/ made' = None
      \/ ~err /\ made' = [cmd |-> cmd, ing |-> ing]
  <2>1. CASE cmd.op # "create"
    BY <2>1 DEF Return
  <2>2. CASE cmd.op = "create" /\ ~err
    BY <2>2 DEF Return
  <2>3. CASE cmd.op = "create" /\ err
    BY <2>3 DEF Return
  <2> QED BY <1>1, <2>1, <2>2, <2>3
<1>3. /\ pc' = "idle" /\ cmd' = None /\ err' = FALSE /\ why' = None /\ ing' = None
      /\ todo' = {} /\ UNCHANGED <<file, contexts, deployed, faults>>
  BY DEF Return, outside
<1>4. made' \in [cmd : Invocations, ing : IngressType] \cup {None}
  BY <1>1, <1>2 DEF CommandLineTypeOK, KnowsIngress
<1>5. CommandLineTypeOK'
  BY <1>3, <1>4 DEF CommandLineTypeOK
<1>6. CommandKnows' /\ Validated'
  BY <1>3, NoneOfCommandLine DEF CommandKnows, Validated
<1>7. MadeAsRead'
  BY <1>1, <1>2, <1>3 DEF MadeAsRead, KnowsIngress, NamespaceOf
<1> QED BY <1>5, <1>6, <1>7

LEMMA EditKeeps ==
  ASSUME CommandLineInv, Edit
  PROVE  CommandLineInv'
<1> USE DEF CommandLineInv, Edit
<1>1. CommandLineTypeOK'
  BY DEF CommandLineTypeOK
<1>2. CommandKnows' /\ MadeAsRead' /\ Validated'
  BY DEF CommandKnows, MadeAsRead, Validated
<1> QED BY <1>1, <1>2

LEMMA NextCommandLine == CommandLineInv /\ [Next]_vars => CommandLineInv'
<1> SUFFICES ASSUME CommandLineInv, [Next]_vars PROVE CommandLineInv'
  OBVIOUS
<1>1. CASE UNCHANGED vars
  BY <1>1 DEF vars, CommandLineInv, CommandLineTypeOK, CommandKnows, MadeAsRead, Validated,
              KnowsIngress, KnowsClusters, DeletedSoFar, Wanted, NamespaceOf, Says
<1> QED BY <1>1, RunKeeps, ArgsKeep, FileKeeps, ClientsKeep, VersionsKeep, EnsureKeeps,
           DeleteKeeps, SyncerKeeps, EndKeeps, ReturnKeeps, EditKeeps DEF Next

-----------------------------------------------------------------------------
(***************************************************************************)
(* Every reachable state is type correct: no cluster is ever called for an *)
(* ingress that the flags, the file and the defaults do not make up, and a *)
(* create that has succeeded had one.                                      *)
(***************************************************************************)
THEOREM CommandLineTypesHold ==
  Spec => []CommandLineTypeOK
<1>1. CommandLineInv => CommandLineTypeOK
  BY DEF CommandLineInv
<1> QED BY <1>1, InitCommandLine, NextCommandLine, PTL DEF Spec

(***************************************************************************)
(* A command touches no ingress but the one that the file and the flags    *)
(* mean, in no cluster but those that the flags and the kubeconfig mean.   *)
(***************************************************************************)
LEMMA AskedStep ==
  ASSUME CommandLineInv, NEW c \in Clusters, ensureIngress(c) \/ deleteIngress(c),
         NEW d \in Clusters, NEW n \in Namespaces, deployed'[d][n] # deployed[d][n]
  PROVE  /\ Says(file.ns, cmd.ns, n)
         /\ d \in contexts
         /\ cmd.kubecontexts = {} \/ d \in cmd.kubecontexts
         /\ deployed'[d][n] # None =>
              /\ deployed'[d][n].class = GceMultiIngressClass
              /\ deployed'[d][n].ip # None /\ Says(file.ip, cmd.ip, deployed'[d][n].ip)
<1> DEFINE cur == deployed[c][ing.ns]
<1>1. /\ c \in todo /\ KnowsIngress /\ KnowsClusters /\ cmd \in InvocationType
      /\ pc = "ensure" => cmd.op = "create"
  BY CommandLineTypes DEF ensureIngress, deleteIngress, CommandLineInv, CommandKnows
<1>2. ing \in IngressType /\ cur \in IngressType \cup {None} /\ cmd.force \in BOOLEAN
  BY <1>1 DEF KnowsIngress, IngressType, InvocationType, CommandLineInv, CommandLineTypeOK
<1>3. PICK o : /\ Deploy(c, o)
               /\ \/ pc = "ensure" /\ o \in Outcomes({cur, ing})
                  \/ pc = "delete" /\ o \in Outcomes({cur, None})
  <2>1. CASE ensureIngress(c)
    <3>1. PICK o \in Ensure(cur, Create(None, ing), cur = ing, cmd.force, Call(cur, ing)) :
            Deploy(c, o)
      BY <2>1 DEF ensureIngress
    <3>2. o \in Outcomes({cur, ing})
      BY <1>2, <3>1, EnsuredIngress
    <3>3. pc = "ensure"
      BY <2>1 DEF ensureIngress
    <3> QED BY <3>1, <3>2, <3>3
  <2>2. CASE deleteIngress(c)
    <3>1. PICK o \in Delete(cur, FALSE) : Deploy(c, o)
      BY <2>2 DEF deleteIngress
    <3>2. o \in Outcomes({cur, None})
      BY <3>1, DeletedIngress
    <3>3. pc = "delete"
      BY <2>2 DEF deleteIngress
    <3> QED BY <3>1, <3>2, <3>3
  <2> QED BY <2>1, <2>2
<1> HIDE DEF cur
<1>4. o \in Outcomes(IngressType \cup {None})
  BY <1>2, <1>3, WiderOutcome
<1>5. d = c /\ n = ing.ns /\ deployed'[d][n] = o.res /\ deployed[d][n] = cur
  BY <1>2, <1>3, <1>4, DeployTypes DEF cur
<1>6. deployed'[d][n] # None => deployed'[d][n] = ing /\ cmd.op = "create"
  BY <1>1, <1>3, <1>5 DEF Outcomes
<1>7. c \in contexts /\ (cmd.kubecontexts = {} \/ c \in cmd.kubecontexts)
  BY <1>1 DEF KnowsClusters, Wanted
<1> QED BY <1>1, <1>5, <1>6, <1>7 DEF KnowsIngress

(***************************************************************************)
(* TouchesOnlyAsked, however the file and the kubeconfig change between    *)
(* commands and wherever commands stop.                                    *)
(***************************************************************************)
THEOREM OnlyAskedTouched ==
  Spec => TouchesOnlyAsked
<1> DEFINE Asked ==
      \A c \in Clusters, n \in Namespaces :
        deployed'[c][n] # deployed[c][n] =>
          /\ Says(file.ns, cmd.ns, n)
          /\ c \in contexts
          /\ cmd.kubecontexts = {} \/ c \in cmd.kubecontexts
          /\ deployed'[c][n] # None =>
               /\ deployed'[c][n].class = GceMultiIngressClass
               /\ deployed'[c][n].ip # None /\ Says(file.ip, cmd.ip, deployed'[c][n].ip)
<1>1. CommandLineInv /\ [Next]_vars => [Asked]_vars
  <2> SUFFICES ASSUME CommandLineInv, Next PROVE Asked
    BY DEF vars
  <2>1. CASE \E c \in Clusters : ensureIngress(c) \/ deleteIngress(c)
    BY <2>1, AskedStep
  <2>2. CASE deployed' = deployed
    BY <2>2
  <2>3. (\E c \in Clusters : ensureIngress(c) \/ deleteIngress(c)) \/ deployed' = deployed
    BY DEF Next, Run, validateArgs, readFile, GetClients, serverVersionsNewEnough,
           loadBalancerSyncer, endOfClusters, Return, Edit, Continue, CallFails, outside
  <2> QED BY <2>1, <2>2, <2>3
<1> QED BY <1>1, InitCommandLine, NextCommandLine, PTL DEF Spec, TouchesOnlyAsked

(***************************************************************************)
(* DeleteUndoesCreate: create and delete compute the same namespace from   *)
(* the same file and flag, so that delete looks where create has put it.   *)
(***************************************************************************)
THEOREM DeletesUndoCreates ==
  Spec => []DeleteUndoesCreate
<1>1. CommandLineInv => DeleteUndoesCreate
  <2> SUFFICES ASSUME CommandLineInv, pc = "done" /\ cmd.op = "delete" /\ ~err, made # None,
                      made.cmd.ns = cmd.ns
               PROVE  \A c \in Wanted : deployed[c][made.ing.ns] = None
    BY DEF DeleteUndoesCreate, Wanted
  <2>1. KnowsIngress /\ todo = {} /\ DeletedSoFar
    BY DEF CommandLineInv, CommandKnows
  <2>2. made.ing.ns = ing.ns
    BY <2>1 DEF CommandLineInv, MadeAsRead, KnowsIngress
  <2> QED BY <2>1, <2>2 DEF DeletedSoFar
<1> QED BY <1>1, InitCommandLine, NextCommandLine, PTL DEF Spec

(***************************************************************************)
(* SupportedVersions: validation lets a create go on exactly with clusters *)
(* of supported versions, for all versions.                                *)
(***************************************************************************)
THEOREM VersionsSupported ==
  Spec => []SupportedVersions
<1>1. CommandLineInv => SupportedVersions
  BY DEF CommandLineInv, CommandKnows, Validated, SupportedVersions
<1> QED BY <1>1, InitCommandLine, NextCommandLine, PTL DEF Spec
=============================================================================
