------------------------- MODULE HealthProbesProofs -------------------------
(***************************************************************************)
(* Proof that the health check gets the path of the probes, for every set  *)
(* of clusters and pods and every order in which the clusters are asked.   *)
(***************************************************************************)
EXTENDS HealthProbes, CloudAPIProofs

\* The cluster has a probe for the service port.
Asks(c) == GetProbe(pods[c]) # None
PathIn(c) == GetProbe(pods[c]).path

\* The loop over the clusters: the path so far is one that a cluster asks
\* for, and unless there was an error it is the path of all clusters that
\* were asked; there is no error but that of a failed call.
LoopInv == /\ path # NoPath => path \in PathsWanted
           /\ ~err => \A c \in Clusters \ todo : Asks(c) => path = PathIn(c)
           /\ err => fault

ProbeInv ==
  /\ pods \in [Clusters -> PodLists]
  /\ hc \in Rooted \cup {None}
  /\ pc \in {"idle", "paths", "done"}
  /\ force \in BOOLEAN /\ err \in BOOLEAN /\ fault \in BOOLEAN
  /\ pc = "idle" => path = NoPath /\ ~err /\ ~fault
  /\ pc = "paths" => LoopInv
  /\ PathOfEveryProbe

\* A probe that is found has a path.
LEMMA ProbePath ==
  ASSUME NEW l \in PodLists, GetProbe(l) # None
  PROVE  GetProbe(l).path \in Rooted \cup Bare
<1>1. PICK z \in DOMAIN l : First(l, z)
  BY DEF GetProbe
<1> DEFINE x == CHOOSE y \in DOMAIN l : First(l, y)
<1>2. x \in DOMAIN l /\ First(l, x)
  BY <1>1, Zenon
<1>3. GetProbe(l) = l[x].probe
  BY <1>1 DEF GetProbe
<1> HIDE DEF x
<1>4. l[x] \in Containers
  BY <1>2, ProbeAssumption
<1>5. l[x].probe \in Probes
  BY <1>3, <1>4 DEF Containers
<1> QED BY <1>3, <1>5 DEF Probes

\* The path of a cluster that has a probe.
LEMMA WantedPath ==
  ASSUME pods \in [Clusters -> PodLists], NEW c \in Clusters, Asks(c)
  PROVE  PathIn(c) \in PathsWanted /\ PathIn(c) \in Rooted \cup Bare /\ PathIn(c) # NoPath
<1>1. PathIn(c) \in Rooted \cup Bare
  BY ProbePath DEF Asks, PathIn
<1>2. PathIn(c) \in PathsWanted
  BY DEF PathsWanted, Asks, PathIn
<1> QED BY <1>1, <1>2, ProbeAssumption

LEMMA WantedFrom ==
  ASSUME NEW p \in PathsWanted
  PROVE  \E c \in Clusters : Asks(c) /\ p = PathIn(c)
BY DEF PathsWanted, Asks, PathIn

LEMMA NormalRooted ==
  ASSUME NEW p \in Rooted \cup Bare \cup {NoPath}
  PROVE  normalise(p) \in Rooted
BY ProbeAssumption DEF normalise

LEMMA InitProbe == Init => ProbeInv
BY DEF Init, ProbeInv, LoopInv, PathOfEveryProbe

LEMMA RunProbe ==
  ASSUME ProbeInv, NEW f \in BOOLEAN, Run(f)
  PROVE  ProbeInv'
<1>1. /\ pc' = "paths" /\ path' = NoPath /\ ~err' /\ todo' = Clusters /\ pods' = pods
      /\ hc' = hc /\ force' = f /\ err' = err /\ fault' = fault
  BY DEF Run, ProbeInv
<1>2. LoopInv'
  BY <1>1 DEF LoopInv
<1>3. PathOfEveryProbe'
  BY <1>1 DEF PathOfEveryProbe
<1> QED BY <1>1, <1>2, <1>3 DEF ProbeInv

LEMMA GetPathProbe ==
  ASSUME ProbeInv, NEW c \in Clusters, getPath(c)
  PROVE  ProbeInv'
<1> DEFINE differs == Asks(c) /\ path # NoPath /\ path # PathIn(c)
<1>1. /\ pc = "paths" /\ c \in todo /\ todo' = todo \ {c}
      /\ pods' = pods /\ hc' = hc /\ force' = force /\ fault' = fault
      /\ path' = IF Asks(c) /\ path = NoPath THEN PathIn(c) ELSE path
      /\ err' = (err \/ differs)
      /\ pc' = IF differs THEN "done" ELSE pc
  BY DEF getPath, Asks, PathIn
<1>2. PathsWanted' = PathsWanted /\ (\A d \in Clusters : Asks(d)' = Asks(d) /\ PathIn(d)' = PathIn(d))
  BY <1>1 DEF PathsWanted, Asks, PathIn
<1>3. LoopInv /\ pods \in [Clusters -> PodLists]
  BY <1>1 DEF ProbeInv
<1>4. Asks(c) => PathIn(c) \in PathsWanted /\ PathIn(c) # NoPath
  BY <1>3, WantedPath
<1> HIDE DEF differs
<1>5. CASE differs
  <2>1. pc' = "done" /\ err' = TRUE
    BY <1>1, <1>5
  <2>2. path \in PathsWanted /\ PathIn(c) \in PathsWanted /\ path # PathIn(c)
    BY <1>3, <1>4, <1>5 DEF LoopInv, differs
  <2>3. PathOfEveryProbe'
    BY <1>2, <2>1, <2>2 DEF PathOfEveryProbe
  <2> QED BY <1>1, <2>1, <2>3 DEF ProbeInv
<1>6. CASE ~differs
  <2>1. pc' = "paths" /\ err' = err
    BY <1>1, <1>6 DEF ProbeInv
  <2>2. path' # NoPath => path' \in PathsWanted'
    BY <1>1, <1>2, <1>3, <1>4 DEF LoopInv
  <2>3. ASSUME ~err, NEW d \in Clusters \ todo', Asks(d)
        PROVE  path' = PathIn(d)
    <3>1. CASE d = c
      BY <1>1, <1>6, <2>3, <3>1 DEF differs
    <3>2. CASE d # c
      <4>1. path = PathIn(d) /\ PathIn(d) # NoPath
        BY <1>1, <1>3, <2>3, <3>2, WantedPath DEF LoopInv
      <4> QED BY <1>1, <4>1
    <3> QED BY <3>1, <3>2
  <2>4. LoopInv'
    BY <1>1, <1>2, <1>3, <2>1, <2>2, <2>3 DEF LoopInv
  <2>5. PathOfEveryProbe'
    BY <2>1 DEF PathOfEveryProbe
  <2> QED BY <1>1, <2>1, <2>4, <2>5 DEF ProbeInv
<1> QED BY <1>5, <1>6

LEMMA GetPathFailsProbe ==
  ASSUME ProbeInv, NEW c \in Clusters, getPathFails(c)
  PROVE  ProbeInv'
<1>1. /\ pc = "paths" /\ pc' = pc /\ path' = path /\ err' = TRUE /\ fault' = TRUE
      /\ pods' = pods /\ hc' = hc /\ force' = force
  BY DEF getPathFails
<1>2. LoopInv'
  BY <1>1 DEF ProbeInv, LoopInv, PathsWanted
<1>3. PathOfEveryProbe'
  BY <1>1 DEF PathOfEveryProbe
<1> QED BY <1>1, <1>2, <1>3 DEF ProbeInv

LEMMA EnsureProbe ==
  ASSUME ProbeInv, ensureHealthCheck
  PROVE  ProbeInv'
<1> DEFINE new == normalise(path)
<1>1. /\ pc = "paths" /\ todo = {} /\ pc' = "done"
      /\ pods' = pods /\ force' = force
  BY DEF ensureHealthCheck
<1>2. PICK o \in IF err THEN {Refused(hc)}
                 ELSE Ensure(hc, Create(hc, new), hc = new, force, Call(hc, new)) :
        hc' = o.res /\ err' = (err \/ o.err) /\ fault' = (fault \/ o.fault)
  BY DEF ensureHealthCheck
<1>3. LoopInv /\ pods \in [Clusters -> PodLists] /\ force \in BOOLEAN /\ err \in BOOLEAN
              /\ hc \in Rooted \cup {None} /\ fault \in BOOLEAN
  BY <1>1 DEF ProbeInv
<1>4. path \in Rooted \cup Bare \cup {NoPath}
  BY <1>3, WantedFrom, WantedPath DEF LoopInv
<1>5. new \in Rooted /\ new # None
  BY <1>4, NormalRooted, ProbeAssumption
<1>6. PathsWanted' = PathsWanted
  BY <1>1 DEF PathsWanted
<1> HIDE DEF new
<1>7. CASE err
  <2>1. o = Refused(hc)
    BY <1>2, <1>7
  <2>2. hc' = hc /\ err' = TRUE /\ fault' = TRUE
    BY <1>2, <1>3, <1>7, <2>1 DEF LoopInv, Refused
  <2>3. PathOfEveryProbe'
    BY <2>2 DEF PathOfEveryProbe
  <2> QED BY <1>1, <1>3, <2>2, <2>3 DEF ProbeInv
<1>8. CASE ~err
  <2>1. /\ o \in Outcomes({hc, new})
        /\ ~o.err => o.res = new
        /\ o.err /\ force => o.fault
    <3>1. o \in Ensure(hc, Create(hc, new), hc = new, force, Call(hc, new))
      BY <1>2, <1>8
    <3>2. EnsureEnds(hc, new, force, o)
      BY <1>3, <3>1, PlainEnsureEnds
    <3> QED BY <1>3, <1>5, <3>2, EnsureOutcome
  <2>2. hc' \in Rooted \cup {None} /\ err' \in BOOLEAN /\ fault' \in BOOLEAN
    BY <1>2, <1>3, <1>5, <2>1 DEF Outcomes
  <2>3. ASSUME ~err', NEW p \in PathsWanted PROVE hc' = normalise(p)
    <3>1. PICK c \in Clusters : Asks(c) /\ p = PathIn(c)
      BY WantedFrom
    <3>2. path = p
      BY <1>1, <1>3, <1>8, <3>1 DEF LoopInv
    <3> QED BY <1>2, <2>1, <2>3, <3>2 DEF new
  <2>4. ASSUME ~err', PathsWanted = {} PROVE hc' = WithSlash[NoPath]
    <3>1. path = NoPath
      BY <1>3, <2>4 DEF LoopInv
    <3> QED BY <1>2, <2>1, <2>4, <3>1, ProbeAssumption DEF new, normalise
  <2>5. err' /\ force' => fault'
    BY <1>1, <1>2, <1>8, <2>1
  <2>6. PathOfEveryProbe'
    BY <1>6, <2>3, <2>4, <2>5 DEF PathOfEveryProbe, normalise
  <2> QED BY <1>1, <1>3, <2>2, <2>6 DEF ProbeInv
<1> QED BY <1>7, <1>8

LEMMA NextProbe ==
  ASSUME ProbeInv, [Next]_vars
  PROVE  ProbeInv'
<1>1. CASE Return
  BY <1>1 DEF Return, ProbeInv, PathOfEveryProbe
<1>2. ASSUME NEW c \in Clusters, Deploy(c) PROVE ProbeInv'
  BY <1>2 DEF Deploy, ProbeInv, PathOfEveryProbe
<1>3. CASE UNCHANGED vars
  BY <1>3 DEF vars, ProbeInv, LoopInv, PathOfEveryProbe, PathsWanted, Asks, PathIn
<1> QED BY <1>1, <1>2, <1>3, RunProbe, GetPathProbe, GetPathFailsProbe, EnsureProbe DEF Next

(***************************************************************************)
(* getHealthCheckPath: whatever pods the clusters run, a create without an *)
(* error has the health check on the path of all their probes, and one     *)
(* that may overwrite fails only when two clusters disagree.               *)
(***************************************************************************)
THEOREM HealthCheckPath == Spec => []PathOfEveryProbe
<1>1. Spec => []ProbeInv
  BY InitProbe, NextProbe, PTL DEF Spec
<1>2. ProbeInv => PathOfEveryProbe
  BY DEF ProbeInv
<1> QED BY <1>1, <1>2, PTL
=============================================================================
