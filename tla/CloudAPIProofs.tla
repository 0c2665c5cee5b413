--------------------------- MODULE CloudAPIProofs ---------------------------
(***************************************************************************)
(* What the outcomes of the calls in CloudAPI have in common.              *)
(***************************************************************************)
EXTENDS CloudAPI, TLAPS

(***************************************************************************)
(* An outcome whose resource lies in a set is an outcome for that set.     *)
(***************************************************************************)
LEMMA WiderOutcome ==
  ASSUME NEW S, NEW T, T \subseteq S, NEW o \in Outcomes(T)
  PROVE  o \in Outcomes(S)
BY DEF Outcomes

(***************************************************************************)
(* The outcomes of a call that is answered.                                *)
(***************************************************************************)
LEMMA AnsweredOutcome ==
  ASSUME NEW v
  PROVE  /\ Ok(v) \in Outcomes({v}) /\ Ok(v).res = v
         /\ ~Ok(v).err /\ ~Ok(v).fault
         /\ Refused(v) \in Outcomes({v}) /\ Refused(v).res = v /\ Refused(v).err
BY DEF Ok, Refused, Outcomes

(***************************************************************************)
(* A call that is answered without an error, or that is not made at all,   *)
(* has an outcome with the given value.                                    *)
(***************************************************************************)
LEMMA OkOutcome ==
  ASSUME NEW S, NEW v \in S, NEW o, o = Ok(v)
  PROVE  o \in Outcomes(S) /\ o.res = v /\ ~o.err /\ ~o.fault
BY DEF Ok, Outcomes

(***************************************************************************)
(* A call that fails reports an error, whatever it leaves.                 *)
(***************************************************************************)
LEMMA FaultyOutcome ==
  ASSUME NEW T, NEW o \in Faulty(T)
  PROVE  o \in Outcomes(T) /\ o.res \in T /\ o.err /\ o.fault
<1>1. PICK v \in T : o = [res |-> v, err |-> TRUE, fault |-> TRUE]
  BY DEF Faulty
<1> QED BY <1>1 DEF Outcomes

(***************************************************************************)
(* A call that ends with an error and leaves the resource as it is.        *)
(***************************************************************************)
LEMMA FailedOutcome ==
  ASSUME NEW cur, NEW o, o = Refused(cur) \/ o \in Faulty({cur})
  PROVE  o \in Outcomes({cur}) /\ o.res = cur /\ o.err
<1>1. CASE o = Refused(cur)
  BY <1>1, AnsweredOutcome
<1>2. CASE o \in Faulty({cur})
  BY <1>2, FaultyOutcome
<1> QED BY <1>1, <1>2

(***************************************************************************)
(* A call that replaces a resource leaves the old or the new one, and the  *)
(* new one if it reports no error; only a fault makes it report one.       *)
(***************************************************************************)
LEMMA CallOutcome ==
  ASSUME NEW old, NEW new, NEW o \in Call(old, new)
  PROVE  /\ o \in Outcomes({old, new})
         /\ o.res \in {old, new}
         /\ ~o.err => o.res = new
         /\ o.err => o.fault
<1>1. CASE o = Ok(new)
  <2>1. o \in Outcomes({new}) /\ o.res = new /\ ~o.err
    BY <1>1, AnsweredOutcome
  <2> QED BY <2>1 DEF Outcomes
<1>2. CASE o \in Faulty({old, new})
  BY <1>2, FaultyOutcome
<1> QED BY <1>1, <1>2 DEF Call

(***************************************************************************)
(* An insert never touches a resource that exists, and reports an error    *)
(* then.                                                                   *)
(***************************************************************************)
LEMMA CreateOutcome ==
  ASSUME NEW cur, NEW new, NEW o \in Create(cur, new)
  PROVE  /\ o \in Outcomes({cur, new})
         /\ o.res \in {cur, new}
         /\ cur # None => o.res = cur
         /\ ~o.err => cur = None /\ o.res = new
         /\ o.err => o.fault \/ cur # None
<1>1. CASE cur = None
  <2>1. o \in Call(cur, new)
    BY <1>1 DEF Create
  <2> QED BY <1>1, <2>1, CallOutcome
<1>2. CASE cur # None
  <2>1. o \in Outcomes({cur}) /\ o.res = cur /\ o.err
    BY <1>2, FailedOutcome DEF Create
  <2> QED BY <1>2, <2>1 DEF Outcomes
<1> QED BY <1>1, <1>2

(***************************************************************************)
(* A delete never removes a resource in use, and has removed the resource  *)
(* if it reports no error; apart from faults it only fails on a resource   *)
(* in use.                                                                 *)
(***************************************************************************)
LEMMA DeleteOutcome ==
  ASSUME NEW cur, NEW inUse \in BOOLEAN, NEW o \in Delete(cur, inUse)
  PROVE  /\ o \in Outcomes({cur, None})
         /\ o.res \in {cur, None}
         /\ inUse => o.res = cur
         /\ ~o.err => o.res = None
         /\ o.err => o.fault \/ (cur # None /\ inUse)
<1>1. CASE cur # None /\ inUse
  <2>1. o = Refused(cur) \/ o \in Faulty({cur})
    BY <1>1 DEF Delete
  <2>2. o \in Outcomes({cur}) /\ o.res = cur /\ o.err
    BY <2>1, FailedOutcome
  <2> QED BY <1>1, <2>2 DEF Outcomes
<1>2. CASE cur = None \/ ~inUse
  <2>1. o \in Call(cur, None)
    BY <1>2 DEF Delete
  <2> QED BY <1>2, <2>1, CallOutcome
<1> QED BY <1>1, <1>2

(***************************************************************************)
(* The ways an ensure method ends whose update replaces the resource: it   *)
(* creates a missing one, leaves one that matches, refuses to touch one    *)
(* that does not or, if it is forced to, updates it.                       *)
(***************************************************************************)
EnsureEnds(cur, desired, force, o) ==
  \/ cur = None /\ o \in Create(cur, desired)
  \/ cur # None /\ o \in Faulty({cur})
  \/ cur # None /\ cur # desired /\ ~force /\ o = Refused(cur)
  \/ cur # None /\ cur = desired /\ o = Ok(cur)
  \/ cur # None /\ force /\ o \in Call(cur, desired)

(***************************************************************************)
(* Such a method never deletes the resource, keeps it without --force, and *)
(* leaves the desired one if it reports no error; under --force, or if the *)
(* resource matches, only a fault makes it report one.                     *)
(***************************************************************************)
LEMMA EnsureOutcome ==
  ASSUME NEW cur, NEW desired, desired # None, NEW force \in BOOLEAN, NEW o,
         EnsureEnds(cur, desired, force, o)
  PROVE  /\ o \in Outcomes({cur, desired})
         /\ cur # None => o.res # None
         /\ cur # None /\ ~force => o.res = cur
         /\ ~o.err => o.res = desired
         /\ o.err /\ (force \/ cur \in {None, desired}) => o.fault
<1>1. CASE cur = None /\ o \in Create(cur, desired)
  BY <1>1, CreateOutcome
<1>2. CASE cur # None /\ o \in Faulty({cur})
  <2>1. o \in Outcomes({cur}) /\ o.res = cur /\ o.err /\ o.fault
    BY <1>2, FaultyOutcome
  <2> QED BY <1>2, <2>1 DEF Outcomes
<1>3. CASE cur # None /\ cur # desired /\ ~force /\ o = Refused(cur)
  <2>1. o \in Outcomes({cur}) /\ o.res = cur /\ o.err
    BY <1>3, FailedOutcome
  <2> QED BY <1>3, <2>1 DEF Outcomes
<1>4. CASE cur # None /\ cur = desired /\ o = Ok(cur)
  <2>1. o \in Outcomes({cur}) /\ o.res = cur /\ ~o.err
    BY <1>4, AnsweredOutcome
  <2> QED BY <1>4, <2>1 DEF Outcomes
<1>5. CASE cur # None /\ force /\ o \in Call(cur, desired)
  BY <1>5, CallOutcome
<1> QED BY <1>1, <1>2, <1>3, <1>4, <1>5 DEF EnsureEnds

\* A method that compares the resource with the desired one ends that way.
LEMMA PlainEnsureEnds ==
  ASSUME NEW cur, NEW desired, NEW force \in BOOLEAN,
         NEW o \in Ensure(cur, Create(cur, desired), cur = desired, force, Call(cur, desired))
  PROVE  EnsureEnds(cur, desired, force, o)
BY DEF EnsureEnds, Ensure

(***************************************************************************)
(* An ensure method that finds the resource it looks for leaves it alone,  *)
(* and only fails on a fault.                                              *)
(***************************************************************************)
LEMMA EnsureRepeats ==
  ASSUME NEW cur, cur # None, NEW create, NEW matches, matches, NEW force, NEW update,
         NEW o \in Ensure(cur, create, matches, force, update), ~o.fault
  PROVE  o.res = cur /\ ~o.err
<1>1. o \in Faulty({cur}) \/ o = Ok(cur)
  BY DEF Ensure
<1>2. o \notin Faulty({cur})
  BY FaultyOutcome
<1> QED BY <1>1, <1>2, AnsweredOutcome

(***************************************************************************)
(* A loop of such calls leaves everything alone.                           *)
(***************************************************************************)
LEMMA LoopRepeats ==
  ASSUME NEW f, NEW D, DOMAIN f = D, NEW S, NEW cur \in [D -> S],
         \A k \in D : \A r \in f[k] : ~r.fault => r.res = cur[k] /\ ~r.err,
         NEW o \in Choices(f), ~AnyFault(o)
  PROVE  Results(o) = cur /\ ~AnyErr(o)
<1>1. DOMAIN o = D /\ \A k \in D : o[k] \in f[k]
  BY DEF Choices
<1>2. \A k \in D : ~o[k].fault
  BY <1>1 DEF AnyFault
<1>3. \A k \in D : o[k].res = cur[k] /\ ~o[k].err
  BY <1>1, <1>2
<1> QED BY <1>1, <1>3 DEF Results, AnyErr

(***************************************************************************)
(* A loop of calls has one outcome per key, and reports an error unless    *)
(* all of them succeed; a fault is one of a key.                           *)
(***************************************************************************)
LEMMA ChoiceOutcome ==
  ASSUME NEW S, NEW D, NEW f, DOMAIN f = D,
         \A k \in D : f[k] \subseteq Outcomes(S),
         NEW o \in Choices(f)
  PROVE  /\ Results(o) \in [D -> S]
         /\ \A k \in D : o[k] \in f[k] /\ Results(o)[k] = o[k].res
         /\ AnyErr(o) \in BOOLEAN /\ AnyFault(o) \in BOOLEAN
         /\ AnyErr(o) <=> \E k \in D : o[k].err
         /\ AnyFault(o) <=> \E k \in D : o[k].fault
<1>1. DOMAIN o = D /\ \A k \in D : o[k] \in f[k]
  BY DEF Choices
<1>2. \A k \in D : o[k] \in Outcomes(S)
  BY <1>1
<1>3. \A k \in D : o[k].res \in S /\ o[k].err \in BOOLEAN
  BY <1>2 DEF Outcomes
<1> QED BY <1>1, <1>3 DEF Results, AnyErr, AnyFault

\* f makes a loop over D of calls on resources in S, and what it leaves.
Loop(f, D, S) == DOMAIN f = D /\ \A k \in D : f[k] \subseteq Outcomes(S)

LoopEnds(f, D, S, o) ==
  /\ Results(o) \in [D -> S]
  /\ \A k \in D : o[k] \in f[k] /\ Results(o)[k] = o[k].res
  /\ AnyErr(o) \in BOOLEAN /\ AnyFault(o) \in BOOLEAN
  /\ AnyErr(o) <=> \E k \in D : o[k].err
  /\ AnyFault(o) <=> \E k \in D : o[k].fault

(***************************************************************************)
(* The same, for a loop that is named.                                     *)
(***************************************************************************)
LEMMA LoopOutcome ==
  ASSUME NEW f, NEW D, NEW S, Loop(f, D, S), NEW o \in Choices(f)
  PROVE  LoopEnds(f, D, S, o)
BY ChoiceOutcome DEF Loop, LoopEnds

\* f makes the loop that deletes the resources of some keys, used being the
\* keys of the resources in use.
DeleteLoop(f, D, cur, keys, used) ==
  /\ DOMAIN f = D
  /\ \A k \in D : /\ k \in keys => f[k] = Delete(cur[k], k \in used)
                  /\ k \notin keys => f[k] = {Ok(cur[k])}

\* What such a loop leaves.
DeleteLoopEnds(S, D, cur, keys, used, o) ==
  /\ Results(o) \in [D -> S]
  /\ AnyErr(o) \in BOOLEAN /\ AnyFault(o) \in BOOLEAN
  /\ \A k \in D : /\ Results(o)[k] \in {cur[k], None}
                  /\ k \in used \/ k \notin keys => Results(o)[k] = cur[k]
                  /\ k \in keys /\ ~AnyErr(o) => Results(o)[k] = None
  /\ AnyErr(o) => \/ AnyFault(o)
                  \/ \E k \in D : k \in keys /\ k \in used /\ cur[k] # None

(***************************************************************************)
(* Such a loop touches no other resource and none in use, has removed them *)
(* all if it reports no error, and apart from faults only fails on a       *)
(* resource in use.                                                        *)
(***************************************************************************)
LEMMA DeleteLoopOutcome ==
  ASSUME NEW S, None \in S, NEW D, NEW cur \in [D -> S], NEW keys, NEW used,
         NEW f, DeleteLoop(f, D, cur, keys, used), NEW o \in Choices(f)
  PROVE  DeleteLoopEnds(S, D, cur, keys, used, o)
<1>1. ASSUME NEW k \in D, NEW r \in f[k]
      PROVE  /\ r \in Outcomes(S)
             /\ r.res \in {cur[k], None}
             /\ k \in used \/ k \notin keys => r.res = cur[k]
             /\ k \in keys /\ ~r.err => r.res = None
             /\ r.err => r.fault \/ (k \in keys /\ k \in used /\ cur[k] # None)
  <2>1. CASE k \in keys
    <3>1. r \in Delete(cur[k], k \in used)
      BY <2>1 DEF DeleteLoop
    <3>2. (k \in used) \in BOOLEAN
      OBVIOUS
    <3>3. /\ r \in Outcomes({cur[k], None})
          /\ r.res \in {cur[k], None}
          /\ k \in used => r.res = cur[k]
          /\ ~r.err => r.res = None
          /\ r.err => r.fault \/ (cur[k] # None /\ k \in used)
      BY <3>1, <3>2, DeleteOutcome
    <3> QED BY <2>1, <3>3, WiderOutcome
  <2>2. CASE k \notin keys
    <3>1. r = Ok(cur[k])
      BY <2>2 DEF DeleteLoop
    <3> QED BY <2>2, <3>1, OkOutcome
  <2> QED BY <2>1, <2>2
<1>2. \A k \in D : f[k] \subseteq Outcomes(S)
  BY <1>1
<1>3. DOMAIN f = D
  BY DEF DeleteLoop
<1> QED BY <1>1, <1>2, <1>3, ChoiceOutcome DEF DeleteLoopEnds
=============================================================================
