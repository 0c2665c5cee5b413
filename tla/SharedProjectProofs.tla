------------------------- MODULE SharedProjectProofs -------------------------
(***************************************************************************)
(* Proofs about SharedProject, for every set of names and kinds and every  *)
(* limit on their length: the names that the cloud accepts, and what load  *)
(* balancers of one project do to each other.                              *)
(***************************************************************************)
EXTENDS SharedProject, SequenceTheorems, TLAPS

\* Characters.  (The provers do not know that "-" and "0" are in STRING.)
Chars == STRING \cup {"-", "0"}

\* The name of a resource before it is cut.
Key(lb, k) ==
  IF lb = <<>> THEN KindPrefix[k] ELSE KindPrefix[k] \o lbNameDelimiter \o lb

\* A prefix, and the prefix with the delimiter.
LEMMA PrefixShape ==
  ASSUME NEW k \in Kinds
  PROVE  /\ KindPrefix[k] \in Seq(Chars) /\ Len(KindPrefix[k]) \in Nat
         /\ lbNameDelimiter \in Seq(Chars)
         /\ KindPrefix[k] \o lbNameDelimiter \in Seq(Chars)
         /\ Len(KindPrefix[k] \o lbNameDelimiter) = Len(KindPrefix[k]) + 2
<1>1. KindPrefix[k] \in Seq(Chars)
  BY NamerAssumption, SeqMonotonic DEF Chars
<1>2. lbNameDelimiter \in Seq(Chars) /\ Len(lbNameDelimiter) = 2
  <2>1. "-" \in Chars
    BY DEF Chars
  <2>2. \A S : \A x \in S : <<x, x>> \in Seq(S) /\ Len(<<x, x>>) = 2
    OBVIOUS
  <2> QED BY <2>1, <2>2 DEF lbNameDelimiter
<1>3. Len(KindPrefix[k]) \in Nat
  BY <1>1, LenProperties
<1>4. /\ KindPrefix[k] \o lbNameDelimiter \in Seq(Chars)
      /\ Len(KindPrefix[k] \o lbNameDelimiter) = Len(KindPrefix[k]) + Len(lbNameDelimiter)
  BY <1>1, <1>2, ConcatProperties
<1> QED BY <1>1, <1>2, <1>3, <1>4

\* The key begins with the prefix of its kind and the delimiter, and ends in
\* the name of the load balancer, if it has one.
LEMMA KeyShape ==
  ASSUME NEW lb \in LBNames, NEW k \in Kinds
  PROVE  /\ lb \in Seq(Chars)
         /\ Key(lb, k) \in Seq(Chars)
         /\ lb # <<>> =>
              /\ Len(lb) \in Nat \ {0}
              /\ Len(Key(lb, k)) = Len(KindPrefix[k] \o lbNameDelimiter) + Len(lb)
              /\ Key(lb, k)[Len(Key(lb, k))] = lb[Len(lb)]
              /\ SubSeq(Key(lb, k), 1, Len(KindPrefix[k] \o lbNameDelimiter))
                   = KindPrefix[k] \o lbNameDelimiter
<1> DEFINE m == KindPrefix[k] \o lbNameDelimiter
<1>1. lb \in Seq(Chars)
  BY NamerAssumption, SeqMonotonic DEF Chars
<1>2. CASE lb = <<>>
  BY <1>1, <1>2, PrefixShape DEF Key
<1>3. CASE lb # <<>>
  <2>1. m \in Seq(Chars) /\ Len(m) \in Nat \ {0}
    <3>1. Len(KindPrefix[k]) \in Nat /\ Len(m) = Len(KindPrefix[k]) + 2
      BY PrefixShape
    <3> QED BY <3>1, PrefixShape
  <2>2. Len(lb) \in Nat \ {0}
    BY <1>1, <1>3, EmptySeq
  <2>3. Key(lb, k) = m \o lb
    BY <1>3 DEF Key
  <2> HIDE DEF m
  <2>4. /\ m \o lb \in Seq(Chars)
        /\ Len(m \o lb) = Len(m) + Len(lb)
        /\ (m \o lb)[Len(m) + Len(lb)] = lb[Len(lb)]
    <3>1. /\ m \o lb \in Seq(Chars)
          /\ Len(m \o lb) = Len(m) + Len(lb)
          /\ \A i \in 1 .. Len(m) + Len(lb) : (m \o lb)[i] =
                       IF i <= Len(m) THEN m[i] ELSE lb[i - Len(m)]
      BY <1>1, <2>1, ConcatProperties
    <3> QED BY <2>1, <2>2, <3>1
  <2>5. SubSeq(m \o lb, 1, Len(m)) = SubSeq(m, 1, Len(m))
    BY <1>1, <2>1, SubSeqOfConcat1
  <2>6. SubSeq(m, 1, Len(m)) = m
    BY <2>1, SubSeqFull
  <2> QED BY <1>1, <2>2, <2>3, <2>4, <2>5, <2>6 DEF m
<1> QED BY <1>2, <1>3

\* A name that is cut is one longer than the limit and ends in "0"; any other
\* is the key.
LEMMA NameShape ==
  ASSUME NEW lb \in LBNames, NEW k \in Kinds
  PROVE  /\ Len(Key(lb, k)) <= NameLenLimit => NameOf(lb, k) = Key(lb, k)
         /\ Len(Key(lb, k)) > NameLenLimit =>
              /\ Len(NameOf(lb, k)) = NameLenLimit + 1
              /\ NameOf(lb, k)[NameLenLimit + 1] = "0"
<1> DEFINE key == Key(lb, k)
<1>1. NameLenLimit \in Nat /\ key \in Seq(Chars) /\ Len(key) \in Nat
  BY NamerAssumption, KeyShape, LenProperties
<1>2. NameOf(lb, k) = Truncate(key)
  <2>1. CASE lb = <<>>
    <3>1. key = KindPrefix[k] /\ NameOf(lb, k) = KindPrefix[k]
      BY <2>1 DEF NameOf, decorateName, Key
    <3>2. Len(KindPrefix[k]) + 2 < NameLenLimit /\ Len(KindPrefix[k]) \in Nat
      BY NamerAssumption, PrefixShape
    <3>3. ~(Len(key) > NameLenLimit)
      BY <1>1, <3>1, <3>2
    <3> QED BY <3>1, <3>3 DEF Truncate
  <2>2. CASE lb # <<>>
    BY <2>2 DEF NameOf, decorateName, Key
  <2> QED BY <2>1, <2>2
<1> HIDE DEF key
<1>3. ASSUME Len(key) > NameLenLimit
      PROVE  /\ Len(Truncate(key)) = NameLenLimit + 1
             /\ Truncate(key)[NameLenLimit + 1] = "0"
  <2>1. \A i \in 1..NameLenLimit : key[i] \in Chars
    BY <1>1, <1>3, ElementOfSeq
  <2>2. SubSeq(key, 1, NameLenLimit) \in Seq(Chars) /\ Len(SubSeq(key, 1, NameLenLimit)) = NameLenLimit
    BY <1>1, <2>1, SubSeqProperties
  <2>3. /\ Len(Append(SubSeq(key, 1, NameLenLimit), "0")) = NameLenLimit + 1
        /\ Append(SubSeq(key, 1, NameLenLimit), "0")[NameLenLimit + 1] = "0"
    BY <2>2, AppendProperties DEF Chars
  <2> QED BY <1>3, <2>3 DEF Truncate, alphaNumericChar
<1>4. ASSUME Len(key) <= NameLenLimit PROVE Truncate(key) = key
  BY <1>1, <1>4 DEF Truncate
<1> QED BY <1>2, <1>3, <1>4 DEF key

\* Every name fits, and ends in "-" only if the load balancer's name does.
LEMMA NamesFit ==
  ASSUME NEW lb \in LBNames, NEW k \in Kinds
  PROVE  /\ Len(NameOf(lb, k)) <= NameLenLimit + 1
         /\ EndsInDash(NameOf(lb, k)) => EndsInDash(lb)
<1>1. NameLenLimit \in Nat /\ Len(Key(lb, k)) \in Nat
  BY NamerAssumption, KeyShape, LenProperties
<1>2. CASE Len(Key(lb, k)) > NameLenLimit
  BY <1>1, <1>2, NameShape DEF EndsInDash
<1>3. CASE Len(Key(lb, k)) <= NameLenLimit
  <2>1. NameOf(lb, k) = Key(lb, k)
    BY <1>3, NameShape
  <2>2. CASE lb = <<>>
    <3>1. ~EndsInDash(Key(lb, k))
      BY <2>2, NamerAssumption DEF Key
    <3> QED BY <1>1, <1>3, <2>1, <3>1
  <2>3. CASE lb # <<>>
    <3>1. Key(lb, k)[Len(Key(lb, k))] = lb[Len(lb)]
      BY <2>3, KeyShape
    <3> QED BY <1>1, <1>3, <2>1, <2>3, <3>1 DEF EndsInDash
  <2> QED BY <2>2, <2>3
<1> QED BY <1>1, <1>2, <1>3

\* A bare prefix is no key of a load balancer with a name.
LEMMA PrefixApart ==
  ASSUME NEW b \in LBNames, b # <<>>, NEW k \in Kinds, NEW l \in Kinds
  PROVE  KindPrefix[k] # Key(b, l)
<1> SUFFICES ASSUME KindPrefix[k] = Key(b, l) PROVE FALSE
  OBVIOUS
<1> DEFINE p == KindPrefix[k]
           m(x) == KindPrefix[x] \o lbNameDelimiter
<1>1. /\ p \in Seq(Chars) /\ Len(p) \in Nat /\ lbNameDelimiter \in Seq(Chars)
      /\ Len(m(k)) = Len(p) + 2
      /\ m(l) \in Seq(Chars) /\ Len(m(l)) = Len(KindPrefix[l]) + 2 /\ Len(KindPrefix[l]) \in Nat
  BY PrefixShape
<1>2. /\ Len(p) = Len(m(l)) + Len(b) /\ Len(b) \in Nat \ {0}
      /\ SubSeq(p, 1, Len(m(l))) = m(l)
  BY KeyShape
<1>3. k # l
  BY <1>1, <1>2
<1>4. SubSeq(p \o lbNameDelimiter, 1, Len(m(l))) = SubSeq(p, 1, Len(m(l)))
  <2> HIDE DEF p, m
  <2>1. 1 \in 1..(Len(p) + 1) /\ Len(m(l)) \in 0..Len(p)
    BY <1>1, <1>2
  <2> QED BY <1>1, <2>1, SubSeqOfConcat1
<1>5. Len(m(l)) <= Len(m(k))
  BY <1>1, <1>2
<1> QED BY <1>2, <1>3, <1>4, <1>5, NamerAssumption

\* Keys of different kinds or of different load balancers differ.
LEMMA KeysApart ==
  ASSUME NEW a \in LBNames, NEW b \in LBNames, NEW k \in Kinds, NEW l \in Kinds,
         Key(a, k) = Key(b, l)
  PROVE  a = b
<1> DEFINE m(x) == KindPrefix[x] \o lbNameDelimiter
<1>1. ASSUME NEW x \in Kinds, NEW y \in Kinds, NEW c \in LBNames, NEW d \in LBNames,
             c # <<>>, d # <<>>, Key(c, x) = Key(d, y), Len(m(x)) <= Len(m(y))
      PROVE  x = y
  <2>1. /\ m(x) \in Seq(Chars) /\ m(y) \in Seq(Chars) /\ d \in Seq(Chars)
        /\ Len(m(x)) \in Nat \ {0} /\ Len(m(y)) \in Nat \ {0}
        /\ SubSeq(Key(c, x), 1, Len(m(x))) = m(x)
    <3>1. /\ Len(m(x)) = Len(KindPrefix[x]) + 2 /\ Len(KindPrefix[x]) \in Nat
          /\ Len(m(y)) = Len(KindPrefix[y]) + 2 /\ Len(KindPrefix[y]) \in Nat
      BY PrefixShape
    <3>2. m(x) \in Seq(Chars) /\ m(y) \in Seq(Chars)
      BY PrefixShape
    <3>3. d \in Seq(Chars) /\ SubSeq(Key(c, x), 1, Len(m(x))) = m(x)
      BY <1>1, KeyShape
    <3>4. Len(m(x)) \in Nat \ {0} /\ Len(m(y)) \in Nat \ {0}
      BY <3>1
    <3> QED BY <3>2, <3>3, <3>4
  <2>2. Key(d, y) = m(y) \o d
    BY <1>1 DEF Key
  <2> HIDE DEF m
  <2>3. SubSeq(m(y) \o d, 1, Len(m(x))) = SubSeq(m(y), 1, Len(m(x)))
    BY <1>1, <2>1, SubSeqOfConcat1
  <2>4. SubSeq(m(y), 1, Len(m(x))) = m(x)
    BY <1>1, <2>1, <2>2, <2>3
  <2> QED BY <1>1, <2>4, NamerAssumption DEF m
<1>2. CASE a = <<>> \/ b = <<>>
  <2>1. CASE a = <<>> /\ b # <<>>
    BY <2>1, PrefixApart DEF Key
  <2>2. CASE b = <<>> /\ a # <<>>
    BY <2>2, PrefixApart DEF Key
  <2> QED BY <1>2, <2>1, <2>2
<1>3. CASE a # <<>> /\ b # <<>>
  <2>1. /\ m(k) \in Seq(Chars) /\ a \in Seq(Chars) /\ b \in Seq(Chars)
        /\ Len(m(k)) = Len(KindPrefix[k]) + 2 /\ Len(KindPrefix[k]) \in Nat
        /\ Len(m(l)) = Len(KindPrefix[l]) + 2 /\ Len(KindPrefix[l]) \in Nat
    BY PrefixShape, KeyShape
  <2>2. Len(m(k)) <= Len(m(l)) \/ Len(m(l)) <= Len(m(k))
    BY <2>1
  <2>3. k = l
    BY <1>1, <1>3, <2>2
  <2>4. m(k) \o a = m(k) \o b
    BY <1>3, <2>3 DEF Key
  <2> HIDE DEF m
  <2>5. \A S : \A s, t, v \in Seq(S) : s \o t = s \o v => t = v
    BY ConcatSimplifications
  <2> QED BY <2>1, <2>4, <2>5
<1> QED BY <1>2, <1>3

\* A name that was not cut belongs to one load balancer only.
LEMMA ShortNameApart ==
  ASSUME NEW a \in LBNames, NEW b \in LBNames, NEW k \in Kinds, NEW l \in Kinds,
         NameOf(a, k) = NameOf(b, l), Short(a)
  PROVE  a = b
<1>1. /\ NameLenLimit \in Nat
      /\ Len(Key(a, k)) \in Nat /\ Len(Key(b, l)) \in Nat
  BY NamerAssumption, KeyShape, LenProperties
<1>2. Len(Key(a, k)) <= NameLenLimit
  <2>1. CASE a = <<>>
    <3>1. Len(KindPrefix[k]) + 2 < NameLenLimit /\ Len(KindPrefix[k]) \in Nat
      BY NamerAssumption, PrefixShape
    <3> QED BY <1>1, <2>1, <3>1 DEF Key
  <2>2. CASE a # <<>>
    BY <2>2 DEF Short, Key
  <2> QED BY <2>1, <2>2
<1>3. NameOf(a, k) = Key(a, k)
  BY <1>2, NameShape
<1>4. Len(Key(b, l)) <= NameLenLimit
  <2>1. Len(Key(b, l)) > NameLenLimit => Len(NameOf(b, l)) = NameLenLimit + 1
    BY NameShape
  <2> QED BY <1>1, <1>2, <1>3, <2>1
<1>5. NameOf(b, l) = Key(b, l)
  BY <1>4, NameShape
<1> QED BY <1>3, <1>5, KeysApart

-----------------------------------------------------------------------------
\* The load balancer in a description is one that has the resource among its
\* own, and the running command is for a known load balancer.
OwnerInv ==
  /\ owner \in [Ids -> LBNames \cup {None}]
  /\ \A i \in Ids : owner[i] # None => \E l \in Kinds : i = Id(owner[i], l)
  /\ run # None => /\ run.lb \in LBNames /\ run.todo \subseteq Kinds
                   /\ run = [op |-> run.op, lb |-> run.lb, force |-> run.force,
                             todo |-> run.todo, failed |-> run.failed]

LEMMA InitOwner == Init => OwnerInv
BY DEF Init, OwnerInv

\* What an operation on one resource does.
Touches(k) == LET i == Id(run.lb, k)
              IN  /\ \/ owner' = owner
                     \/ owner' = [owner EXCEPT ![i] = run.lb]
                     \/ owner' = [owner EXCEPT ![i] = None]
                  /\ \E failed : Finished(k, failed)

LEMMA OperationTouches ==
  ASSUME NEW k, ensureKind(k) \/ deleteKind(k)
  PROVE  Touches(k)
BY DEF ensureKind, deleteKind, Touches

\* A step leaves the descriptions alone, or it is an operation of the running
\* command on one of its own resources.
LEMMA StepOwner ==
  ASSUME OwnerInv, [Next]_vars
  PROVE  \/ owner' = owner
         \/ /\ run # None
            /\ \E k \in Kinds : Touches(k)
<1>1. ASSUME run # None, NEW k \in run.todo, ensureKind(k) \/ deleteKind(k)
      PROVE  k \in Kinds /\ Touches(k)
  BY <1>1, OperationTouches DEF OwnerInv
<1> QED BY <1>1 DEF Next, Start, Stop, vars

LEMMA NextOwner ==
  ASSUME OwnerInv, [Next]_vars
  PROVE  OwnerInv'
<1>1. CASE UNCHANGED vars
  BY <1>1 DEF OwnerInv, vars, Ids, Id
<1>2. CASE \E op \in {"create", "delete"}, lb \in LBNames, force \in BOOLEAN :
             Start(op, lb, force)
  BY <1>2 DEF Start, OwnerInv, Ids, Id
<1>3. CASE Stop
  BY <1>3 DEF Stop, OwnerInv, Ids, Id
<1>4. ASSUME run # None, NEW k \in run.todo, ensureKind(k) \/ deleteKind(k)
      PROVE  OwnerInv'
  <2> DEFINE i == Id(run.lb, k)
  <2>1. Touches(k) /\ k \in Kinds /\ run.lb \in LBNames /\ i \in Ids
    BY <1>4, OperationTouches DEF OwnerInv, Ids
  <2>2. PICK failed : run' = [run EXCEPT !.todo = @ \ {k}, !.failed = @ \cup failed]
    BY <2>1 DEF Touches, Finished
  <2>3. (run # None => /\ run.lb \in LBNames /\ run.todo \subseteq Kinds
                       /\ run = [op |-> run.op, lb |-> run.lb, force |-> run.force,
                                 todo |-> run.todo, failed |-> run.failed])'
    BY <1>4, <2>2 DEF OwnerInv
  <2>4. owner' = owner \/ owner' = [owner EXCEPT ![i] = run.lb]
                       \/ owner' = [owner EXCEPT ![i] = None]
    BY <2>1 DEF Touches
  <2>5. owner' \in [Ids -> LBNames \cup {None}]
    BY <2>1, <2>4 DEF OwnerInv
  <2>6. \A x \in Ids : owner'[x] # None => \E l \in Kinds : x = Id(owner'[x], l)
    <3> HIDE DEF i
    <3>1. TAKE x \in Ids
    <3>2. HAVE owner'[x] # None
    <3>3. CASE owner'[x] = owner[x]
      BY <3>2, <3>3 DEF OwnerInv
    <3>4. CASE x = i /\ owner'[x] = run.lb
      BY <3>4, <2>1 DEF i
    <3> QED BY <2>1, <2>4, <3>2, <3>3, <3>4 DEF OwnerInv
  <2> QED BY <2>3, <2>5, <2>6 DEF OwnerInv, Ids, Id
<1> QED BY <1>1, <1>2, <1>3, <1>4 DEF Next

LEMMA OwnerInvariant == Spec => []OwnerInv
BY InitOwner, NextOwner, PTL DEF Spec

(***************************************************************************)
(* AllNamesAccepted: for every name of a load balancer, the empty one too, *)
(* the names that decorateName makes are no longer than the cloud accepts, *)
(* and end in "-" only if the load balancer's own name does: no cut leaves *)
(* such a name.                                                            *)
(***************************************************************************)
THEOREM AllNamesAccepted == Spec => []NamesAccepted
<1>1. OwnerInv => NamesAccepted
  <2> SUFFICES ASSUME OwnerInv, NEW i \in Ids, owner[i] # None
               PROVE  /\ Len(i[2]) <= NameLenLimit + 1
                      /\ EndsInDash(i[2]) => EndsInDash(owner[i])
    BY DEF NamesAccepted
  <2>1. PICK k \in Kinds : i = Id(owner[i], k)
    BY DEF OwnerInv
  <2>2. owner[i] \in LBNames
    BY DEF OwnerInv
  <2>3. i[2] = NameOf(owner[i], k)
    BY <2>1 DEF Id
  <2> QED BY <2>2, <2>3, NamesFit
<1> QED BY <1>1, OwnerInvariant, PTL

(***************************************************************************)
(* A load balancer whose names are not cut is left alone by the commands   *)
(* for the others.                                                         *)
(***************************************************************************)
THEOREM ShortNamesKeptApart == Spec => ShortNamesApart
<1> DEFINE A == \A i \in Ids : owner'[i] # owner[i] /\ owner[i] # None /\ Short(owner[i])
                  => run.lb = owner[i]
<1>1. OwnerInv /\ [Next]_vars => [A]_vars
  <2> SUFFICES ASSUME OwnerInv, [Next]_vars,
                      NEW i \in Ids, owner'[i] # owner[i], owner[i] # None, Short(owner[i])
               PROVE  run.lb = owner[i]
    OBVIOUS
  <2>1. PICK k \in Kinds : run # None /\ Touches(k)
    BY StepOwner
  <2>2. i = Id(run.lb, k) /\ run.lb \in LBNames
    BY <2>1 DEF Touches, OwnerInv
  <2>3. PICK l \in Kinds : i = Id(owner[i], l)
    BY DEF OwnerInv
  <2>4. owner[i] \in LBNames
    BY DEF OwnerInv
  <2>5. NameOf(owner[i], l) = NameOf(run.lb, k)
    BY <2>2, <2>3 DEF Id
  <2> QED BY <2>2, <2>4, <2>5, ShortNameApart
<1> QED BY <1>1, OwnerInvariant, PTL DEF Spec, ShortNamesApart

-----------------------------------------------------------------------------
\* A create has made its own what it has dealt with and was not refused.
EnsuredInv ==
  run # None /\ run.op = "create" =>
    \A k \in Kinds : k \in run.todo \/ k \in run.failed \/ owner[Id(run.lb, k)] = run.lb

RefInv == EnsuredInv /\ ReferencesAcross

\* What a resource points to is ensured before it.
LEMMA PointsBefore ==
  ASSUME NEW k \in Kinds, NEW l \in PointsTo(k)
  PROVE  l \in Kinds /\ TypeOf[l] \in Before(TypeOf[k])
<1>1. TypeOf[k] \in Types
  BY ProjectAssumption
<1> QED BY <1>1 DEF PointsTo, KindsOf, Before, Types

\* One identifier, one type.
LEMMA SamePointers ==
  ASSUME NEW a, NEW b, NEW k, NEW l, Id(a, k) = Id(b, l)
  PROVE  PointsTo(k) = PointsTo(l)
<1>1. TypeOf[k] = TypeOf[l]
  BY DEF Id
<1> QED BY <1>1 DEF PointsTo

\* A resource is ensured when what it points to is there.
LEMMA EnsureRefs ==
  ASSUME OwnerInv, RefInv, run # None, NEW k \in run.todo, ensureKind(k)
  PROVE  RefInv'
<1> DEFINE i == Id(run.lb, k)
<1>1. /\ run.op = "create" /\ Ready(k) /\ run.lb \in LBNames /\ k \in Kinds /\ i \in Ids
      /\ owner \in [Ids -> LBNames \cup {None}] /\ None \notin LBNames
  BY ProjectAssumption DEF ensureKind, OwnerInv, Ids
<1>2. \A lb \in LBNames, l \in Kinds : Id(lb, l) \in Ids
  BY DEF Ids
<1>3. CASE /\ PointsTo(k) \cap run.failed = {}
           /\ owner' = [owner EXCEPT ![i] = run.lb]
           /\ Finished(k, {})
  <2>1. run' = [run EXCEPT !.todo = @ \ {k}, !.failed = @ \cup {}]
    BY <1>3 DEF Finished
  <2>2. /\ run'.op = run.op /\ run'.lb = run.lb /\ run'.todo = run.todo \ {k}
        /\ run'.failed = run.failed
    BY <2>1 DEF OwnerInv
  <2>3. \A x \in Ids : owner'[x] = IF x = i THEN run.lb ELSE owner[x]
    BY <1>1, <1>3
  <2> HIDE DEF i
  <2>4. ASSUME NEW l \in Kinds, l \notin run'.todo, l \notin run'.failed
        PROVE  owner'[Id(run.lb, l)] = run.lb
    <3>1. CASE l = k
      BY <1>1, <2>3, <3>1 DEF i
    <3>2. CASE l # k
      <4>1. owner[Id(run.lb, l)] = run.lb
        BY <1>1, <2>2, <2>4, <3>2 DEF RefInv, EnsuredInv
      <4> QED BY <1>1, <1>2, <2>3, <4>1
    <3> QED BY <3>1, <3>2
  <2>5. ASSUME NEW lb \in LBNames, NEW x \in Kinds, owner'[Id(lb, x)] = lb, NEW l \in PointsTo(x)
        PROVE  owner'[Id(lb, l)] # None
    <3>1. l \in Kinds
      BY <2>5, PointsBefore
    <3>2. CASE Id(lb, x) = i
      <4>1. lb = run.lb /\ l \in PointsTo(k)
        BY <1>1, <2>3, <2>5, <3>2, SamePointers DEF i
      <4>2. l \notin run.todo /\ l \notin run.failed
        BY <1>1, <1>3, <4>1, PointsBefore DEF Ready
      <4>3. owner[Id(run.lb, l)] = run.lb
        BY <1>1, <3>1, <4>2 DEF RefInv, EnsuredInv
      <4> QED BY <1>1, <1>2, <2>3, <3>1, <4>1, <4>3
    <3>3. CASE Id(lb, x) # i
      <4>1. owner[Id(lb, x)] = lb
        BY <1>2, <2>3, <2>5, <3>3
      <4>2. owner[Id(lb, l)] # None
        BY <2>5, <4>1 DEF RefInv, ReferencesAcross
      <4> QED BY <1>1, <1>2, <2>3, <3>1, <4>2
    <3> QED BY <3>2, <3>3
  <2>6. EnsuredInv'
    BY <2>2, <2>4 DEF EnsuredInv, Id
  <2>7. ReferencesAcross'
    BY <2>5 DEF ReferencesAcross, Id, PointsTo
  <2> QED BY <2>6, <2>7 DEF RefInv
<1>4. CASE owner' = owner /\ Finished(k, {k})
  <2>1. run' = [run EXCEPT !.todo = @ \ {k}, !.failed = @ \cup {k}]
    BY <1>4 DEF Finished
  <2>2. /\ run'.op = run.op /\ run'.lb = run.lb /\ run'.todo = run.todo \ {k}
        /\ run'.failed = run.failed \cup {k}
    BY <2>1 DEF OwnerInv
  <2> QED BY <1>1, <1>4, <2>2 DEF RefInv, EnsuredInv, ReferencesAcross, Id, PointsTo
<1> QED BY <1>3, <1>4 DEF ensureKind

\* A resource that is in use is not deleted.
LEMMA DeleteRefs ==
  ASSUME OwnerInv, RefInv, run # None, NEW k \in run.todo, deleteKind(k)
  PROVE  RefInv'
<1> DEFINE i == Id(run.lb, k)
<1>1. /\ run.op = "delete" /\ run.lb \in LBNames /\ k \in Kinds /\ i \in Ids
      /\ owner \in [Ids -> LBNames \cup {None}] /\ None \notin LBNames
  BY ProjectAssumption DEF deleteKind, OwnerInv, Ids
<1>2. \A lb \in LBNames, l \in Kinds : Id(lb, l) \in Ids
  BY DEF Ids
<1>3. \/ owner' = owner
      \/ /\ owner[i] = None \/ ~InUse(i)
         /\ owner' = [owner EXCEPT ![i] = None]
  BY DEF deleteKind
<1>4. PICK failed : run' = [run EXCEPT !.todo = @ \ {k}, !.failed = @ \cup failed]
  BY DEF deleteKind, Finished
<1>5. run'.op = "delete"
  BY <1>1, <1>4 DEF OwnerInv
<1>6. EnsuredInv'
  BY <1>5 DEF EnsuredInv
<1>7. CASE owner' = owner
  BY <1>6, <1>7 DEF RefInv, ReferencesAcross, Id, PointsTo
<1>8. CASE owner' # owner /\ owner' = [owner EXCEPT ![i] = None]
  <2>1. ~InUse(i) /\ \A x \in Ids : owner'[x] = IF x = i THEN None ELSE owner[x]
    BY <1>1, <1>3, <1>8
  <2> HIDE DEF i
  <2>2. ASSUME NEW lb \in LBNames, NEW x \in Kinds, owner'[Id(lb, x)] = lb, NEW l \in PointsTo(x)
        PROVE  owner'[Id(lb, l)] # None
    <3>1. l \in Kinds
      BY <2>2, PointsBefore
    <3>2. owner[Id(lb, x)] = lb
      BY <1>1, <1>2, <2>1, <2>2
    <3>3. owner[Id(lb, l)] # None /\ Id(lb, l) # i
      BY <2>1, <2>2, <3>2 DEF RefInv, ReferencesAcross, InUse
    <3> QED BY <1>2, <2>1, <3>1, <3>3
  <2>3. ReferencesAcross'
    BY <2>2 DEF ReferencesAcross, Id, PointsTo
  <2> QED BY <1>6, <2>3 DEF RefInv
<1> QED BY <1>3, <1>7, <1>8

LEMMA NextRefs ==
  ASSUME OwnerInv, RefInv, [Next]_vars
  PROVE  RefInv'
<1>1. CASE UNCHANGED vars
  BY <1>1 DEF RefInv, EnsuredInv, ReferencesAcross, vars, Id, PointsTo
<1>2. ASSUME NEW op, NEW lb, NEW force, Start(op, lb, force) PROVE RefInv'
  <2>1. run'.todo = Kinds /\ owner' = owner
    BY <1>2 DEF Start
  <2> QED BY <2>1 DEF RefInv, EnsuredInv, ReferencesAcross, Id, PointsTo
<1>3. CASE Stop
  BY <1>3 DEF Stop, RefInv, EnsuredInv, ReferencesAcross, Id, PointsTo
<1> QED BY <1>1, <1>2, <1>3, EnsureRefs, DeleteRefs DEF Next

(***************************************************************************)
(* ReferencesKept: for any load balancers in one project, whatever names   *)
(* they share, no resource ever points to one that does not exist.         *)
(***************************************************************************)
THEOREM ReferencesKept == Spec => []ReferencesAcross
<1>1. Init => RefInv
  <2> SUFFICES ASSUME Init PROVE RefInv
    OBVIOUS
  <2>1. \A lb \in LBNames, k \in Kinds : owner[Id(lb, k)] = None
    BY DEF Init, Ids
  <2> QED BY <2>1, ProjectAssumption DEF Init, RefInv, EnsuredInv, ReferencesAcross
<1>2. RefInv => ReferencesAcross
  BY DEF RefInv
<1> QED BY <1>1, <1>2, NextRefs, OwnerInvariant, PTL DEF Spec
=============================================================================
