-------------------------------- MODULE Namer --------------------------------
(***************************************************************************)
(* pkg/gcp/namer: the names of the resources of a load balancer.  A name   *)
(* is a sequence of characters: what kind of resource it is, a delimiter   *)
(* and the name of the load balancer, cut to the length that the cloud     *)
(* accepts.                                                                *)
(***************************************************************************)
EXTENDS Naturals, Sequences

CONSTANTS
  NameLenLimit,     \* names longer than this are truncated (62 in the code)
  Kinds,            \* kinds of resources, one per node port where ports count
  KindPrefix,       \* [Kinds -> Seq(characters)]: "mci1-um", "mci1-be-30061", ...
  LBNames           \* names of load balancers

lbNameDelimiter == <<"-", "-">>
alphaNumericChar == "0"

EndsInDash(name) == name # <<>> /\ name[Len(name)] = "-"

\* Every kind has a prefix that leaves room for the delimiter and does not end
\* in "-", and no prefix continues another one with the delimiter.  A load
\* balancer can have any name: the commands only count their arguments.
ASSUME NamerAssumption ==
  /\ NameLenLimit \in Nat
  /\ KindPrefix \in [Kinds -> Seq(STRING)] /\ LBNames \subseteq Seq(STRING)
  /\ \A k \in Kinds : Len(KindPrefix[k]) + 2 < NameLenLimit /\ ~EndsInDash(KindPrefix[k])
  /\ \A k, l \in Kinds : LET m == KindPrefix[k] \o lbNameDelimiter
                             n == KindPrefix[l] \o lbNameDelimiter
                         IN  k # l /\ Len(m) <= Len(n) => SubSeq(n, 1, Len(m)) # m

\* Seeded fault: the trailing character is not appended.
TruncateBare(key) ==
  IF Len(key) > NameLenLimit THEN SubSeq(key, 1, NameLenLimit) ELSE key

\* Seeded fault: the limit of the cloud is taken for that of the prefix.
TruncateLong(key) ==
  IF Len(key) > NameLenLimit
    THEN Append(SubSeq(key, 1, NameLenLimit + 1), alphaNumericChar) ELSE key

Truncate(key) ==
  IF Len(key) > NameLenLimit
    THEN Append(SubSeq(key, 1, NameLenLimit), alphaNumericChar) ELSE key

decorateName(prefix, lb) ==
  IF lb = <<>> THEN prefix ELSE Truncate(prefix \o lbNameDelimiter \o lb)

NameOf(lb, k) == decorateName(KindPrefix[k], lb)

\* No name of the load balancer has to be cut.  (One that is cut can still be
\* the same as before: a name of 63 characters that ends in "0".)
Short(lb) ==
  \A k \in Kinds : Len(KindPrefix[k] \o lbNameDelimiter \o lb) <= NameLenLimit
=============================================================================
