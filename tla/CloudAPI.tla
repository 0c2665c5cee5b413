------------------------------ MODULE CloudAPI ------------------------------
(***************************************************************************)
(* How one call to the Google Cloud or Kubernetes API may end.  The APIs   *)
(* are not part of this repository: they are modelled from the way the     *)
(* syncers use them.                                                       *)
(*                                                                         *)
(* A call is described by the set of its possible outcomes.  An outcome    *)
(* records the value of the resource after the call (res), whether the     *)
(* caller gets an error (err) and whether the environment is to blame for  *)
(* it (fault).  A faulty call may or may not have taken effect: the answer *)
(* of a call that was carried out can be lost, and so can the Get that     *)
(* every syncer sends after a successful insert or update.                 *)
(***************************************************************************)
CONSTANT None       \* "does not exist": a resource, a link, a port

\* The values of an outcome, when the resource has its values in S.
Outcomes(S) == [res : S, err : BOOLEAN, fault : BOOLEAN]

\* The call is carried out and the caller learns it.
Ok(v) == [res |-> v, err |-> FALSE, fault |-> FALSE]

\* The call is refused for a reason that a retry would meet again.
Refused(v) == [res |-> v, err |-> TRUE, fault |-> FALSE]

\* The call fails for a reason of the environment, leaving a value of S.
Faulty(S) == {[res |-> v, err |-> TRUE, fault |-> TRUE] : v \in S}

\* A call that replaces old by new.
Call(old, new) == {Ok(new)} \cup Faulty({old, new})

\* Inserting under a name that is taken is refused.
Create(cur, new) ==
  IF cur = None THEN Call(None, new) ELSE {Refused(cur)} \cup Faulty({cur})

\* A resource that another one points to cannot be deleted.  All the delete
\* handlers treat "not found" as success.
Delete(cur, inUse) ==
  IF cur # None /\ inUse THEN {Refused(cur)} \cup Faulty({cur})
                         ELSE Call(cur, None)

(***************************************************************************)
(* The shape shared by every ensure method of the syncers: Get the         *)
(* resource; if the Get fails for any reason, create it; if it matches, do *)
(* nothing; otherwise update it under --force and refuse to overwrite it   *)
(* without.  A Get that fails for another reason than "not found" is       *)
(* followed by an insert that meets a name that is taken.                  *)
(***************************************************************************)
Ensure(cur, create, matches, force, update) ==
  IF cur = None
    THEN create
    ELSE Faulty({cur}) \cup (CASE matches -> {Ok(cur)}
                               [] ~matches /\ force -> update
                               [] ~matches /\ ~force -> {Refused(cur)})

(***************************************************************************)
(* A loop over keys makes one call for each key and goes on after errors.  *)
(* f maps every key to the outcomes of its call; a choice maps every key   *)
(* to one of them.                                                         *)
(***************************************************************************)
Choices(f) ==
  {o \in [DOMAIN f -> UNION {f[k] : k \in DOMAIN f}] : \A k \in DOMAIN f : o[k] \in f[k]}

Results(o) == [k \in DOMAIN o |-> o[k].res]
AnyErr(o) == \E k \in DOMAIN o : o[k].err
AnyFault(o) == \E k \in DOMAIN o : o[k].fault
=============================================================================
