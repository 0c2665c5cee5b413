---------------------------- MODULE MCConcurrent ----------------------------
(***************************************************************************)
(* Small instances of ConcurrentCommands for TLC: three clusters, an HTTP  *)
(* service, and two or three processes.                                    *)
(***************************************************************************)
EXTENDS ConcurrentCommands, TLC

CONSTANTS c1, c2, c3, s1, p1, g1, g2, g3, t1, t2, t3, ip1, root, a, b, c

MCIGsOf == c1 :> {g1} @@ c2 :> {g2} @@ c3 :> {g3}
MCTagOf == c1 :> t1 @@ c2 :> t2 @@ c3 :> t3
NoProbes == [x \in Clusters |-> [s \in Services |-> None]]
OnePort == {[x \in Clusters |-> [s \in Services |-> p1]]}

Site == [default |-> s1, paths |-> {}, http |-> TRUE, tls |-> None,
         ip |-> ip1, orders |-> 1]
Sites == {Site}

Cmd(op, clusters, force) ==
  [op |-> op, spec |-> Site, clusters |-> clusters, force |-> force, validate |-> FALSE]

MCCommands == {Cmd(op, C, f) : op \in {"create", "remove"}, C \in SUBSET Clusters, f \in BOOLEAN}

\* Two removes and a create that must not overwrite anything.
Removers == a :> Cmd("remove", {c1}, FALSE) @@ b :> Cmd("remove", {c2}, TRUE)
            @@ c :> Cmd("create", {c1, c2, c3}, FALSE)

\* Two removes that together leave no cluster.
TwoRemovers == a :> Cmd("remove", {c1}, FALSE) @@ b :> Cmd("remove", {c2}, FALSE)
=============================================================================
