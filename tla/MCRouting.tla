------------------------------ MODULE MCRouting ------------------------------
(***************************************************************************)
(* Small instances of IngressRouting for TLC.                              *)
(***************************************************************************)
EXTENDS IngressRouting

CONSTANTS s1, s2, n1, n2, n3, web, adm, h1, foo, num80, num81

B(svc, port) == [svc |-> svc, port |-> port]
P(port, name, node) == [port |-> port, name |-> name, node |-> node]
Path(path, b) == [path |-> path, be |-> b]
HTTPRule(host, paths) == [host |-> host, paths |-> paths, http |-> TRUE]
OtherRule == [host |-> h1, paths |-> <<>>, http |-> FALSE]
Site(backend, rules) == [backend |-> backend, rules |-> rules]

\* Service s1 has two ports.  The services exchange node ports, or s2 is gone;
\* in the third table two ports of s1 have the same number (over TCP and UDP).
MCTables ==
  {[s \in Services |-> IF s = s1 THEN <<P(num80, web, n1), P(num81, adm, n2)>>
                                 ELSE <<P(num80, web, n3)>>],
   [s \in Services |-> IF s = s1 THEN <<P(num80, web, n3), P(num80, adm, n2)>>
                                 ELSE <<P(num80, web, n1)>>],
   [s \in Services |-> IF s = s1 THEN <<P(num80, web, n1)>> ELSE <<>>]}

BothPorts == {t \in MCTables : \E x, y \in DOMAIN t[s1] : t[s1][x].port # t[s1][y].port}

\* Rules of the same host, rules without a host, equal and empty paths, a rule
\* that is not HTTP, two hosts with two paths, no default backend.
MCSites ==
  {Site(B(s1, num80), <<>>),
   Site(B(s1, num80), <<HTTPRule(h1, <<Path(foo, B(s2, web))>>),
                        HTTPRule(h1, <<Path(NoPath, B(s1, web))>>)>>),
   Site(B(s2, num80), <<HTTPRule(NoHost, <<Path(foo, B(s1, adm)), Path(foo, B(s2, num80))>>),
                        OtherRule>>),
   Site(B(s1, web), <<HTTPRule(NoHost, <<Path(NoPath, B(s1, web)), Path(DefaultPath, B(s2, web)),
                                      Path(foo, B(s1, web))>>),
                      HTTPRule(h1, <<Path(foo, B(s2, web))>>)>>),
   Site(None, <<HTTPRule(h1, <<Path(foo, B(s1, web))>>)>>)}

\* An ingress that uses both ports of s1, while s1 has them.
TwoPorts == {Site(B(s1, num80), <<HTTPRule(NoHost, <<Path(foo, B(s1, num81))>>)>>)}
=============================================================================
