------------------------------ MODULE MCProbes ------------------------------
(***************************************************************************)
(* Small instances of HealthProbes for TLC.  The path "ok" lacks the slash *)
(* of "/ok".                                                               *)
(***************************************************************************)
EXTENDS HealthProbes, TLC

CONSTANTS root, slashOk, ok, slashUp, num80, num8080, web, other

MCWithSlash == ok :> slashOk @@ NoPath :> root

\* Containers with one probe out of a set, on the given ports.
With(probes, ports) == [probe : probes, ports : {ports}]
Web == [number : {num80}, name : {web}]
Other == [number : {num8080}, name : {other}]

Simple(refs, paths) == [http : {TRUE}, plain : {TRUE}, scheme : {"HTTP"},
                        port : refs, path : paths]

\* Probes of all kinds on the web port, and probes on another port.
MCContainers ==
  With({None}, Web)
  \cup With(Simple({num80}, {slashOk, ok, root, slashUp}), Web)
  \cup With(Simple({web, other}, {slashUp}), Web \cup Other)
  \cup With([http : {TRUE}, plain : {FALSE}, scheme : {"HTTP"}, port : {web}, path : {slashUp}], Web)
  \cup With([http : {TRUE}, plain : {TRUE}, scheme : {"HTTPS"}, port : {web}, path : {slashUp}], Web)

\* No pod, one pod, or two of which only the second has a matching probe.
MCPodLists == {<<>>} \cup {<<x>> : x \in MCContainers}
              \cup {<<x, y>> : x \in With({None}, Web), y \in With(Simple({web}, {slashOk, ok}), Web)}
=============================================================================
