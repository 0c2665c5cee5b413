\* Creates of ingresses with hosts and paths, and services that move.
SPECIFICATION Spec
CONSTANTS
  None = None
  s1 = s1
  s2 = s2
  n1 = n1
  n2 = n2
  n3 = n3
  web = web
  adm = adm
  h1 = h1
  foo = foo
  num80 = num80
  num81 = num81
  Services = {s1, s2}
  NodePorts = {n1, n2, n3}
  PortRefs = {num80, num81, web, adm}
  Hosts = {h1}
  NoHost = NoHost
  DefaultHost = DefaultHost
  URLPaths = {foo}
  NoPath = NoPath
  DefaultPath = DefaultPath
  Sites <- MCSites
  Tables <- MCTables
  MaxFaults = 1
INVARIANTS
  RoutesAsWritten
  RoutedToItsService
  RecreateWithoutForce
