\* Two removes and an unforced create on one load balancer.
SPECIFICATION Spec
CONSTANTS
  None = None
  OwnCert = OwnCert
  c1 = c1
  c2 = c2
  c3 = c3
  s1 = s1
  p1 = p1
  g1 = g1
  g2 = g2
  g3 = g3
  t1 = t1
  t2 = t2
  t3 = t3
  ip1 = ip1
  root = root
  a = a
  b = b
  c = c
  Procs = {a, b, c}
  Job <- Removers
  Members = {c1, c2, c3}
  Clusters = {c1, c2, c3}
  IGsOf <- MCIGsOf
  Tags = {t1, t2, t3}
  TagOf <- MCTagOf
  Supported = {c1, c2, c3}
  Services = {s1}
  NodePorts = {p1}
  InstanceGroups = {g1, g2, g3}
  Paths = {root}
  RootPath = root
  Probe <- NoProbes
  IPs = {ip1}
  CertData = {}
  PreSharedCerts = {}
  PortMaps <- OnePort
  MaxFaults = 1
  Specs <- Sites
  Commands <- MCCommands
INVARIANTS
  ConcurrentTypeOK
  RemovesTakeEffect
  StatusTellsMembers
PROPERTIES
  RemovesTouchOwnClusters
