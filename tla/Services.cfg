\* Two services whose node ports move while commands run; every command ends.
SPECIFICATION FairSpec
CONSTANTS
  None = None
  OwnCert = OwnCert
  c1 = c1
  c2 = c2
  s1 = s1
  s2 = s2
  p1 = p1
  p2 = p2
  g1 = g1
  g2 = g2
  t1 = t1
  t2 = t2
  ip1 = ip1
  ip2 = ip2
  d1 = d1
  d2 = d2
  shared = shared
  root = root
  healthz = healthz
  Clusters = {c1}
  IGsOf <- SingleIG
  Tags = {t1}
  TagOf <- OneTag
  Supported = {c1}
  Services = {s1, s2}
  NodePorts = {p1, p2}
  InstanceGroups = {g1}
  Paths = {root}
  RootPath = root
  Probe <- NoProbes
  IPs = {ip1}
  CertData = {}
  PreSharedCerts = {}
  PortMaps <- MovingPorts
  MaxFaults = 1
  LegacyLBs = {}
  Specs <- ServiceSites
  Commands <- ServiceCommands
INVARIANTS
  References
  CreateComplete
  DeleteComplete
  DeleteInOrder
PROPERTIES
  Terminates
