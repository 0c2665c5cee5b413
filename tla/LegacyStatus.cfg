\* The status on a forwarding rule is never updated.
SPECIFICATION Spec
CONSTANTS
  None = None
  OwnCert = OwnCert
  c1 = c1
  c2 = c2
  s1 = s1
  s2 = s2
  p1 = p1
  p2 = p2
  g1 = g1
  g2 = g2
  t1 = t1
  t2 = t2
  ip1 = ip1
  ip2 = ip2
  d1 = d1
  d2 = d2
  shared = shared
  root = root
  healthz = healthz
  Clusters = {c1, c2}
  IGsOf <- TwoIGs
  Tags = {t1, t2}
  TagOf <- TwoTags
  Supported = {c1, c2}
  Services = {s1}
  NodePorts = {p1}
  InstanceGroups = {g1, g2}
  Paths = {root, healthz}
  RootPath = root
  Probe <- SomeProbes
  IPs = {ip1}
  CertData = {}
  PreSharedCerts = {}
  PortMaps <- OnePort
  MaxFaults = 0
  LegacyLBs <- OldLBs
  Specs <- HTTPSites
  Commands <- MembershipCommands
INVARIANTS
  RemovedFromStatus
