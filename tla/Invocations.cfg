\* Commands with all kinds of flags, files and kubeconfigs.
SPECIFICATION Spec
CONSTANTS
  c1 = c1
  c2 = c2
  c3 = c3
  c4 = c4
  default = default
  n2 = n2
  ip1 = ip1
  ip2 = ip2
  gceMulti = gceMulti
  gce = gce
  None = None
  Clusters = {c1, c2, c3, c4}
  Namespaces = {default, n2}
  DefaultNamespace = default
  Classes = {gceMulti, gce}
  GceMultiIngressClass = gceMulti
  Addresses = {ip1, ip2}
  Version <- MCVersion
  Files <- MCFiles
  Kubeconfigs <- MCKubeconfigs
  Invocations <- MCInvocations
  MaxFaults = 1
INVARIANTS
  CommandLineTypeOK
  DeleteUndoesCreate
  SupportedVersions
PROPERTIES
  TouchesOnlyAsked
