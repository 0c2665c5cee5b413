\* Three clusters whose pods have probes of all kinds.
SPECIFICATION Spec
CONSTANTS
  None = None
  root = root
  slashOk = slashOk
  ok = ok
  slashUp = slashUp
  num80 = num80
  num8080 = num8080
  web = web
  other = other
  Clusters = {c1, c2, c3}
  Numbers = {num80, num8080}
  Names = {web, other}
  Rooted = {root, slashOk, slashUp}
  NoPath = NoPath
  Bare = {ok}
  WithSlash <- MCWithSlash
  SvcPort = num80
  Protocol = "HTTP"
  PodLists <- MCPodLists
  MaxFaults = 1
INVARIANTS
  PathOfEveryProbe
