SPECIFICATION Spec
CONSTANTS
  s1 = s1
  s2 = s2
  none = none
  p1 = p1
  p2 = p2
  c1 = c1
  c2 = c2
  tag = tag
  f1 = f1
  f2 = f2
  r1 = r1
  r2 = r2
  noReport = noReport
  noCode = noCode
  Addr = {s1, s2}
  NoAddr = none
  FirstAddrs <- TwoAddrs
  Prefab = {p1, p2}
  Code = {c1}
  NoCode = noCode
  Tag = {tag}
  FirstPrefabs <- PrefabsOf
  File = {f1, f2}
  FileTag = {tag}
  FirstFiles <- FilesOf
  Report = {r1, r2}
  NoReport = noReport
  Script = {c1, c2}
  NoScript = noCode
  FirstConf <- ConfOf
  Tours <- SomeTours
  MaxFlight = 1
  MaxLost = 1
INVARIANT HeartbeatStops
CHECK_DEADLOCK FALSE
