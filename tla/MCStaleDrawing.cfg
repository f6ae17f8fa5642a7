SPECIFICATION Spec
CONSTANTS
  r1 = r1 r2 = r2 a = a q = q l = l
  f1 = f1
  Id = {r1, r2, a, q, l}
  Top = Top
  NoId = NoId
  Ty <- Types
  Info <- Infos
  Name = {f1}
  NoName = NoName
  Trees <- OneTree
  NoFile = NoFile
  Disk <- SomeFiles
  PrefabMap <- Prefabs
  Template = "template"
  Positions = {0}
  Texts = {"t"}
  MaxWork = 3
INVARIANT DrawnFromTree
CHECK_DEADLOCK FALSE
