SPECIFICATION FairSpec
CONSTANTS
  t1 = t1
  a = a
  Tags = {t1, t2}
  Cfgs = {a, b}
  Editors = {e1}
  Worlds <- Converging
  None = None
PROPERTIES Converges
