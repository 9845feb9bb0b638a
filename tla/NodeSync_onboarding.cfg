SPECIFICATION Spec
CONSTANTS
  t1 = t1
  a = a
  Tags = {t1, t2}
  Cfgs = {a, b}
  Editors = {}
  Worlds <- Onboard
  None = None
PROPERTIES SweepsOnlyImported
