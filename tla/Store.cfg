SPECIFICATION Spec
CONSTANTS
  a = a
  b = b
  small = small
  v = v
  w = w
  r = r
  s = s
  None = None
  Backends = {"fs", "s3"}
  Contents = {a, b, small}
  Large = {a, b}
  Writers = {v, w}
  Sessions = {r, s}
  Size = 2
  MaxSpans = 2
  MaxCrashes = 2
SYMMETRY Alike
INVARIANTS
  TypeOK
  DigestNamesContent
  OnlyTheEndIsCut
PROPERTIES
  RefsResolve
  EvidenceIsKept
  KeepsItsPromise
CHECK_DEADLOCK FALSE
