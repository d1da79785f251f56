CONSTANTS
  a = a
  b = b
  d = d
  e = e
  Dirs = {d, e}
  Names = {a, b}
  NoDir = NoDir
  Lower <- TwoLayers
  Buckets = {0, 1}
SPECIFICATION Spec
INVARIANTS TypeOK CacheCoherent 
