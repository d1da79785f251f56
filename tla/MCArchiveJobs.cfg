CONSTANTS
  a = a
  b = b
  w1 = w1
  w2 = w2
  s1 = s1
  s2 = s2
  p = p
  t = t
  Workers = {w1, w2}
  Jobs <- ThreeJobs
  Volume <- VolumeOf
  SubvolId <- IdOf
  Image <- NameOf
  Delete = {1}
  Nothing = Nothing
  Stores = {s1, s2}
  From <- FromFirst
  To <- ToP
  Imports = {21, 22}
  Source <- FromStore
  Target <- IntoT
  ReadOnly = {22}
SPECIFICATION ArchiveSpec
SYMMETRY Symmetry
INVARIANTS
  ImageIsFaithful 
  StoredIsWhole ImportIsFaithful 
