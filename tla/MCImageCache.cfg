CONSTANTS
  m1 = m1
  u1 = u1
  u2 = u2
  u3 = u3
  Mounts = {m1}
  Updates = {u1, u2, u3}
  Version <- Releases
  NChunks = 1
  MaxDeaths = 1
SPECIFICATION Spec
SYMMETRY Symmetry
INVARIANTS CachedIsWhole RunningDiskIsKept
PROPERTY SomeImageStays
