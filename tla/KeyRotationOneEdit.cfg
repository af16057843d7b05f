SPECIFICATION AddingSpec
CONSTANTS
  Keys = {k1, k2}
  FirstKey = k1
  DevKey = dev
  Instances = {i1, i2}
  Verifiers = {v1}
  Lifetime = 1
  CacheAge = 2
  MaxTime = 5
SYMMETRY Symmetry
INVARIANTS
  Verifiable
