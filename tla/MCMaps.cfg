SPECIFICATION MCSpec
\* A word of 5 values makes the counter wrap every 4 puts.
CONSTANTS
  Objs = {o1, o2, o3}
  IdMod = 5
  Lifetime = 3
  Keys = {k1, k2, k3}
  Values = {v1, v2}
  Goroutines = {g1, g2, g3}
  Addresses = {a1, a2, a3}
  Capacity = 2
  None = None
SYMMETRY Symmetry
INVARIANT LookupFindsOwn
PROPERTY ImplementsBoundedCache
PROPERTY EvictsOldest
