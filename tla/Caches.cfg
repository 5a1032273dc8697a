CONSTANTS
  t1 = t1
  t2 = t2
  s1 = s1
  s2 = s2
  Threads = {t1, t2}
  Streams = {s1, s2}
  CurrentStream <- StreamOf
  Lists = {m1}
  Blocks = {1, 2, 3, 4}
  Owner <- OwnerOf
  MAX_ENTRIES = 1
  MAX_CALLS = 3
  MAX_VERSION = 1
  Processes = {p1, p2}
  Cases = {c1, c2}
  Temps = {f1, f2}
  MAX_ARTIFACTS = 1
  Nobody = Nobody
SPECIFICATION Spec
INVARIANTS ReadsItsLists NotRecycled NoTornFile NoDuplicateWork
PROPERTIES Returns
