SPECIFICATION Spec
CONSTANTS
  Graphs = {g}
  Contents = {a, b}
  NoContent = NoContent
  Threads = {t1, t2, t3}
  NoGraph = NoGraph
  MaxVersions = 2
SYMMETRY Symmetry
INVARIANTS
  CacheMatchesRows
  QuietReadsAreCurrent
PROPERTIES
  PromiseIsKept
