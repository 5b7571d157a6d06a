CONSTANTS
  s1 = s1  r1 = r1  r2 = r2  d1 = d1  b1 = b1  b2 = b2  p1 = p1  p2 = p2  g1 = g1
  Nil = Nil  Malformed = Malformed
  SnapshotIds = {s1}  Docs = {d1}  Recipes = {r1, r2}  Bodies = {b1, b2}
  Plans = {p1, p2}  Digests = {g1}
  TitleOf <- MCTitleOf  LinesOf <- MCLinesOf
  Clients = {c1, c2}  Rebuilders = {}  PoolSize = 2  MaxVersion = 1
  Requests <- MCEverything
SPECIFICATION Spec
SYMMETRY MCClientsAlike
INVARIANTS KeysHold
PROPERTIES RepositoryContract NothingIsUndone
