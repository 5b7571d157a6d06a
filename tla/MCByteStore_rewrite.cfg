CONSTANTS
  photo = photo  nothing = nothing  Absent = Absent  Anything = Anything
  Callers = {c1, c2, c3}  Contents = {photo, nothing}  Forged = {forged}
  ChunksOf <- MCChunksOf
SPECIFICATION Spec
SYMMETRY MCCallersAlike
INVARIANTS RewriteIsNoOp
