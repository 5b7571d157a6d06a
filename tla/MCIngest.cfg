CONSTANTS
  Handlers = {h1, h2}  Photos = {page}  Links = {link}  Pictures = {dish}
  Snaps = {s1, s2}  MaxVersions = 2
  None = None  Nobody = Nobody
SPECIFICATION Spec
SYMMETRY MCAlike
INVARIANTS AcknowledgedImportsHold RefusalsPersistNothing WhatIsReferredToIsKept
  MediaIsDeclared BillingBounded
