CONSTANTS
  Handlers = {h1, h2}  Photos = {}  Links = {link}  Pictures = {dish}
  Snaps = {s1}  MaxVersions = 2
  None = None  Nobody = Nobody
SPECIFICATION Spec
SYMMETRY MCAlike
INVARIANTS PictureCarried
