CONSTANTS
  Handlers = {h1}  Recipes = {tart}  Photographed = {}  Pictures = {}
  Plain = {}  MaxVersion = 2  None = None
SPECIFICATION Spec
INVARIANTS CookingOutlivesItsPlan
