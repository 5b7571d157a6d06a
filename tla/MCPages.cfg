CONSTANTS
  Handlers = {h1}  Recipes = {soup, tart}  Photographed = {soup}  Plain = {tart}
  Pictures = {dish}  MaxVersion = 2  None = None
SPECIFICATION Spec
INVARIANTS NothingHeldIsMissing CookingFollowsTheRecipe KeptPicturesAreServed
  RecipePageOutlivesItsSource
