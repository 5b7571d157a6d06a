CONSTANTS
  Handlers = {h1, h2}  Recipes = {r1, r2}  Tokens = {t1, t2}  Unsafe = {odd}
  MaxMintAttempts = 2  MaxVersion = 2  NoRecipe = NoRecipe
SPECIFICATION Spec
SYMMETRY MCAlike
INVARIANTS RevocationIsFinal TokensReachOneRecipe PermanentUntilRevoked AnswersAreCurrent
