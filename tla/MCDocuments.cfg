SPECIFICATION Spec
CHECK_DEADLOCK FALSE
CONSTANTS
    Letters <- MCLetters
    LongWords <- MCLongWords
    Carries <- MCCarries
    Subjects <- MCSubjects
    Replies <- MCReplies
    Drafts <- MCDrafts
    MaxAttempts = 2
INVARIANTS
    PagesAreReadForWhatTheyDeclare
    BlockIdsAreContents
    KeptRecipesAreQuoted
    PlanIsTheRecipe
    PublishedAsStated
    SurfacesAgree
