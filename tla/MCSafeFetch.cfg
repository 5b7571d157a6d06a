CONSTANTS
  public = public  inner = inner  name = name  localhost = localhost
  page = page  elsewhere = elsewhere  literal = literal  local = local  other = other
  Fetches = {f1, f2}
  Urls = {page, elsewhere, literal, local, other}  NotAUrl = NotAUrl  NoLocation = NoLocation
  Addresses = {public, inner}  LoopbackNames = {localhost}
  HostOf <- MCHostOf  SchemeOf <- MCSchemeOf  RangeOf <- MCRangeOf  Answers <- MCAnswers
  MaxRedirects = 1  MaxBytes = 1  MaxBody = 2
SPECIFICATION FairSpec
CHECK_DEADLOCK FALSE
INVARIANTS OnlyJudgedAddresses HopsInspectedAndBounded AnswersAreRight
PROPERTIES NothingSentLate FetchesEnd
