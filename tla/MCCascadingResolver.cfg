CONSTANTS
  Callers = {c1, c2}
  Keys = {k1, k2}
  None = None
  Providers = 2
  HasCookies = TRUE
  Lifetimes <- MCLifetimes
  MaxEntries = 1
  DefaultTTL = 2
  MaxTTL = 2
  Margin = 1
  Pause = 1
  MaxTime = 2
SPECIFICATION Spec
INVARIANTS NoRedundantExtraction CookiesLast HitsAreFresh
PROPERTY CallsAreAnswered
CHECK_DEADLOCK FALSE
