CONSTANTS
  NULL = NULL
  Keys <- FiveKeys
  Values = {a, b}
SPECIFICATION Spec
INVARIANTS TypeOK Rooted Ordered
PROPERTIES ImplementsDictionary DelNeverDeepens
