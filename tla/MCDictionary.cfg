SPECIFICATION Spec
CONSTANTS
  json = json
  first = first
  second = second
  Builtins <- MCBuiltins
  Customs <- MCCustoms
  Id <- MCId
  Length <- MCLength
  HashBits <- MCHashBits
  Nothing = Nothing
INVARIANTS
  CacheIsResident
  MadeWithWhatItNames
  DecodedWithTheSameBytes
  ReturnedIdsResolve
