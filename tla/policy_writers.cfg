SPECIFICATION FairSpec
CONSTANTS
  AppId = {a1, a2, a4}
  Foreign = {a4}
  Ensurer = {c1}
  Applier = Applier
  Loader = Loader
  Reader = {r1}
  Policy = {p1, p2, p3}
  NoPolicy = NoPolicy  NoApp = NoApp  NoOne = NoOne
  MaxTypes = 1
INVARIANTS NoReadOfFreedPolicy OwnedTypesPresent MarkExact OwnedWithinLimit
PROPERTIES EnsureReturns
