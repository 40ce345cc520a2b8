SPECIFICATION Spec
CONSTANTS
  Cases = {"c", "d"}
  Items = {"main", "child", "host"}
  Subs = {"sub"}
  Parent <- MCParent
  Testable = {"main"}
  Routed = {"main", "child"}
  Binaries = {"old", "new"}
  Reviews = 2
INVARIANTS
  PassIsEarned
  FailIsReal
  OutputWhole
