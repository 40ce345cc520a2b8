SPECIFICATION Spec
CONSTANTS
  Cases = {"c"}
  Items = {"main"}
  Subs = {}
  Parent <- MCAlone
  Testable = {"main"}
  Routed = {"main"}
  Binaries = {"old", "new"}
  Reviews = 2
INVARIANTS
  SupportIsReal
