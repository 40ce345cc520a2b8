SPECIFICATION Spec
CONSTANTS
  Cases = {"plain", "reviewed"}
  Children = {"child"}
  Parent <- MCParent
  TracksOf <- MCTracksOf
  Plans <- MCPlans
  Binaries = {"old", "new"}
  Changes = 2
INVARIANTS
  OneSubject
  PassIsEarned
  MismatchShows
