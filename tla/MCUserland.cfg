SPECIFICATION Spec
INVARIANTS
  AnswersAreRight
  NothingIsLost
PROPERTIES
  OnlyTheNamedChanges
  ListingEnds
CHECK_DEADLOCK FALSE
