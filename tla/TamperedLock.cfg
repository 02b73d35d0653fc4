SPECIFICATION FairTamperedSpec
CONSTANTS
  Procs = {p1, p2, p3}
  Nobody = Nobody
INVARIANTS
  TamperedTypeOK
  ExclusiveUndisturbed
  NothingLeftBehind
PROPERTIES
  OwnerReleasesUndisturbed
  ComparisonProtects
  OrphanStaysLocked
  EventuallyGivenUp
