SPECIFICATION TamperedSpec
CONSTANTS
  Procs = {p1, p2, p3}
  Nobody = Nobody
PROPERTIES
  ReleasedOnlyByOwner
