CONSTANTS
  None = None
  Procs = {p, q}
  MaxReviews = 2
  Entered = {1}
  MaxNotes = 2
  MaxMoves = 1
  MaxCrashes = 1
SPECIFICATION Spec
SYMMETRY Interchangeable
CHECK_DEADLOCK FALSE
INVARIANT TypeOK
INVARIANT OneActiveReview
INVARIANT NotesAreKept
INVARIANT VerdictsCoverTheNotes
INVARIANT EvidenceIsBound
INVARIANT OneVerdict
PROPERTY EditsAreKept
