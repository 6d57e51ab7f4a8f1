SPECIFICATION Spec
CONSTANTS
  p1 = p1
  p2 = p2
  menu = menu
  governance = governance
  column1 = column1
  column2 = column2
  body = body
  shipped = shipped
  edited = edited
  NoVersion = NoVersion
  Process <- MCProcess
  Migration <- MCMigration
  Rank <- MCRank
  Marked <- MCMarked
  Tabled <- MCTabled
  Recoverable <- MCRecoverable
  Piece <- MCPiece
  Alter <- MCAlter
  Version <- MCVersion
  Build <- MCBuild
  Checksum <- MCChecksum
  Profile <- MCProfile
SYMMETRY Symmetry
INVARIANTS RecordedIsWhole ServedIsRecorded FailsForCause DoctorIsRight
