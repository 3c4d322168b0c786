CONSTANTS
  MaxRuns = 3
  MaxTemplates = 2
  Programs = {"cli", "library"}
SPECIFICATION Spec
INVARIANTS
  IndexFolderTypeOK
  NothingStaleAfterOk
  FilesOfOneRun
  QuietReadersSeeOneRun
PROPERTY CommandLineSparesReaders
CHECK_DEADLOCK FALSE
