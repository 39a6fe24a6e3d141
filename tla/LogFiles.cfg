SPECIFICATION Spec
CONSTANTS
  LineBytes = 3
  maxLogFileSize = 9
  maxRollingLogFile = 2
  Margin = 3
  MAXIMUM_READ = 7
  NUM_LINES_TO_READ = 3
  LINE_SIZE = 4
  MaxLines = 13
  MaxRemovals = 1
INVARIANTS TypeOK OnlyOldestDropped UploadsWhatIsNew
PROPERTY RolledFileNoticed
