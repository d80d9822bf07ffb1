SPECIFICATION FairSpec
CONSTANTS
  Pieces = 3
  Jobs <- MCJobs
  Base <- MCBase
  Cwd <- MCCwd
  BaseName <- MCBaseName
  Columns = 2
  Letters <- MCLetters
  Texts <- MCTexts
  Absent = Absent
  MaxLines = 4
INVARIANTS
  CommandResultIsHonest
  CodeSurvivesPasting
  PagesCoverTheFile
  EditIsExact
  SearchGoesLineByLine
  GlobFindsNewestFirst
PROPERTIES
  CommandsEnd
CHECK_DEADLOCK FALSE
