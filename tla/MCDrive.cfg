CONSTANTS
  Handlers = {h1, h2}
  Stems = {"a", "b", "*"}
  BadStems = {"*"}
  Uploads <- MCUploads
  MaxFileSize = 2
  Slack = 2
  MaxFiles = 2
SPECIFICATION Spec
INVARIANTS
  TypeOK
  FilesWhole
  AnswersTrue
PROPERTIES
  NothingLeft
