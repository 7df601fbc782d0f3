CONSTANTS
  Versions = {"Webserver", "chap.5"}
  small = small
  large = large
  Files <- MCFiles
  Size <- MCSize
  NoFile = NoFile
  HeaderLen = 5
  RoomMax = 6
  KeepAlive = {TRUE, FALSE}
SPECIFICATION FairSpec
INVARIANTS AnswerInv RightBytes
PROPERTIES MappingsEnd WriteReturns
