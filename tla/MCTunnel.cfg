SPECIFICATION Spec
CONSTANTS
  Answers <- MCAnswers
  TargetPort = 6667
  Half = 4
  Seed = 5
  BitXor <- MCBitXor
  Token <- MCToken
  Prefix <- MCPrefix
  Request <- MCRequest
  Picture <- MCPicture
PROPERTY Streams OpenOrNothing
CHECK_DEADLOCK FALSE
