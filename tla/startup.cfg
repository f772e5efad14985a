SPECIFICATION FairSpec
CONSTANTS
  NONE = NONE
  BlockLen = 7
  QuoteLen = 4
  Unit <- MCUnit
  Files <- MCFiles
  Messages <- MCMessages
  Directory <- MCDirectory
  Lower <- MCLower
  Number <- MCNumber
INVARIANTS
  TreeOK
  GrammarExact
  TreeFaithful
  Lossless
  RequestExact
  QueryExact
  PortExact
  RoutedAsConfigured
  Contained
  FileNamed
PROPERTIES
  Decided
  Replied
CHECK_DEADLOCK FALSE
