SPECIFICATION RaceSpec
CONSTANTS
  Id <- MCId
  Data <- MCData
  Field <- MCField
  stoi <- MCstoi
  to_string <- MCto_string
  extract_json_field <- MCextract
  find <- MCfind
  NONE = NONE
  c1 = c1
  c2 = c2
  Entity = {"Shoes"}
  INT_MAX = 2
  Client = {c1, c2}
  Requests <- SharedRequests
INVARIANTS
  NoUncaughtException
CHECK_DEADLOCK FALSE
