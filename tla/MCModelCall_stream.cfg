SPECIFICATION Spec
CONSTANTS
  CallIds = {c1, c2}
  Indices = {0, 1}
  Stops = {"EndTurn", "ToolUse"}
  NoId = NoId
  NoStop = NoStop
  Whole = 2
  Formats = {"chat", "messages", "responses"}
  MaxRetries = 2
  MaxFrames = 5
INVARIANTS CallInv WholeReplies
PROPERTIES  ReplySpec
