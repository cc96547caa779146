SPECIFICATION Spec
CONSTANTS
  None = None
  Requests = {r1, r2}
  Tokens = {"a", "b"}
  Conversations = {"c"}
  Questions <- Asked
  Calls <- CallSets
  Replies <- Written
  MaxToolRounds = 2
  MaxTurns = 2
  MaxHistoryTurns = 2
  MaxConversations = 1
  MaxAsked = 3
SYMMETRY Alike
INVARIANTS
  ModelSpeaksFromEvidence
  TurnsAreKept
  ModelIsAskedBoundedly
CHECK_DEADLOCK FALSE
