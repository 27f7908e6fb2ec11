CONSTANTS
  c1 = c1
  c2 = c2
  m1 = m1
  m2 = m2
  m3 = m3
  m4 = m4
  NoMsg = NoMsg
  Chats = {c1}
  Messages = {m1, m2, m3}
  ChatOf <- AllInOne
  KindOf <- Prompts
  UnifiedCap = 1
  ChatCap = 1
  MaxRounds = 1
  HistCap = 1
  MaxPanics = 1
  MaxRestarts = 0
SPECIFICATION FairSpec
CHECK_DEADLOCK FALSE
PROPERTIES RedispatchCompletes
