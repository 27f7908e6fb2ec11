CONSTANTS
  c1 = c1
  c2 = c2
  m1 = m1
  m2 = m2
  m3 = m3
  m4 = m4
  NoMsg = NoMsg
  Chats = {c1}
  Messages = {m1, m2, m3, m4}
  ChatOf <- AllInOne
  KindOf <- HeartbeatMix
  UnifiedCap = 2
  ChatCap = 1
  MaxRounds = 1
  HistCap = 2
  MaxPanics = 2
  MaxRestarts = 1
SPECIFICATION Spec
CHECK_DEADLOCK FALSE
INVARIANTS Accounted HeartbeatFlagTrue HistoryGenuine PendingNotPast
