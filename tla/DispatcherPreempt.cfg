CONSTANTS
  c1 = c1
  c2 = c2
  m1 = m1
  m2 = m2
  m3 = m3
  m4 = m4
  NoMsg = NoMsg
  Chats = {c1}
  Messages = {m1, m2, m3, m4}
  ChatOf <- AllInOne
  KindOf <- PreemptMix
  UnifiedCap = 3
  ChatCap = 2
  MaxRounds = 1
  HistCap = 1
  MaxPanics = 0
  MaxRestarts = 0
SPECIFICATION Spec
CHECK_DEADLOCK FALSE
INVARIANTS CutOnlyByStop
