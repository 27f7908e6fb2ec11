CONSTANTS
  c1 = c1
  c2 = c2
  m1 = m1
  m2 = m2
  m3 = m3
  m4 = m4
  NoMsg = NoMsg
  Chats = {c1, c2}
  Messages = {m1, m2, m3, m4}
  ChatOf <- TwoChats
  KindOf <- StopMix
  UnifiedCap = 2
  ChatCap = 2
  MaxRounds = 1
  HistCap = 2
  MaxPanics = 1
  MaxRestarts = 0
SPECIFICATION Spec
CHECK_DEADLOCK FALSE
INVARIANTS TypeOK ExactlyOnce ArrivalOrder CutOnlyByStop
PROPERTIES StopEndsTask
