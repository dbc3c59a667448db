SPECIFICATION FairSpec
CONSTANTS
  r1 = r1  r2 = r2  f1 = f1  p1 = p1  b1 = b1  t1 = t1
  a1 = a1  a2 = a2  s1 = s1  s2 = s2  y1 = y1  c1 = c1  c2 = c2
  NoOp = NoOp
  Ops = {r1, f1, a1, s1, s2, c1, c2}
  OnLoop = {r1, f1, a1}
  Kind <- KindOf
  Capacity = 1
  MayShutDown = FALSE
INVARIANTS ReceiversWaitOnEmpty NoLostResume NoLostSendWakeup
CHECK_DEADLOCK FALSE
