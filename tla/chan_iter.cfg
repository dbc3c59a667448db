SPECIFICATION Spec
CONSTANTS
  r1 = r1  r2 = r2  f1 = f1  p1 = p1  b1 = b1  t1 = t1
  a1 = a1  a2 = a2  s1 = s1  s2 = s2  y1 = y1  c1 = c1  c2 = c2
  NoOp = NoOp
  Ops = {b1, f1, t1, a1, s1, s2, c1}
  OnLoop = {a1, f1, t1, s2}
  Kind <- KindOf
  Capacity = 1
  MayShutDown = TRUE
INVARIANTS ExactlyOnce
PROPERTIES FirstCompletionWins
CHECK_DEADLOCK FALSE
