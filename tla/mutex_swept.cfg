SPECIFICATION Spec
CONSTANTS
  c1 = c1
  s1 = s1
  p1 = p1
  f1 = f1
  r1 = r1
  b1 = b1
  m1 = m1
  t1 = t1
  w1 = w1
  Clusters = {c1}
  Sessions = {s1}
  Statements = {p1}
  Futures = {f1}
  Results = {r1}
  Procs = {b1}
  Mutexes = {m1}
  Clients = {t1}
  Workers = {w1}
  None = None
  HANDLE_MAX <- TwoPages
  LOST_MAX <- LostNone
INVARIANT MutexLive
CHECK_DEADLOCK FALSE
