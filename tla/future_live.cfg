SPECIFICATION FairSpec
CONSTANTS
  p = p
  e = e
  c1 = c1
  c2 = c2
  Futures = {p, e}
  Clients = {c1, c2}
  None = None
  KindOf <- OnePool
  THREAD_MAX = 2
  QUEUE_MAX = 1
  Calls <- LiveCalls
  MayRaise = {e}
  Interruptible = {}
  MaxInterrupts = 0
PROPERTIES AwaitReturns PromiseFairSpec
