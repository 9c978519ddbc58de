SPECIFICATION Spec
CONSTANTS
  p = p
  e = e
  c1 = c1
  c2 = c2
  Futures = {p}
  Clients = {c1}
  None = None
  KindOf <- OnePool
  THREAD_MAX = 1
  QUEUE_MAX = 1
  Calls <- NestedCalls
  MayRaise = {}
  Interruptible = {}
  MaxInterrupts = 0
PROPERTIES AwaitSeesCallback
