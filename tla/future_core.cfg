SPECIFICATION Spec
CONSTANTS
  p = p
  e = e
  c1 = c1
  c2 = c2
  Futures = {p, e}
  Clients = {c1, c2}
  None = None
  KindOf <- OnePool
  THREAD_MAX = 1
  QUEUE_MAX = 1
  Calls <- CoreCalls
  MayRaise = {e}
  Interruptible = {"lock", "push", "await"}
  MaxInterrupts = 1
SYMMETRY Symmetry
INVARIANTS TypeOK CallbackOnce QueuedOnce NoLostCallback AwaiterNotStranded SingleAwaiter
PROPERTIES PromiseSpec
CHECK_DEADLOCK FALSE
