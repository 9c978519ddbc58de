SPECIFICATION Spec
CONSTANTS
  h1 = h1
  h2 = h2
  Blank = Blank
  Bad = Bad
  PastEnd = PastEnd
  Default = Default
  None = None
  Threads = {"t1", "t2"}
  Hosts = {h1, h2}
  Settings = {"port", "connect_timeout", "request_timeout"}
  Unsigned = {"connect_timeout", "request_timeout"}
  Minimum <- Least
  Inputs <- Numbers
  IntMax = 3
  Keyspaces = {"ilios", "with NUL"}
  WithNul = "with NUL"
  Arrays <- HostArrays
  MaxCalls = 3
  MaxChanges = 2
INVARIANT TypeOK
PROPERTIES HostsKept SettingsKept
CHECK_DEADLOCK FALSE
