SPECIFICATION Spec
CONSTANTS
  a = a
  A = A
  b = b
  z = z
  s = s
  d = d
  o = o
  r = r
  x = x
  y = y
  None = None
  Invalid = Invalid
  Unbound = Unbound
  Threads = {t1, t2}
  Columns = {a, b}
  Names = {a, b, z}
  ColumnOf <- SpelledOnce
  Values = {s, d, o, r}
  KindOf <- Kinds
  Contents = {x, y}
  InitialContent <- Content
  Mutable = {}
  Arguments <- TimeArguments
  PageSizes = {10}
  DEFAULT_PAGE_SIZE = 10
  MaxBinds = 2
  MaxExecutions = 2
INVARIANTS BoundAsGiven
