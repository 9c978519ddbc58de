SPECIFICATION StatementOrColumn
CONSTANTS
  a = a
  A = A
  b = b
  z = z
  s = s
  d = d
  o = o
  r = r
  x = x
  y = y
  None = None
  Invalid = Invalid
  Unbound = Unbound
  Threads = {t1}
  Columns = {a, b}
  Names = {a, b, z}
  ColumnOf <- SpelledOnce
  Values = {s, d, o, r}
  KindOf <- Kinds
  Contents = {x, y}
  InitialContent <- Content
  Mutable = {s}
  Arguments <- AllArguments
  PageSizes = {10, 20}
  DEFAULT_PAGE_SIZE = 10
  MaxBinds = 2
  MaxExecutions = 2
  Bits <- Widths
  DoubleDigits = 14
  FloatDigits = 4
  FLT_MAX = 120
  Parts = 126
  Numbers <- SmallNumbers
  Clock <- Times16
INVARIANTS BoundAsGiven IntegersKept FloatsKept TimesKept
PROPERTIES RowsBind BindingSpec
