----------------------------- MODULE ColumnTypes -----------------------------
(***************************************************************************)
(* What becomes of a Ruby value that is bound to a parameter (hash_cb of   *)
(* ext/ilios/statement.c) and of what a column of a row holds              *)
(* (result_convert_row of ext/ilios/result.c).  The widths of the integers *)
(* and the digits of the floating-point numbers are constants: TLC goes    *)
(* past all of them.                                                       *)
(*                                                                         *)
(* The program binds a value, reads the row back, and may bind what it     *)
(* read, again and again; or it begins with a row that others wrote.       *)
(*                                                                         *)
(* A Float is given in halves, a Time in parts of a millisecond since the  *)
(* epoch (Ruby's are a millionth), a String by what its bytes spell.       *)
(***************************************************************************)
EXTENDS Integers

CONSTANTS
  Bits,           \* Bits[type]: the width of a column type's integers
  DoubleDigits,   \* binary digits of a double
  FloatDigits,    \* and of a float
  FLT_MAX,        \* the greatest float, in halves
  Parts,          \* parts of a millisecond that a Time tells apart
  Numbers, Clock  \* the integers and the times that are looked at

IntegerTypes == {"tinyint", "smallint", "int", "bigint"}

\* Powers of two.
Two[n \in Nat] == IF n = 0 THEN 1 ELSE 2 * Two[n - 1]

\* How often a is doubled until it is b or more.
Doublings(a, b) ==
  LET From[i \in Nat] == IF b <= a * Two[i] THEN i ELSE From[i + 1] IN From[0]

\* The binary digits of n that are too many.
Excess(n, digits) == Doublings(Two[digits], n + 1)

\* n is a number of so many digits and zeros after them.
Representable(n, digits) == n % Two[Excess(n, digits)] = 0

ASSUME ColumnTypesAssumption ==
  /\ Bits \in [IntegerTypes -> Nat \ {0}]
  /\ \A type \in IntegerTypes : Bits[type] <= Bits["bigint"]
  /\ DoubleDigits \in Nat \ {0} /\ FloatDigits \in 1..DoubleDigits
  /\ FLT_MAX \in Nat /\ Representable(FLT_MAX, FloatDigits)
  /\ Parts \in Nat \ {0}
  /\ Numbers \subseteq Int /\ Clock \subseteq Int

VARIABLES
  value_type,     \* the type of the column
  bound,          \* the value that the program binds
  column,         \* what the column holds, or the exception of bind
  row             \* what the program read

columnVars == <<value_type, bound, column, row>>

Least(bits) == -Two[bits - 1]
Greatest(bits) == Two[bits - 1] - 1
Fits(n, bits) == Least(bits) <= n /\ n <= Greatest(bits)

\* C's conversion to a narrower integer, division and remainder.
Wrap(n, bits) == ((n - Least(bits)) % Two[bits]) + Least(bits)
Quotient(a, b) == IF a < 0 THEN -((-a) \div b) ELSE a \div b
Remainder(a, b) == a - b * Quotient(a, b)

Signed(n, magnitude) == IF n < 0 THEN -magnitude ELSE magnitude
Magnitude(n) == Signed(n, n)

\* A Ruby value with its class, the content of a column with its type.
Value(class, value) == [class |-> class, value |-> value]
Raise(error) == Value("raise", error)
Null == Value("nil", 0)
Unset == Value("unset", 0)

-----------------------------------------------------------------------------
(* Floating-point numbers: [m, e] is m * 2^e.                              *)

\* To the nearest, ties to even.
Divide(a, b) ==
  LET q == a \div b
      rest == a % b
  IN  IF 2 * rest > b \/ (2 * rest = b /\ q % 2 = 1) THEN q + 1 ELSE q

Nearest(n, digits) ==
  LET unit == Two[Excess(n, digits)] IN Divide(n, unit) * unit

\* The number of so many digits that is nearest to a / b.
Ratio(a, b, digits) ==
  LET over == Excess(a \div b, digits)
      under == IF a = 0 THEN 0 ELSE Doublings(a, Two[digits - 1] * b)
  IN  [m |-> Divide(a * Two[under], b * Two[over]), e |-> over - under]

Multiply(x, n, digits) ==
  LET i == Excess(x.m * n, digits) IN [m |-> Divide(x.m * n, Two[i]), e |-> x.e + i]

Truncate(x) == IF x.e < 0 THEN x.m \div Two[-x.e] ELSE x.m * Two[x.e]

-----------------------------------------------------------------------------
(* Binding.                                                                *)

NUM2LONG(v) ==
  LET n == IF v.class = "Float" THEN Quotient(v.value, 2) ELSE v.value IN
  CASE v.class = "not finite" -> Raise("RangeError")
    [] v.class \notin {"Integer", "Float"} -> Raise("TypeError")
    [] OTHER -> IF Fits(n, Bits["bigint"]) THEN Value("long", n) ELSE Raise("RangeError")

NUM2DBL(v) ==
  CASE v.class \in {"Float", "not finite"} -> v
    [] v.class = "Integer" ->
         Value("Float", Signed(v.value, Nearest(2 * Magnitude(v.value), DoubleDigits)))
    [] OTHER -> Raise("TypeError")

\* Mutant: an upper bound that is off by one.
BindIntegerOff(type, v) ==
  LET n == NUM2LONG(v) IN
  CASE n.class = "raise" -> n
    [] n.class = "long" /\ n.value \notin Least(Bits[type])..(Greatest(Bits[type]) + 1) ->
         Raise("RangeError")
    [] OTHER -> Value(type, Wrap(n.value, Bits[type]))

BindInteger(type, v) ==
  LET n == NUM2LONG(v) IN
  CASE n.class = "raise" -> n
    [] n.class = "long" /\ ~Fits(n.value, Bits[type]) -> Raise("RangeError")
    [] OTHER -> Value(type, Wrap(n.value, Bits[type]))

\* The conversion from double to float.
ToFloat(v) ==
  LET nearest == Signed(v.value, Nearest(Magnitude(v.value), FloatDigits)) IN
  IF v.class = "Float" /\ Magnitude(nearest) <= FLT_MAX THEN Value("float", nearest)
                                                       ELSE Value("not finite", v.value)

\* Mutant: no test against FLT_MAX.
BindFloatAny(v) ==
  IF NUM2DBL(v).class = "raise" THEN NUM2DBL(v) ELSE ToFloat(NUM2DBL(v))

BindFloat(v) ==
  LET double == NUM2DBL(v) IN
  CASE double.class = "raise" -> double
    [] double.class = "Float" /\ Magnitude(double.value) > FLT_MAX -> Raise("RangeError")
    [] OTHER -> ToFloat(double)

\* StringValueCStr, and the driver's reading of a UUID.
BindString(type, v) ==
  IF v.class # "String" THEN Raise("TypeError")
  ELSE CASE v.value = "with NUL" -> Raise("ArgumentError")
         [] v.value # "with NUL" /\ type = "text" -> Value("text", v.value)
         [] v.value \in {"uuid", "UUID"} /\ type = "uuid" -> Value("uuid", "uuid")
         [] OTHER -> Raise("StatementError")

\* Time#to_f: the count as a double, divided by the parts of a second.
to_f(time) == Ratio(Nearest(time, DoubleDigits), 1000 * Parts, DoubleDigits)

\* Mutant: the seconds are truncated before they are multiplied.
BindTimeSeconds(time) == {Value("timestamp", 1000 * Quotient(time, 1000 * Parts))}

\* (cass_int64_t)(NUM2DBL(rb_Float(value)) * 1000).  What does not fit in 64
\* bits is undefined: the least integer on x86, the nearest on ARM.
BindTime(time) ==
  LET seconds == to_f(Magnitude(time))
      ms == Signed(time, Truncate(Multiply(seconds, 1000, DoubleDigits)))
      bits == Bits["bigint"]
  IN  {Value("timestamp", n) :
         n \in IF Fits(ms, bits) THEN {ms}
                                 ELSE {Least(bits), IF time < 0 THEN Least(bits) ELSE Greatest(bits)}}

\* What the column may hold, or the exception.
hash_cb_value(type, v) ==
  IF v.class = "nil" THEN {Null}
  ELSE CASE type \in IntegerTypes -> {BindInteger(type, v)}
         [] type = "float" -> {BindFloat(v)}
         [] type = "double" -> {NUM2DBL(v)}
         [] type = "boolean" -> {Value("boolean", v.class # "false")}
         [] type \in {"text", "uuid"} -> {BindString(type, v)}
         [] type = "timestamp" /\ v.class = "Time" -> BindTime(v.value)
         [] OTHER -> {Raise("TypeError")}

-----------------------------------------------------------------------------
(* Reading.                                                                *)

\* Mutants: the milliseconds taken for microseconds; a number for a boolean.
ReadTimestampMicro(ms) ==
  Value("Time", Quotient(ms, 1000) * 1000 * Parts + (Remainder(ms, 1000) * Parts) \div 1000)
ReadBooleanNumber(b) == Value("Integer", IF b THEN 1 ELSE 0)

\* rb_time_new(output / 1000, output % 1000 * 1000).
ReadTimestamp(ms) ==
  LET sec == Quotient(ms, 1000)
      usec == Remainder(ms, 1000) * 1000
  IN  Value("Time", sec * 1000 * Parts + (usec * Parts) \div 1000)

ReadBoolean(b) == Value(IF b THEN "true" ELSE "false", 0)

\* Bytes too few for the type are refused by the driver.
result_convert_row_value(type, c) ==
  IF c.class = "nil" THEN Null
  ELSE IF type = "other" THEN Value("Symbol", "unsupported_column_type")
  ELSE IF c.class = "short" THEN Raise("ExecutionError")
  ELSE CASE type \in IntegerTypes -> Value("Integer", c.value)
         [] type \in {"float", "double"} ->
              Value(IF c.class = "not finite" THEN c.class ELSE "Float", c.value)
         [] type = "boolean" -> ReadBoolean(c.value)
         [] type \in {"text", "uuid"} -> Value("String", c.value)
         [] type = "timestamp" -> ReadTimestamp(c.value)

-----------------------------------------------------------------------------
(* The program.                                                            *)

Types == IntegerTypes \cup {"float", "double", "boolean", "text", "uuid", "timestamp", "other"}

\* Values of every class.
AnyValue ==
  {Null, Value("true", 0), Value("false", 0), Value("Integer", 5), Value("Float", 3),
   Value("Float", -3), Value("not finite", 0), Value("Time", 90 * Parts), Value("Symbol", 0)}
  \cup {Value("String", s) : s \in {"", "text", "uuid", "UUID", "with NUL"}}

\* What others may have stored in a column of a type.
Written(type) ==
  {Null} \cup (IF type = "text" THEN {} ELSE {Value("short", 0)}) \cup
  CASE type \in IntegerTypes -> {Value(type, n) : n \in {Least(Bits[type]), Greatest(Bits[type])}}
    [] type \in {"float", "double"} -> {Value("not finite", 0)}
    [] type = "boolean" -> {Value("boolean", b) : b \in BOOLEAN}
    [] type = "text" -> {Value("text", s) : s \in {"", "uuid", "with NUL"}}
    [] type = "uuid" -> {Value("uuid", "uuid")}
    [] type = "timestamp" -> {Value("timestamp", n) : n \in Least(Bits["bigint"])..Greatest(Bits["bigint"])}
    [] OTHER -> {Value("other", 0)}

ColumnInit ==
  /\ value_type \in Types /\ row = Unset
  /\ \/ /\ column = Unset
        /\ \/ bound \in AnyValue
           \/ value_type \in IntegerTypes /\ \E n \in Numbers : bound = Value("Integer", n)
           \/ value_type \in {"float", "double"} /\ \E h \in Numbers : bound = Value("Float", h)
           \/ value_type = "timestamp" /\ \E time \in Clock : bound = Value("Time", time)
     \/ /\ bound = Unset
        /\ column \in Written(value_type)

\* A column whose bind raised is not written.
IsStored(c) == c.class \notin {"unset", "raise"}

\* bind and an execution.
BindValue ==
  /\ bound # Unset
  /\ column' \in hash_cb_value(value_type, bound)
  /\ row' = Unset
  /\ UNCHANGED <<value_type, bound>>

ReadRow ==
  /\ IsStored(column)
  /\ row' = result_convert_row_value(value_type, column)
  /\ UNCHANGED <<value_type, bound, column>>

\* The program takes what it read for the next bind.
TakeRow ==
  /\ IsStored(row)
  /\ bound' = row
  /\ row' = Unset
  /\ UNCHANGED <<value_type, column>>

ColumnNext == BindValue \/ ReadRow \/ TakeRow

ColumnSpec == ColumnInit /\ [][ColumnNext]_columnVars

-----------------------------------------------------------------------------
(* Properties.                                                             *)

\* An Integer is read back as it was bound, or bind raises RangeError when it
\* does not fit (test_statement.rb:78-135): no cast changes it.
IntegersKept ==
  value_type \in IntegerTypes /\ bound.class = "Integer" /\ column # Unset =>
    IF Fits(bound.value, Bits[value_type])
    THEN column = Value(value_type, bound.value) /\ row \in {Unset, bound}
    ELSE column = Raise("RangeError")

Floats == {x \in -FLT_MAX..FLT_MAX : Representable(Magnitude(x), FloatDigits)}

\* A finite number in a float column stays finite and is read back as the
\* nearest float, or bind raises RangeError (statement.c:103).
FloatsKept ==
  LET h == bound.value IN
  value_type = "float" /\ bound.class = "Float" /\ column # Unset =>
    IF Magnitude(h) > FLT_MAX THEN column = Raise("RangeError")
    ELSE /\ column.class = "float" /\ column.value \in Floats
         /\ \A x \in Floats : Magnitude(column.value - h) <= Magnitude(x - h)
         /\ row \in {Unset, Value("Float", column.value)}

\* A Time of at most 2^51 milliseconds, some 70000 years, is read back as one of
\* whole milliseconds, at most one from its own, before the epoch too.  Whole
\* seconds are exact when the parts that Time counts are exact as a double, as
\* they are until the year 2116 (test_statement.rb:206-212).
TimesKept ==
  LET ms == Quotient(bound.value, Parts) IN
  /\ value_type = "timestamp" /\ bound.class = "Time" /\ column # Unset
  /\ Fits(Signed(bound.value, Magnitude(ms) + 1), Bits["bigint"])
  /\ 4 * (Magnitude(ms) + 1) <= Two[DoubleDigits]
  => /\ Magnitude(column.value - ms) <= 1
     /\ /\ bound.value % (1000 * Parts) = 0
        /\ Representable(Magnitude(bound.value), DoubleDigits)
        => column.value = ms
     /\ row \in {Unset, Value("Time", column.value * Parts)}

\* A row that was read can be bound again, any number of times, and its columns
\* then hold what they held (of timestamps, see TimesKept): no class that comes
\* out of a column is taken for another by the same column.  Only a text with a
\* NUL, or a column of no supported type, is refused.
RowsBind ==
  [][IsStored(column) /\ value_type # "timestamp" =>
       \/ column' = column
       \/ /\ column'.class = "raise"
          /\ \/ value_type = "other"
             \/ value_type = "text" /\ column.class = "text" /\ column.value = "with NUL"]_columnVars
=============================================================================
