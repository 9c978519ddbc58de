---------------------------- MODULE MCStatement ----------------------------
(* Values for the constants of Statement.tla.                              *)
EXTENDS Statement, TLC

CONSTANTS a, b, z,             \* a and b are parameters of the query, z is not
          A,                   \* the other spelling of a
          s,                   \* a String
          d,                   \* a DateTime
          o,                   \* an object with to_int
          r,                   \* an Integer out of range
          x, y

Kinds == s :> "string" @@ d :> "time" @@ o :> "object" @@ r :> "plain"
Content == s :> x @@ d :> y @@ o :> x @@ r :> Invalid

SpelledOnce == a :> a @@ b :> b
SpelledTwice == SpelledOnce @@ A :> a

\* One value, two, and a bind that fails halfway, for its value or its name.
AllArguments ==
  {a :> s, a :> d @@ b :> o, b :> s @@ a :> r, b :> d @@ z :> s}
SpelledArguments ==
  {a :> s, A :> d @@ b :> o, b :> s @@ a :> r, A :> s @@ z :> s}
TimeArguments == {a :> d, b :> d}
=============================================================================
