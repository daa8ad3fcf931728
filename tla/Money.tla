------------------------------- MODULE Money -------------------------------
(***************************************************************************)
(* internal/domain/money.go: an amount in cents held in a signed machine   *)
(* integer, with a currency.  The width is a parameter: MaxInt64 is        *)
(* math.MaxInt64 in the program and a small 2^n - 1 when TLC enumerates.   *)
(* Go's integer operators wrap around; Wrap is applied wherever the code   *)
(* computes, so that a missing overflow test shows as a wrong amount.      *)
(***************************************************************************)
EXTENDS Integers

CONSTANTS MaxInt64,     \* math.MaxInt64
          Currencies    \* the currency codes money can carry

ASSUME MoneyAssumption == MaxInt64 \in Nat \ {0}

MinInt64 == -MaxInt64 - 1
Int64    == MinInt64 .. MaxInt64
Wrap(x)  == ((x - MinInt64) % (2 * MaxInt64 + 2)) + MinInt64

MoneyOf(amount, currency) == [amount |-> amount, currency |-> currency]
Monies   == [amount : Int64, currency : Currencies]

\* The outcome of an operation that returns (Money, error).
Ok(m)    == [err |-> "none", money |-> m]
Err(e)   == [err |-> e]

-----------------------------------------------------------------------------

\* Mutant: the decimals are not counted when the bound is tested.
NewMoneyFromStringShort(integers, decimals, currency) ==
  IF integers > MaxInt64 \div 100 THEN Err("overflow")
  ELSE Ok(MoneyOf(Wrap(Wrap(integers * 100) + decimals), currency))

(***************************************************************************)
(* NewMoneyFromString on a string the pattern [0-9]+\.[0-9]{2} accepts:    *)
(* integers and decimals are the numbers its two parts spell.              *)
(***************************************************************************)
NewMoneyFromString(integers, decimals, currency) ==
  IF integers > MaxInt64                          THEN Err("overflow")   \* ParseInt
  ELSE IF integers > MaxInt64 \div 100            THEN Err("overflow")
  ELSE IF Wrap(integers * 100) > MaxInt64 - decimals THEN Err("overflow")
  ELSE Ok(MoneyOf(Wrap(Wrap(integers * 100) + decimals), currency))

\* Mutant: only negative overflow is tested.
AddUnbounded(m, other) ==
  IF m.currency # other.currency THEN Err("currency")
  ELSE IF other.amount < 0 /\ m.amount < MinInt64 - other.amount THEN Err("overflow")
  ELSE Ok(MoneyOf(Wrap(m.amount + other.amount), m.currency))

Add(m, other) ==
  IF m.currency # other.currency THEN Err("currency")
  ELSE IF other.amount > 0 /\ m.amount > MaxInt64 - other.amount THEN Err("overflow")
  ELSE IF other.amount < 0 /\ m.amount < MinInt64 - other.amount THEN Err("overflow")
  ELSE Ok(MoneyOf(Wrap(m.amount + other.amount), m.currency))

\* Mutant: the bound is tested one off.
SubtractOffByOne(m, other) ==
  IF m.currency # other.currency THEN Err("currency")
  ELSE IF other.amount > 0 /\ m.amount < MinInt64 + other.amount - 1 THEN Err("overflow")
  ELSE IF other.amount < 0 /\ m.amount > MaxInt64 + other.amount + 1 THEN Err("overflow")
  ELSE Ok(MoneyOf(Wrap(m.amount - other.amount), m.currency))

Subtract(m, other) ==
  IF m.currency # other.currency THEN Err("currency")
  ELSE IF other.amount > 0 /\ m.amount < MinInt64 + other.amount THEN Err("overflow")
  ELSE IF other.amount < 0 /\ m.amount > MaxInt64 + other.amount THEN Err("overflow")
  ELSE Ok(MoneyOf(Wrap(m.amount - other.amount), m.currency))

Negate(m) ==
  IF m.amount = MinInt64 THEN Err("overflow")
  ELSE Ok(MoneyOf(Wrap(-m.amount), m.currency))

IsZero(m)     == m.amount = 0
IsNegative(m) == m.amount < 0

\* Compare, for monies of one currency; the callers test the currency first.
Compare(m, other) ==
  IF m.amount < other.amount THEN -1 ELSE IF m.amount > other.amount THEN 1 ELSE 0

\* Go's / and % truncate towards zero.
Quo(x, y) == IF x >= 0 THEN x \div y ELSE -((-x) \div y)
Rem(x, y) == x - y * Quo(x, y)

\* The number String spells: its sign, the integer part, the two decimals.
String(m) ==
  LET absAmount == IF IsNegative(m) THEN Wrap(-m.amount) ELSE m.amount
  IN  [negative |-> IsNegative(m),
       integers |-> Quo(absAmount, 100),
       decimals |-> Rem(absAmount, 100)]
=============================================================================
