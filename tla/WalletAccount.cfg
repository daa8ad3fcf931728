CONSTANTS
  MaxInt64 = 127
  Currencies = {"BRL", "USD"}
  Player = "alice"
  NoAccount = NoAccount
  MaxVersion = 2
SPECIFICATION Spec
INVARIANTS
  TextRoundTrips
  ArithmeticIsExact
  MovementsAreExact
CHECK_DEADLOCK FALSE
