---------------------------- MODULE MoneyProofs ----------------------------
(***************************************************************************)
(* Lemmas about money and wallets for every integer width: an amount that  *)
(* gets out of Add, Subtract, Debit or Credit was computed without         *)
(* wrapping.                                                               *)
(***************************************************************************)
EXTENDS Wallet, TLAPS

\* An int64 computation whose exact result fits returns that result.
LEMMA WrapInRange == ASSUME NEW x \in Int64 PROVE Wrap(x) = x
<1> DEFINE period == 2 * MaxInt64 + 2
           y == x - MinInt64
<1>1. period \in Nat \ {0} /\ y \in 0 .. period - 1
  BY MoneyAssumption DEF Int64, MinInt64
<1> HIDE DEF period, y
<1>2. y % period = y
  BY <1>1
<1>3. Wrap(x) = (y % period) + MinInt64
  BY DEF Wrap, period, y
<1>4. QED
  BY <1>2, <1>3, MoneyAssumption DEF y, Int64, MinInt64

\* Add answers the exact sum of two amounts of one currency if an int64 holds it, and an
\* error if it does not: money.go's two overflow tests miss no case.
THEOREM AddExact ==
  ASSUME NEW a \in Monies, NEW b \in Monies, a.currency = b.currency
  PROVE  Add(a, b) = IF a.amount + b.amount \in Int64
                     THEN Ok(MoneyOf(a.amount + b.amount, a.currency))
                     ELSE Err("overflow")
<1>1. a.amount \in Int64 /\ b.amount \in Int64
  BY DEF Monies
<1>2. a.amount + b.amount \in Int64 <=>
        /\ ~(b.amount > 0 /\ a.amount > MaxInt64 - b.amount)
        /\ ~(b.amount < 0 /\ a.amount < MinInt64 - b.amount)
  BY <1>1, MoneyAssumption DEF Int64, MinInt64
<1>3. a.amount + b.amount \in Int64 => Wrap(a.amount + b.amount) = a.amount + b.amount
  BY WrapInRange
<1>4. QED
  BY <1>2, <1>3 DEF Add

\* Subtract answers the exact difference under the same condition.
THEOREM SubtractExact ==
  ASSUME NEW a \in Monies, NEW b \in Monies, a.currency = b.currency
  PROVE  Subtract(a, b) = IF a.amount - b.amount \in Int64
                          THEN Ok(MoneyOf(a.amount - b.amount, a.currency))
                          ELSE Err("overflow")
<1>1. a.amount \in Int64 /\ b.amount \in Int64
  BY DEF Monies
<1>2. a.amount - b.amount \in Int64 <=>
        /\ ~(b.amount > 0 /\ a.amount < MinInt64 + b.amount)
        /\ ~(b.amount < 0 /\ a.amount > MaxInt64 + b.amount)
  BY <1>1, MoneyAssumption DEF Int64, MinInt64
<1>3. a.amount - b.amount \in Int64 => Wrap(a.amount - b.amount) = a.amount - b.amount
  BY WrapInRange
<1>4. QED
  BY <1>2, <1>3 DEF Subtract

\* Money.Negate is exact as well, and refuses exactly MinInt64, which has no opposite.
LEMMA NegateExact ==
  ASSUME NEW m \in Monies
  PROVE  Negate(m) = IF -m.amount \in Int64 THEN Ok(MoneyOf(-m.amount, m.currency))
                     ELSE Err("overflow")
<1>1. m.amount \in Int64
  BY DEF Monies
<1>2. -m.amount \in Int64 <=> m.amount # MinInt64
  BY <1>1, MoneyAssumption DEF Int64, MinInt64
<1>3. -m.amount \in Int64 => Wrap(-m.amount) = -m.amount
  BY WrapInRange
<1>4. QED
  BY <1>2, <1>3 DEF Negate

-----------------------------------------------------------------------------

\* A wallet after a movement: its balance is n, its version one more.
AfterMovement(w, n) ==
  [player  |-> w.player,
   balance |-> [amount |-> n, currency |-> w.balance.currency],
   version |-> w.version + 1]

\* What Debit leaves behind when it accepts: a positive amount, covered by the balance,
\* has been taken from it.
LEMMA DebitGives ==
  ASSUME NEW w, w.balance \in Monies, w.balance.amount \in 0 .. MaxInt64,
         NEW m \in Monies, Debit(w, m).err = "none"
  PROVE  /\ m.amount \in 1 .. w.balance.amount
         /\ Debit(w, m).wallet = AfterMovement(w, w.balance.amount - m.amount)
<1>1. w.balance \in Monies /\ w.balance.amount \in 0 .. MaxInt64 /\ m.amount \in Int64
  BY DEF Monies
<1>2. /\ m.amount > 0 /\ w.balance.currency = m.currency
      /\ Compare(w.balance, m) >= 0 /\ Subtract(w.balance, m).err = "none"
      /\ Debit(w, m).wallet = Moved(w, Subtract(w.balance, m).money)
  BY <1>1, MoneyAssumption
     DEF Debit, IsNegative, IsZero, Refused, Changed, Compare, Int64, MinInt64
<1>3. m.amount \in 1 .. w.balance.amount
  BY <1>1, <1>2, MoneyAssumption DEF Compare, Int64, MinInt64
<1>4. Subtract(w.balance, m).money = MoneyOf(w.balance.amount - m.amount, w.balance.currency)
  BY <1>1, <1>2, SubtractExact DEF Ok, Err
<1>5. QED
  BY <1>2, <1>3, <1>4 DEF Moved, WalletRecord, AfterMovement, MoneyOf

\* What Credit leaves behind when it accepts: a positive amount has been added, and the
\* balance still fits an int64.
LEMMA CreditGives ==
  ASSUME NEW w, w.balance \in Monies, w.balance.amount \in 0 .. MaxInt64,
         NEW m \in Monies, Credit(w, m).err = "none"
  PROVE  /\ m.amount \in 1 .. MaxInt64
         /\ w.balance.amount + m.amount \in 0 .. MaxInt64
         /\ Credit(w, m).wallet = AfterMovement(w, w.balance.amount + m.amount)
<1>1. w.balance \in Monies /\ w.balance.amount \in 0 .. MaxInt64 /\ m.amount \in Int64
  BY DEF Monies
<1>2. /\ m.amount > 0 /\ w.balance.currency = m.currency
      /\ Add(w.balance, m).err = "none"
      /\ Credit(w, m).wallet = Moved(w, Add(w.balance, m).money)
  BY <1>1, MoneyAssumption DEF Credit, IsNegative, IsZero, Refused, Changed, Int64, MinInt64
<1>3. /\ w.balance.amount + m.amount \in Int64
      /\ Add(w.balance, m).money = MoneyOf(w.balance.amount + m.amount, w.balance.currency)
  BY <1>1, <1>2, AddExact DEF Ok, Err
<1>4. m.amount \in 1 .. MaxInt64 /\ w.balance.amount + m.amount \in 0 .. MaxInt64
  BY <1>1, <1>2, <1>3, MoneyAssumption DEF Int64, MinInt64
<1>5. QED
  BY <1>2, <1>3, <1>4 DEF Moved, WalletRecord, AfterMovement, MoneyOf
=============================================================================
