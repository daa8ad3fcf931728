------------------------ MODULE WalletAccountProofs ------------------------
(***************************************************************************)
(* The three properties of WalletAccount for every integer width, every    *)
(* set of currencies and every story of debits and credits: text in, exact *)
(* arithmetic, text out.                                                   *)
(***************************************************************************)
EXTENDS WalletAccount, MoneyProofs

\* The invariant: an opened wallet holds an amount an int64 can hold and that is not
\* negative, whatever was parsed, debited and credited.
Funded(a)  == /\ a.balance \in Monies /\ a.balance.amount \in 0 .. MaxInt64
              /\ a = WalletRecord(a.player, a.balance, a.version)
AccountInv == /\ account # NoAccount => Funded(account)
              /\ text \in Texts

\* What the two parts of a text say fits, or NewMoneyFromString refuses it; its three bound
\* tests, one of them on a product that may have wrapped, miss no case.
LEMMA ParseExact ==
  ASSUME NEW i \in Nat, NEW d \in 0 .. 99, NEW c
  PROVE  NewMoneyFromString(i, d, c) =
           IF i * 100 + d <= MaxInt64 THEN Ok(MoneyOf(i * 100 + d, c)) ELSE Err("overflow")
<1>1. i <= MaxInt64 \div 100 <=> i * 100 <= MaxInt64
  BY MoneyAssumption
<1>2. CASE i * 100 <= MaxInt64
  <2>1. i * 100 \in Int64 /\ Wrap(i * 100) = i * 100
    BY <1>2, WrapInRange, MoneyAssumption DEF Int64, MinInt64
  <2>2. i * 100 + d <= MaxInt64 => Wrap(i * 100 + d) = i * 100 + d
    BY <1>2, WrapInRange, MoneyAssumption DEF Int64, MinInt64
  <2>3. i <= MaxInt64 /\ (i * 100 > MaxInt64 - d <=> ~(i * 100 + d <= MaxInt64))
    BY <1>2, MoneyAssumption
  <2>4. QED
    BY <1>1, <1>2, <2>1, <2>2, <2>3, MoneyAssumption DEF NewMoneyFromString
<1>3. CASE ~(i * 100 <= MaxInt64)
  <2>1. ~(i * 100 + d <= MaxInt64) /\ i > MaxInt64 \div 100
    BY <1>1, <1>3, MoneyAssumption
  <2>2. QED
    BY <2>1, MoneyAssumption DEF NewMoneyFromString
<1>4. QED
  BY <1>2, <1>3

\* String takes an amount that is not negative apart into the parts it was parsed from.
LEMMA StringExact ==
  ASSUME NEW i \in Nat, NEW d \in 0 .. 99, NEW c
  PROVE  String(MoneyOf(i * 100 + d, c)) = [negative |-> FALSE, integers |-> i, decimals |-> d]
<1> DEFINE n == i * 100 + d
<1>1. n >= 0 /\ n \div 100 = i /\ n - 100 * i = d
  OBVIOUS
<1>2. Quo(n, 100) = i /\ Rem(n, 100) = d
  BY <1>1 DEF Quo, Rem
<1>3. IsNegative(MoneyOf(n, c)) = FALSE /\ MoneyOf(n, c).amount = n
  BY <1>1 DEF IsNegative, MoneyOf
<1> HIDE DEF n
<1>4. String(MoneyOf(n, c)) = [negative |-> FALSE, integers |-> i, decimals |-> d]
  BY <1>2, <1>3 DEF String
<1>5. QED
  BY <1>4 DEF n

\* A movement leaves a funded wallet.
LEMMA MovementFunded ==
  ASSUME NEW w, Funded(w), NEW n \in 0 .. MaxInt64
  PROVE  Funded(AfterMovement(w, n))
<1>1. /\ AfterMovement(w, n).balance = [amount |-> n, currency |-> w.balance.currency]
      /\ w.balance.currency \in Currencies
  BY DEF AfterMovement, Funded, Monies
<1>2. n \in Int64
  BY MoneyAssumption DEF Int64, MinInt64
<1>3. QED
  BY <1>1, <1>2 DEF AfterMovement, Funded, WalletRecord, Monies

LEMMA InitFunded == Init => AccountInv
BY MoneyAssumption DEF Init, AccountInv, Texts

LEMMA StepFunded == AccountInv /\ [Next]_accountVars => AccountInv'
<1> SUFFICES ASSUME AccountInv, [Next]_accountVars PROVE AccountInv'
  OBVIOUS
<1>0. <<0, 0>> \in Texts
  BY MoneyAssumption DEF Texts
<1>1. ASSUME NEW t \in Texts, NEW c \in Currencies, Open(t, c) PROVE AccountInv'
  <2> DEFINE i == t[1]
             d == t[2]
             parsed == NewMoneyFromString(i, d, c)
             opened == NewWallet(Player, parsed.money)
  <2>1. i \in Nat /\ d \in 0 .. 99
    BY MoneyAssumption DEF Texts
  <2>2. /\ text' = t
        /\ \/ account' = NoAccount
           \/ parsed.err = "none" /\ opened.err = "none" /\ account' = opened.wallet
    BY <1>1 DEF Open
  <2>3. ASSUME parsed.err = "none", opened.err = "none", account' = opened.wallet
        PROVE  Funded(account')
    <3> DEFINE n == i * 100 + d
    <3>1. n <= MaxInt64 /\ parsed.money = MoneyOf(n, c)
      <4>1. parsed = IF n <= MaxInt64 THEN Ok(MoneyOf(n, c)) ELSE Err("overflow")
        BY <2>1, ParseExact
      <4> HIDE DEF n, parsed
      <4>2. QED
        BY <2>3, <4>1 DEF Ok, Err
    <3>2. n \in 0 .. MaxInt64 /\ n \in Int64
      BY <2>1, <3>1, MoneyAssumption DEF Int64, MinInt64
    <3> HIDE DEF n, parsed
    <3>3. opened.wallet = WalletRecord(Player, MoneyOf(n, c), 1)
      BY <3>1, <3>2 DEF NewWallet, IsNegative, MoneyOf, Changed
    <3>4. MoneyOf(n, c) \in Monies /\ MoneyOf(n, c).amount = n
      BY <3>2 DEF MoneyOf, Monies
    <3>5. QED
      BY <2>3, <3>2, <3>3, <3>4 DEF Funded, WalletRecord
  <2>4. QED
    BY <2>2, <2>3 DEF AccountInv
<1>2. ASSUME NEW m \in Monies, account # NoAccount, Transact(Debit(account, m)) PROVE AccountInv'
  <2>1. /\ account' = AfterMovement(account, account.balance.amount - m.amount)
        /\ m.amount \in 1 .. account.balance.amount
    BY <1>2, DebitGives DEF Transact, AccountInv, Funded
  <2>2. account.balance.amount - m.amount \in 0 .. MaxInt64
    BY <1>2, <2>1, MoneyAssumption DEF AccountInv, Funded
  <2>3. QED
    BY <1>0, <1>2, <2>1, <2>2, MovementFunded DEF Transact, AccountInv
<1>3. ASSUME NEW m \in Monies, account # NoAccount, Transact(Credit(account, m)) PROVE AccountInv'
  <2>1. /\ account' = AfterMovement(account, account.balance.amount + m.amount)
        /\ account.balance.amount + m.amount \in 0 .. MaxInt64
    BY <1>3, CreditGives DEF Transact, AccountInv, Funded
  <2>2. QED
    BY <1>0, <1>3, <2>1, MovementFunded DEF Transact, AccountInv
<1>4. CASE UNCHANGED accountVars
  BY <1>4 DEF accountVars, AccountInv
<1>5. QED
  BY <1>1, <1>2, <1>3, <1>4 DEF Next

\* The invariant holds.
LEMMA FundedHolds == Spec => []AccountInv
BY InitFunded, StepFunded, PTL DEF Spec

-----------------------------------------------------------------------------

\* NewMoneyFromString accepts exactly the texts whose cents fit an int64 of any width, and
\* Money.String gives back the text that was parsed.
THEOREM TextsRoundTrip == Spec => []TextRoundTrips
<1>1. AccountInv => TextRoundTrips
  <2> SUFFICES ASSUME AccountInv, NEW c \in Currencies
               PROVE  LET parsed == NewMoneyFromString(text[1], text[2], c) IN
                      /\ parsed.err = "none" <=> text[1] * 100 + text[2] <= MaxInt64
                      /\ parsed.err = "none" =>
                           String(parsed.money) =
                             [negative |-> FALSE, integers |-> text[1], decimals |-> text[2]]
    BY DEF TextRoundTrips
  <2>1. text[1] \in Nat /\ text[2] \in 0 .. 99
    BY MoneyAssumption DEF AccountInv, Texts
  <2> DEFINE n == text[1] * 100 + text[2]
             parsed == NewMoneyFromString(text[1], text[2], c)
  <2>2. parsed = IF n <= MaxInt64 THEN Ok(MoneyOf(n, c)) ELSE Err("overflow")
    BY <2>1, ParseExact
  <2>3. String(MoneyOf(n, c)) =
          [negative |-> FALSE, integers |-> text[1], decimals |-> text[2]]
    BY <2>1, StringExact
  <2> HIDE DEF parsed
  <2>4. /\ parsed.err = "none" <=> n <= MaxInt64
        /\ parsed.err = "none" => parsed.money = MoneyOf(n, c)
    BY <2>2 DEF Ok, Err
  <2>5. QED
    BY <2>3, <2>4 DEF parsed
<1>2. QED
  BY <1>1, FundedHolds, PTL

\* Money.Add and Subtract on a balance, its negation or the smallest integer, and any other
\* amount, and Money.Negate of any amount: exact, or refused exactly when an int64 of any
\* width cannot hold the result.
THEOREM ArithmeticStaysExact == Spec => []ArithmeticIsExact
<1>1. AccountInv => ArithmeticIsExact
  <2> SUFFICES ASSUME AccountInv, account # NoAccount, NEW a \in Operands, NEW b \in Monies
               PROVE  LET sum  == Add(a, b)
                          diff == Subtract(a, b)
                          neg  == Negate(b)
                          one  == a.currency = b.currency
                      IN  /\ neg.err = "none" <=> -b.amount \in Int64
                          /\ neg.err = "none" => neg.money = MoneyOf(-b.amount, b.currency)
                          /\ sum.err = "none" <=> one /\ a.amount + b.amount \in Int64
                          /\ sum.err = "none" => sum.money.amount = a.amount + b.amount
                          /\ diff.err = "none" <=> one /\ a.amount - b.amount \in Int64
                          /\ diff.err = "none" => diff.money.amount = a.amount - b.amount
    BY DEF ArithmeticIsExact
  <2>1. a \in Monies
    <3>1. /\ account.balance \in Monies /\ account.balance.currency \in Currencies
          /\ account.balance.amount \in 0 .. MaxInt64
      BY DEF AccountInv, Funded, Monies
    <3>2. MinInt64 \in Int64 /\ -account.balance.amount \in Int64
      BY <3>1, MoneyAssumption DEF Int64, MinInt64
    <3>3. \A n \in Int64 : MoneyOf(n, account.balance.currency) \in Monies
      BY <3>1 DEF MoneyOf, Monies
    <3>4. Negate(account.balance).money =
            MoneyOf(-account.balance.amount, account.balance.currency)
      <4>1. account.balance.amount # MinInt64
        BY <3>1, MoneyAssumption DEF MinInt64
      <4>2. QED
        BY <3>2, <4>1, WrapInRange DEF Negate, Ok
    <3>5. QED
      BY <3>1, <3>2, <3>3, <3>4 DEF Operands
  <2>2. /\ Negate(b).err = "none" <=> -b.amount \in Int64
        /\ Negate(b).err = "none" => Negate(b).money = MoneyOf(-b.amount, b.currency)
    BY NegateExact DEF Ok, Err
  <2>3. CASE a.currency = b.currency
    BY <2>1, <2>2, <2>3, AddExact, SubtractExact DEF Ok, Err, MoneyOf
  <2>4. CASE a.currency # b.currency
    BY <2>2, <2>4 DEF Add, Subtract, Err
  <2>5. QED
    BY <2>3, <2>4
<1>2. QED
  BY <1>1, FundedHolds, PTL

\* What a movement changes of a wallet.
LEMMA MovementChanges ==
  ASSUME NEW w, Funded(w), NEW n
  PROVE  AfterMovement(w, n) = [w EXCEPT !.balance.amount = n, !.version = @ + 1]
<1> DEFINE b == [amount |-> w.balance.amount, currency |-> w.balance.currency]
           c == [b EXCEPT !.amount = n]
           v == [w EXCEPT !.balance.amount = n]
<1>1. c = [amount |-> n, currency |-> w.balance.currency]
  OBVIOUS
<1>2. /\ w = [player |-> w.player, balance |-> w.balance, version |-> w.version]
      /\ w.balance = b
  BY DEF Funded, WalletRecord, Monies
<1> HIDE DEF c, b
<1>3. v = [w EXCEPT !.balance = c]
  BY <1>2 DEF c
<1>4. v = [player |-> w.player, balance |-> c, version |-> w.version]
  BY <1>2, <1>3
<1> HIDE DEF v
<1>5. [v EXCEPT !.version = w.version + 1] =
        [player |-> w.player, balance |-> c, version |-> w.version + 1]
  BY <1>4
<1>6. QED
  BY <1>1, <1>5 DEF v, AfterMovement

\* Debit accepts exactly a positive amount of the wallet's currency that the balance covers.
LEMMA DebitAccepts ==
  ASSUME NEW w, Funded(w), NEW m \in Monies
  PROVE  Debit(w, m).err = "none" <=>
           /\ m.amount > 0 /\ m.currency = w.balance.currency
           /\ m.amount <= w.balance.amount
<1>1. w.balance \in Monies /\ w.balance.amount \in 0 .. MaxInt64 /\ m.amount \in Int64
  BY DEF Funded, Monies
<1>2. Debit(w, m).err = "none" =>
        m.amount \in 1 .. w.balance.amount /\ m.currency = w.balance.currency
  <2>1. Debit(w, m).err = "none" => m.currency = w.balance.currency
    BY DEF Debit, Refused
  <2>2. QED
    BY <1>1, <2>1, DebitGives
<1>3. ASSUME m.amount > 0, m.currency = w.balance.currency, m.amount <= w.balance.amount
      PROVE  Debit(w, m).err = "none"
  <2>1. w.balance.amount - m.amount \in Int64
    BY <1>1, <1>3, MoneyAssumption DEF Int64, MinInt64
  <2>2. Subtract(w.balance, m).err = "none"
    BY <1>1, <1>3, <2>1, SubtractExact DEF Ok
  <2>3. ~IsNegative(m) /\ ~IsZero(m) /\ ~(Compare(w.balance, m) < 0)
    BY <1>1, <1>3, MoneyAssumption DEF IsNegative, IsZero, Compare, Int64, MinInt64
  <2>4. QED
    BY <1>3, <2>2, <2>3 DEF Debit, Changed
<1>4. QED
  BY <1>1, <1>2, <1>3, MoneyAssumption DEF Int64, MinInt64

\* Credit accepts exactly a positive amount of the wallet's currency that leaves the balance
\* within an int64.
LEMMA CreditAccepts ==
  ASSUME NEW w, Funded(w), NEW m \in Monies
  PROVE  Credit(w, m).err = "none" <=>
           /\ m.amount > 0 /\ m.currency = w.balance.currency
           /\ w.balance.amount + m.amount <= MaxInt64
<1>1. w.balance \in Monies /\ w.balance.amount \in 0 .. MaxInt64 /\ m.amount \in Int64
  BY DEF Funded, Monies
<1>2. Credit(w, m).err = "none" =>
        /\ m.amount > 0 /\ m.currency = w.balance.currency
        /\ w.balance.amount + m.amount <= MaxInt64
  <2>1. Credit(w, m).err = "none" => m.currency = w.balance.currency
    BY DEF Credit, Refused
  <2>2. QED
    BY <1>1, <2>1, CreditGives, MoneyAssumption DEF Int64, MinInt64
<1>3. ASSUME m.amount > 0, m.currency = w.balance.currency,
             w.balance.amount + m.amount <= MaxInt64
      PROVE  Credit(w, m).err = "none"
  <2>1. w.balance.amount + m.amount \in Int64
    BY <1>1, <1>3, MoneyAssumption DEF Int64, MinInt64
  <2>2. Add(w.balance, m).err = "none"
    BY <1>1, <1>3, <2>1, AddExact DEF Ok
  <2>3. ~IsNegative(m) /\ ~IsZero(m)
    BY <1>1, <1>3, MoneyAssumption DEF IsNegative, IsZero, Int64, MinInt64
  <2>4. QED
    BY <1>3, <2>2, <2>3 DEF Credit, Changed
<1>4. QED
  BY <1>2, <1>3

\* Wallet.Debit and Credit, after any story of movements: refused exactly when they must be,
\* exact otherwise, the version one more.
THEOREM MovementsStayExact == Spec => []MovementsAreExact
<1>1. AccountInv => MovementsAreExact
  <2> SUFFICES ASSUME AccountInv, account # NoAccount, NEW m \in Monies
               PROVE  LET debit  == Debit(account, m)
                          credit == Credit(account, m)
                          mine   == m.amount > 0 /\ m.currency = account.balance.currency
                          after(r, n) ==
                            r.wallet = [account EXCEPT !.balance.amount = n, !.version = @ + 1]
                      IN  /\ debit.err = "none" <=> mine /\ m.amount <= account.balance.amount
                          /\ debit.err = "none" =>
                               after(debit, account.balance.amount - m.amount)
                          /\ credit.err = "none" <=>
                               mine /\ account.balance.amount + m.amount <= MaxInt64
                          /\ credit.err = "none" =>
                               after(credit, account.balance.amount + m.amount)
    BY DEF MovementsAreExact
  <2>1. Funded(account) /\ account.balance \in Monies /\ account.balance.amount \in 0 .. MaxInt64
    BY DEF AccountInv, Funded
  <2>2. \A n : AfterMovement(account, n) =
                 [account EXCEPT !.balance.amount = n, !.version = @ + 1]
    BY <2>1, MovementChanges
  <2>3. Debit(account, m).err = "none" =>
          Debit(account, m).wallet = AfterMovement(account, account.balance.amount - m.amount)
    BY <2>1, DebitGives
  <2>4. Credit(account, m).err = "none" =>
          Credit(account, m).wallet = AfterMovement(account, account.balance.amount + m.amount)
    BY <2>1, CreditGives
  <2>5. QED
    BY <2>1, <2>2, <2>3, <2>4, DebitAccepts, CreditAccepts
<1>2. QED
  BY <1>1, FundedHolds, PTL
=============================================================================
