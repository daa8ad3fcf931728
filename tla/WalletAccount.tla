--------------------------- MODULE WalletAccount ---------------------------
(***************************************************************************)
(* The wallet aggregate on its own, as internal/domain's tests use it: one *)
(* wallet opened from a decimal text, then debited and credited.  The      *)
(* integer width is small, so every pair of int64 operands is tried.       *)
(***************************************************************************)
EXTENDS Wallet

CONSTANTS Player, NoAccount,
          MaxVersion     \* bound on the movements explored

VARIABLES account,       \* the wallet, or NoAccount
          text           \* <<integers, decimals>> of the last amount parsed, until a movement

accountVars == <<account, text>>

Texts == (0 .. MaxInt64 + 1) \X (0 .. 99)

Init == account = NoAccount /\ text = <<0, 0>>

Open(t, currency) ==
  LET parsed == NewMoneyFromString(t[1], t[2], currency)
      opened == NewWallet(Player, parsed.money)
  IN
  /\ account = NoAccount /\ text = <<0, 0>>     \* a refused text ends the story
  /\ text' = t
  /\ account' = IF parsed.err = "none" /\ opened.err = "none" THEN opened.wallet
                ELSE NoAccount

Transact(answer) ==
  /\ account # NoAccount /\ account.version < MaxVersion
  /\ answer.err = "none"
  /\ account' = answer.wallet
  /\ text' = <<0, 0>>

Next == \/ \E t \in Texts, c \in Currencies : Open(t, c)
        \/ \E m \in Monies : account # NoAccount /\ Transact(Debit(account, m))
        \/ \E m \in Monies : account # NoAccount /\ Transact(Credit(account, m))

Spec == Init /\ [][Next]_accountVars

-----------------------------------------------------------------------------

\* An amount is accepted exactly if its cents fit, and String spells what was parsed.
TextRoundTrips ==
  LET parsed(c) == NewMoneyFromString(text[1], text[2], c) IN
  \A c \in Currencies :
    /\ parsed(c).err = "none" <=> text[1] * 100 + text[2] <= MaxInt64
    /\ parsed(c).err = "none" =>
         String(parsed(c).money) =
           [negative |-> FALSE, integers |-> text[1], decimals |-> text[2]]

\* The operands met: the balance, its negation and the smallest integer.
Operands == {account.balance, Negate(account.balance).money,
             MoneyOf(MinInt64, account.balance.currency)}

\* Add and Subtract give the exact sum and difference of any two int64 amounts of one
\* currency, and Negate the exact opposite; they refuse exactly what an int64 cannot hold,
\* -MinInt64 among it: no wrapped amount gets out.
ArithmeticIsExact ==
  account # NoAccount =>
    \A a \in Operands, b \in Monies :
      LET sum  == Add(a, b)
          diff == Subtract(a, b)
          neg  == Negate(b)
          one  == a.currency = b.currency
      IN  /\ neg.err = "none" <=> -b.amount \in Int64
          /\ neg.err = "none" => neg.money = MoneyOf(-b.amount, b.currency)
          /\ sum.err = "none" <=> one /\ a.amount + b.amount \in Int64
          /\ sum.err = "none" => sum.money.amount = a.amount + b.amount
          /\ diff.err = "none" <=> one /\ a.amount - b.amount \in Int64
          /\ diff.err = "none" => diff.money.amount = a.amount - b.amount

\* A debit or credit is refused exactly when it must be: not a positive amount, another
\* currency, more than the balance, or a balance beyond MaxInt64; else it is exact.
MovementsAreExact ==
  account # NoAccount =>
    \A m \in Monies :
      LET debit  == Debit(account, m)
          credit == Credit(account, m)
          mine   == m.amount > 0 /\ m.currency = account.balance.currency
          after(r, n) == r.wallet = [account EXCEPT !.balance.amount = n, !.version = @ + 1]
      IN  /\ debit.err = "none" <=> mine /\ m.amount <= account.balance.amount
          /\ debit.err = "none" => after(debit, account.balance.amount - m.amount)
          /\ credit.err = "none" <=> mine /\ account.balance.amount + m.amount <= MaxInt64
          /\ credit.err = "none" => after(credit, account.balance.amount + m.amount)
=============================================================================
