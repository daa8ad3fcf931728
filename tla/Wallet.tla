------------------------------- MODULE Wallet -------------------------------
(***************************************************************************)
(* internal/domain/wallet.go: the wallet aggregate, a balance in one       *)
(* currency with the version number optimistic updates compare.  Debit and *)
(* Credit return the wallet as the method leaves it, or the error with     *)
(* which it leaves the wallet untouched.                                   *)
(***************************************************************************)
EXTENDS Money

WalletRecord(player, money, version) ==
  [player |-> player, balance |-> money, version |-> version]

Changed(w)  == [err |-> "none", wallet |-> w]
Refused(e)  == [err |-> e]

NewWallet(player, initial) ==
  IF IsNegative(initial) THEN Refused("negative")
  ELSE Changed(WalletRecord(player, initial, 1))

\* Mutant: version++ is missing.
MovedUnversioned(w, money) == WalletRecord(w.player, money, w.version)

\* version counts single steps from 1: it would need 2^63 movements to wrap.
Moved(w, money) == WalletRecord(w.player, money, w.version + 1)

\* Mutant: the balance is not compared with the amount.
DebitUnfunded(w, amount) ==
  IF IsNegative(amount) \/ IsZero(amount)          THEN Refused("not_positive")
  ELSE IF w.balance.currency # amount.currency     THEN Refused("currency")
  ELSE LET r == Subtract(w.balance, amount)
       IN  IF r.err # "none" THEN Refused(r.err) ELSE Changed(Moved(w, r.money))

Debit(w, amount) ==
  IF IsNegative(amount) \/ IsZero(amount)          THEN Refused("not_positive")
  ELSE IF w.balance.currency # amount.currency     THEN Refused("currency")
  ELSE IF Compare(w.balance, amount) < 0           THEN Refused("insufficient")
  ELSE LET r == Subtract(w.balance, amount)
       IN  IF r.err # "none" THEN Refused(r.err) ELSE Changed(Moved(w, r.money))

Credit(w, amount) ==
  IF IsNegative(amount) \/ IsZero(amount)          THEN Refused("not_positive")
  ELSE IF w.balance.currency # amount.currency     THEN Refused("currency")
  ELSE LET r == Add(w.balance, amount)
       IN  IF r.err # "none" THEN Refused(r.err) ELSE Changed(Moved(w, r.money))
=============================================================================
