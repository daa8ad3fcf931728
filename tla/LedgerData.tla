----------------------------- MODULE LedgerData -----------------------------
(***************************************************************************)
(* The rows of the database and the pure rules about them: what            *)
(* internal/domain/transaction.go, the migration's tables and the use      *)
(* cases' records hold.  WagerLedger and AtomicLedger share this module.   *)
(***************************************************************************)
EXTENDS Wallet, Sequences, FiniteSets

CONSTANTS
  WalletIds, Players,
  Exts,          \* pairs (provider id, external transaction id)
  Keys,          \* idempotency keys
  TxIds,         \* values of wager_transactions.id
  InternalId,    \* Exts -> TxIds: "tx_" provider "_" external id (two pairs may collide)
  Msgs,          \* SQS message ids
  Body,          \* Msgs -> requests: what each message asks for
  HttpRequests,  \* the requests providers send over HTTP
  Openings,      \* the OPENING transactions wallet creation can write
  NoRow, NoWallet, NoExt

Kinds    == {"OPENING", "BET", "WIN", "LOSS", "REFUND", "ROLLBACK"}
Statuses == {"PENDING", "PENDING_REFERENCE", "PROCESSED", "REJECTED", "FAILED"}
Terminal == {"PROCESSED", "REJECTED", "FAILED"}

Requests == [ext : Exts, key : Keys, wallet : WalletIds, player : Players,
             kind : Kinds, money : Monies, ref : Exts \cup {NoExt}]
Rows     == [req : Requests, status : Statuses]
Balances == [amount : 0 .. MaxInt64, currency : Currencies]
Wallets  == [player : Players, balance : Balances, version : Nat \ {0}]
Entries  == [tx : TxIds, direction : {"DEBIT", "CREDIT"}, amount : 1 .. MaxInt64,
             before : 0 .. MaxInt64, after : 0 .. MaxInt64]
EventTypes == {"WALLET_OPENED", "WalletBalanceChanged", "WagerTransactionProcessed",
               "WagerTransactionRejected", "WagerTransactionPendingReference"}
Events   == [type : EventTypes, tx : TxIds, version : Nat]

ASSUME LedgerAssumption ==
  /\ InternalId \in [Exts -> TxIds]
  /\ Body \in [Msgs -> Requests]
  /\ HttpRequests \subseteq Requests
  /\ Openings \subseteq Requests
  /\ \A o \in Openings : o.kind = "OPENING" /\ o.money.amount >= 0
  /\ NoExt \notin Exts
  /\ NoRow \notin Rows /\ NoWallet \notin Wallets

-----------------------------------------------------------------------------

TxId(r) == InternalId[r.ext]

\* Mutant: the hash covers the wager and not the provider's name for it.
PayloadHashWithoutIds(r) == <<r.wallet, r.player, r.kind, r.money, r.ref>>

\* payload_hash covers every field of a request but its idempotency key.
PayloadHash(r) == <<r.ext, r.wallet, r.player, r.kind, r.money, r.ref>>

\* NewWagerTransaction's validation.
Valid(r) == CASE r.kind = "LOSS"                          -> r.money.amount = 0
              [] r.kind \in {"BET", "WIN"}                -> r.money.amount > 0
              [] r.kind \in {"REFUND", "ROLLBACK"}        -> r.money.amount > 0 /\ r.ref # NoExt
              [] OTHER                                    -> FALSE

\* Two rows one of the unique indexes of wager_transactions keeps apart.
Clash(a, b) == TxId(a) = TxId(b) \/ a.ext = b.ext \/ a.key = b.key

\* Two wallets, and a stored wallet and one to be opened, that the unique index of
\* wallets on player and currency keeps apart; openings may share the id too.
IsFor(w, o)      == w.player = o.player /\ w.balance.currency = o.money.currency
SameWallet(a, b) == \/ a.wallet = b.wallet
                    \/ a.player = b.player /\ a.money.currency = b.money.currency

\* What Debit or Credit of the locked wallet answers.
Moves(r, w) == IF r.kind = "BET" THEN Debit(w, r.money) ELSE Credit(w, r.money)

\* Mutant: the balance before is read after Debit or Credit changed it.
EntryAfter(r, before, after) ==
  [tx        |-> TxId(r),
   direction |-> IF r.kind = "BET" THEN "DEBIT" ELSE "CREDIT",
   amount    |-> r.money.amount,
   before    |-> after.balance.amount,
   after     |-> after.balance.amount]

\* The ledger entry of a movement; a wallet being opened starts from nothing.
Entry(r, before, after) ==
  [tx        |-> TxId(r),
   direction |-> IF r.kind = "BET" THEN "DEBIT" ELSE "CREDIT",
   amount    |-> r.money.amount,
   before    |-> IF before = NoWallet THEN 0 ELSE before.balance.amount,
   after     |-> after.balance.amount]

\* An outbox row: its type, the transaction and, for events of a wallet, its version.
Event(type, r, version) == [type |-> type, tx |-> TxId(r), version |-> version]
=============================================================================
