---------------------------- MODULE AtomicLedger ----------------------------
(***************************************************************************)
(* What the service promises about money, without sessions, locks or       *)
(* failures: opening a wallet, deciding a wager and settling a pending     *)
(* refund each happen in one step or not at all, on the state of that      *)
(* step, with the ledger entry, the consumed message and the events.       *)
(* WagerLedger implements it.                                              *)
(***************************************************************************)
EXTENDS LedgerData

VARIABLES wallets, txs, ledger, inbox, outbox

atoms == <<wallets, txs, ledger, inbox, outbox>>

Init == /\ wallets = [w \in WalletIds |-> NoWallet]
        /\ txs = [t \in TxIds |-> NoRow]
        /\ ledger = [w \in WalletIds |-> << >>]
        /\ inbox = {}
        /\ outbox = {}

Known(r)     == \E t \in TxIds : txs[t] # NoRow /\ Clash(txs[t].req, r)
Opened(o)    == \E w \in WalletIds : wallets[w] # NoWallet /\ (w = o.wallet \/ IsFor(wallets[w], o))
Settled(ext, statuses) ==
  \E t \in TxIds : txs[t] # NoRow /\ txs[t].req.ext = ext /\ txs[t].status \in statuses

Record(r, status) == txs' = [txs EXCEPT ![TxId(r)] = [req |-> r, status |-> status]]

\* The wallet becomes after, its ledger says why, and both are announced.
Move(r, after, event) ==
  /\ wallets' = [wallets EXCEPT ![r.wallet] = after]
  /\ ledger' = [ledger EXCEPT ![r.wallet] = Append(@, Entry(r, wallets[r.wallet], after))]
  /\ outbox' = outbox \cup {event, Event("WalletBalanceChanged", r, after.version)}

Announce(r, type) == /\ outbox' = outbox \cup {Event(type, r, 0)}
                     /\ UNCHANGED <<wallets, ledger>>

Open(o) ==
  LET opened == NewWallet(o.player, o.money).wallet IN
  /\ ~Opened(o)
  /\ UNCHANGED inbox
  /\ \/ /\ IsZero(o.money)
        /\ wallets' = [wallets EXCEPT ![o.wallet] = opened]
        /\ UNCHANGED <<txs, ledger, outbox>>
     \/ /\ ~IsZero(o.money) /\ ~Known(o)
        /\ Record(o, "PROCESSED")
        /\ Move(o, opened, Event("WALLET_OPENED", o, opened.version))

MoveAndRecord(r) ==
  LET move == Moves(r, wallets[r.wallet]) IN
  /\ move.err = "none"
  /\ Record(r, "PROCESSED")
  /\ Move(r, move.wallet, Event("WagerTransactionProcessed", r, 0))

\* A wager nobody has sent before is decided once, and its messages are consumed with it.
Decide(r, consumed) ==
  /\ Valid(r) /\ ~Known(r)
  /\ wallets[r.wallet] # NoWallet
  /\ wallets[r.wallet].player = r.player
  /\ inbox' = inbox \cup consumed
  /\ \/ /\ \/ r.kind \in {"BET", "WIN"}
           \/ r.kind \in {"REFUND", "ROLLBACK"} /\ Settled(r.ref, {"PROCESSED"})
        /\ MoveAndRecord(r)
     \/ /\ r.kind = "BET" /\ Debit(wallets[r.wallet], r.money).err = "insufficient"
        /\ Record(r, "REJECTED")
        /\ Announce(r, "WagerTransactionRejected")
     \/ /\ r.kind = "LOSS"
        /\ Record(r, "PROCESSED")
        /\ Announce(r, "WagerTransactionProcessed")
     \/ /\ r.kind \in {"REFUND", "ROLLBACK"}
        /\ Record(r, "PENDING_REFERENCE")
        /\ Announce(r, "WagerTransactionPendingReference")

\* A message that asks for what is already stored is consumed without effect.
Consume(m) ==
  /\ \E t \in TxIds : txs[t] # NoRow /\ PayloadHash(txs[t].req) = PayloadHash(Body[m])
  /\ inbox' = inbox \cup {m}
  /\ UNCHANGED <<wallets, txs, ledger, outbox>>

\* A pending refund is paid on a processed reference, or rejected on one it has met.
Settle(t) ==
  /\ txs[t] # NoRow /\ txs[t].status = "PENDING_REFERENCE"
  /\ UNCHANGED inbox
  /\ \/ /\ Settled(txs[t].req.ref, {"PROCESSED"})
        /\ MoveAndRecord(txs[t].req)
     \/ /\ Settled(txs[t].req.ref, Statuses)
        /\ Record(txs[t].req, "REJECTED")
        /\ UNCHANGED <<wallets, ledger, outbox>>

Next == \/ \E o \in Openings : Open(o)
        \/ \E r \in HttpRequests : Decide(r, {})
        \/ \E m \in Msgs : Decide(Body[m], {m}) \/ Consume(m)
        \/ \E t \in TxIds : Settle(t)

Spec == Init /\ [][Next]_atoms
=============================================================================
