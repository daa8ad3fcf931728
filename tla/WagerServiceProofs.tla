------------------------- MODULE WagerServiceProofs -------------------------
(***************************************************************************)
(* What the use cases and their callers may be relied on for.  First the   *)
(* use cases alone: what the tables say of each other, what calls answer,  *)
(* and that they never all wait.  Then HttpApi and SqsConsumer, whose      *)
(* every step is one of WagerLedger or leaves it alone, so that all of it  *)
(* holds behind them.  Last, how far the two disagreements with the        *)
(* documents reach.                                                        *)
(***************************************************************************)
EXTENDS SqsConsumer, WagerLedgerProofs

-----------------------------------------------------------------------------
(***************************************************************************)
(* What the tables say of each other.  The invariants here relate only     *)
(* committed rows, so they are shown to survive the steps of AtomicLedger, *)
(* and the refinement carries them to every interleaving of the calls.     *)
(* In the end: what calls answer is what the tables say.                   *)
(***************************************************************************)
(* The invariant *)

\* Every stored transaction is about a wallet that exists.
Housed == \A t \in Stored : wallets[txs[t].req.wallet] # NoWallet

\* Nothing has moved a wallet before it exists.
Unmoved == \A w \in WalletIds : wallets[w] = NoWallet => ledger[w] = << >>

Tables == /\ Housed /\ Unmoved
          /\ VersionCountsMovements /\ EventsMatchState
          /\ ConsumedIsStored /\ PaidRefundHasReference

-----------------------------------------------------------------------------
(* The five ways a commit changes the tables *)

Recorded(r, status) ==
  /\ r \in Requests /\ TxId(r) \in TxIds /\ r.wallet \in WalletIds
  /\ txs' = [txs EXCEPT ![TxId(r)] = [req |-> r, status |-> status]]
  /\ \/ txs[TxId(r)] = NoRow
     \/ /\ txs[TxId(r)] # NoRow /\ txs[TxId(r)].req = r
        /\ txs[TxId(r)].status = "PENDING_REFERENCE"
        /\ r.kind \in {"REFUND", "ROLLBACK"}

\* A movement, from version 0 when it is the wallet's opening.
Shifted(r, after) ==
  /\ Recorded(r, "PROCESSED") /\ r.kind # "LOSS"
  /\ r.kind \in {"REFUND", "ROLLBACK"} => Settled(txs, r.ref, {"PROCESSED"})
  /\ r.kind = "OPENING" <=> wallets[r.wallet] = NoWallet
  /\ wallets' = [wallets EXCEPT ![r.wallet] = after]
  /\ after # NoWallet
  /\ after.version = IF wallets[r.wallet] = NoWallet THEN 1 ELSE wallets[r.wallet].version + 1
  /\ ledger' = [ledger EXCEPT ![r.wallet] = Append(@, Entry(r, wallets[r.wallet], after))]
  /\ \E event :
       /\ outbox' = outbox \cup {event, Event("WalletBalanceChanged", r, after.version)}
       /\ \/ r.kind = "OPENING" /\ event = Event("WALLET_OPENED", r, after.version)
          \/ r.kind # "OPENING" /\ event = Event("WagerTransactionProcessed", r, 0)

\* A wager that moves nothing: announced when it is first sent, silent when a pending
\* refund is rejected.
Noted(r, status) ==
  /\ Recorded(r, status) /\ r.kind # "OPENING"
  /\ wallets[r.wallet] # NoWallet
  /\ UNCHANGED <<wallets, ledger>>
  /\ \/ /\ txs[TxId(r)] = NoRow
        /\ outbox' = outbox \cup {Event(StatusEvent[status], r, 0)}
        /\ \/ r.kind = "BET" /\ status = "REJECTED"
           \/ r.kind = "LOSS" /\ status = "PROCESSED"
           \/ r.kind \in {"REFUND", "ROLLBACK"} /\ status = "PENDING_REFERENCE"
     \/ /\ txs[TxId(r)] # NoRow /\ status = "REJECTED"
        /\ UNCHANGED outbox

OpenedEmpty(w, opened) ==
  /\ w \in WalletIds /\ wallets[w] = NoWallet
  /\ opened # NoWallet /\ opened.version = 1
  /\ wallets' = [wallets EXCEPT ![w] = opened]
  /\ UNCHANGED <<txs, ledger, outbox>>

Changes == \/ UNCHANGED <<wallets, txs, ledger, outbox>>
           \/ \E w, opened : OpenedEmpty(w, opened)
           \/ \E r, after : Shifted(r, after)
           \/ \E r, status : Noted(r, status)

LEMMA MovesOn ==
  ASSUME NEW r \in Requests, NEW w \in Wallets, Moves(r, w).err = "none"
  PROVE  /\ Moves(r, w).wallet # NoWallet
         /\ Moves(r, w).wallet.version = w.version + 1
<1>1. r.money \in Monies
  BY RequestTyped
<1>2. \A n : AfterMovement(w, n).version = w.version + 1
  BY DEF AfterMovement
<1>3. CASE r.kind = "BET"
  BY <1>1, <1>2, <1>3, MovedTyped, DebitGives, BalanceIsMoney, LedgerAssumption DEF Moves
<1>4. CASE r.kind # "BET"
  BY <1>1, <1>2, <1>4, MovedTyped, CreditGives, BalanceIsMoney, LedgerAssumption DEF Moves
<1>5. QED
  BY <1>3, <1>4

LEMMA OpensWith ==
  ASSUME NEW o \in Openings
  PROVE  LET opened == NewWallet(o.player, o.money).wallet
         IN  opened # NoWallet /\ opened.version = 1
<1> DEFINE opened == NewWallet(o.player, o.money).wallet
<1>1. o \in Requests /\ o.money.amount \in Int64 /\ o.money.amount >= 0
  BY LedgerAssumption, RequestTyped DEF Monies
<1>2. opened \in Wallets /\ opened.version = 1
  BY <1>1, RequestTyped, MoneyAssumption
     DEF NewWallet, IsNegative, Changed, WalletRecord, Wallets, Balances, Monies, Int64, MinInt64
<1>3. QED
  BY <1>2, LedgerAssumption

\* A wager nobody knows has no row; the row of a pending refund is its own.
LEMMA NewRow ==
  ASSUME Once, NEW r \in Requests, ~Duplicate(r)
  PROVE  TxId(r) \in TxIds /\ r.wallet \in WalletIds /\ txs[TxId(r)] = NoRow
<1>1. TxId(r) \in TxIds /\ r.wallet \in WalletIds
  BY RequestTyped
<1>2. txs[TxId(r)] # NoRow => Clash(txs[TxId(r)].req, r)
  BY <1>1 DEF Once, RowsAreKeyed, Stored, Clash
<1>3. QED
  BY <1>1, <1>2 DEF Duplicate, Stored

LEMMA MoveShifts ==
  ASSUME TypeOK, NEW r \in Requests, Atomic!MoveAndRecord(r), Recorded(r, "PROCESSED"),
         wallets[r.wallet] # NoWallet, r.kind \notin {"OPENING", "LOSS"},
         r.kind \in {"REFUND", "ROLLBACK"} => Settled(txs, r.ref, {"PROCESSED"})
  PROVE  \E after : Shifted(r, after)
<1> DEFINE w == wallets[r.wallet]
           after == Moves(r, w).wallet
<1>1. w \in Wallets /\ r.wallet \in WalletIds
  BY RequestTyped DEF TypeOK
<1>2. Moves(r, w).err = "none" /\ Atomic!Move(r, after, Event("WagerTransactionProcessed", r, 0))
  BY AtomicMoves, AtomicData DEF Atomic!MoveAndRecord
<1>3. after # NoWallet /\ after.version = w.version + 1
  BY <1>1, <1>2, MovesOn
<1> HIDE DEF after
<1>4. Shifted(r, after)
  BY <1>1, <1>2, <1>3, AtomicData DEF Shifted, Atomic!Move
<1>5. QED
  BY <1>4

LEMMA OpenChanges ==
  ASSUME IInv, Once, NEW o \in Openings, Atomic!Open(o)
  PROVE  Changes
<1> DEFINE opened == NewWallet(o.player, o.money).wallet
<1>1. /\ o \in Requests /\ o.kind = "OPENING" /\ o.wallet \in WalletIds
      /\ wallets[o.wallet] = NoWallet
  BY LedgerAssumption, RequestTyped DEF Atomic!Open, Atomic!Opened
<1>2. opened # NoWallet /\ opened.version = 1
  BY OpensWith
<1>3. opened = Atomic!NewWallet(o.player, o.money).wallet
  BY AtomicMoves
<1> HIDE DEF opened
<1>4. CASE /\ wallets' = [wallets EXCEPT ![o.wallet] = opened]
           /\ UNCHANGED <<txs, ledger, outbox>>
  <2>1. OpenedEmpty(o.wallet, opened)
    BY <1>1, <1>2, <1>4 DEF OpenedEmpty
  <2>2. QED
    BY <2>1 DEF Changes
<1>5. CASE /\ ~Atomic!Known(o) /\ Atomic!Record(o, "PROCESSED")
           /\ Atomic!Move(o, opened, Atomic!Event("WALLET_OPENED", o, opened.version))
  <2>1. Recorded(o, "PROCESSED")
    BY <1>1, <1>5, NewRow, AtomicKnown, AtomicData DEF Recorded, Atomic!Record
  <2>2. Shifted(o, opened)
    BY <1>1, <1>2, <1>5, <2>1, AtomicData DEF Shifted, Atomic!Move
  <2>3. QED
    BY <2>2 DEF Changes
<1>6. QED
  BY <1>3, <1>4, <1>5 DEF Atomic!Open

LEMMA DecideChanges ==
  ASSUME IInv, Once, NEW r \in Requests, NEW consumed, Atomic!Decide(r, consumed)
  PROVE  Changes
<1>1. /\ Valid(r) /\ ~Duplicate(r) /\ wallets[r.wallet] # NoWallet
      /\ TxId(r) \in TxIds /\ r.wallet \in WalletIds /\ txs[TxId(r)] = NoRow
  BY NewRow, AtomicKnown, AtomicData DEF Atomic!Decide
<1>2. r.kind # "OPENING"
  BY <1>1 DEF Valid
<1>3. \A status : Atomic!Record(r, status) => Recorded(r, status)
  BY <1>1, AtomicData DEF Recorded, Atomic!Record
<1>4. ASSUME Atomic!MoveAndRecord(r), r.kind \in {"BET", "WIN", "REFUND", "ROLLBACK"},
             r.kind \in {"REFUND", "ROLLBACK"} => Atomic!Settled(r.ref, {"PROCESSED"})
      PROVE  Changes
  <2>1. Recorded(r, "PROCESSED") /\ TypeOK
    BY <1>3, <1>4 DEF Atomic!MoveAndRecord, IInv
  <2>2. \E after : Shifted(r, after)
    BY <1>1, <1>4, <2>1, MoveShifts, AtomicSettled
  <2>3. QED
    BY <2>2 DEF Changes
<1>5. ASSUME NEW status, Atomic!Record(r, status), NEW type, Atomic!Announce(r, type),
             type = StatusEvent[status],
             \/ r.kind = "BET" /\ status = "REJECTED"
             \/ r.kind = "LOSS" /\ status = "PROCESSED"
             \/ r.kind \in {"REFUND", "ROLLBACK"} /\ status = "PENDING_REFERENCE"
      PROVE  Changes
  <2>1. Noted(r, status)
    BY <1>1, <1>2, <1>3, <1>5, AtomicData DEF Noted, Atomic!Announce
  <2>2. QED
    BY <2>1 DEF Changes
<1>6. CASE /\ \/ r.kind \in {"BET", "WIN"}
              \/ r.kind \in {"REFUND", "ROLLBACK"} /\ Atomic!Settled(r.ref, {"PROCESSED"})
           /\ Atomic!MoveAndRecord(r)
  BY <1>4, <1>6
<1>7. CASE /\ r.kind = "BET" /\ Atomic!Record(r, "REJECTED")
           /\ Atomic!Announce(r, "WagerTransactionRejected")
  BY <1>5, <1>7 DEF StatusEvent
<1>8. CASE /\ r.kind = "LOSS" /\ Atomic!Record(r, "PROCESSED")
           /\ Atomic!Announce(r, "WagerTransactionProcessed")
  BY <1>5, <1>8 DEF StatusEvent
<1>9. CASE /\ r.kind \in {"REFUND", "ROLLBACK"} /\ Atomic!Record(r, "PENDING_REFERENCE")
           /\ Atomic!Announce(r, "WagerTransactionPendingReference")
  BY <1>5, <1>9 DEF StatusEvent
<1>10. QED
  BY <1>6, <1>7, <1>8, <1>9 DEF Atomic!Decide

LEMMA SettleChanges ==
  ASSUME IInv, Once, Housed, NEW t \in TxIds, Atomic!Settle(t)
  PROVE  Changes
<1> DEFINE r == txs[t].req
<1>1. txs[t] # NoRow /\ txs[t].status = "PENDING_REFERENCE" /\ t \in Stored /\ TypeOK
  BY DEF Atomic!Settle, Stored, IInv
<1>2. r \in Requests /\ r.wallet \in WalletIds
  BY <1>1, RequestTyped DEF TypeOK, Rows
<1>3. r.kind \in {"REFUND", "ROLLBACK"} /\ TxId(r) = t /\ wallets[r.wallet] # NoWallet
  BY <1>1 DEF IInv, PendingIsRefund, Once, RowsAreKeyed, Housed
<1>4. \A status : Atomic!Record(r, status) => Recorded(r, status)
  BY <1>1, <1>2, <1>3, AtomicData DEF Recorded, Atomic!Record
<1>5. CASE Atomic!Settled(r.ref, {"PROCESSED"}) /\ Atomic!MoveAndRecord(r)
  <2>1. Recorded(r, "PROCESSED")
    BY <1>4, <1>5 DEF Atomic!MoveAndRecord
  <2>2. \E after : Shifted(r, after)
    BY <1>1, <1>2, <1>3, <1>5, <2>1, MoveShifts, AtomicSettled
  <2>3. QED
    BY <2>2 DEF Changes
<1>6. CASE Atomic!Record(r, "REJECTED") /\ UNCHANGED <<wallets, ledger, outbox>>
  <2>1. Noted(r, "REJECTED")
    BY <1>1, <1>3, <1>4, <1>6 DEF Noted
  <2>2. QED
    BY <2>1 DEF Changes
<1>7. QED
  BY <1>5, <1>6 DEF Atomic!Settle

LEMMA StepChanges ==
  ASSUME IInv, Once, Housed, [Atomic!Next]_(Atomic!atoms)
  PROVE  Changes
<1>1. CASE UNCHANGED Atomic!atoms
  BY <1>1 DEF Atomic!atoms, Changes
<1>2. CASE \E o \in Openings : Atomic!Open(o)
  BY <1>2, OpenChanges
<1>3. CASE \E r \in HttpRequests : Atomic!Decide(r, {})
  BY <1>3, DecideChanges, LedgerAssumption
<1>4. CASE \E m \in Msgs : Atomic!Decide(Body[m], {m})
  BY <1>4, DecideChanges, LedgerAssumption
<1>5. CASE \E m \in Msgs : Atomic!Consume(m)
  BY <1>5 DEF Atomic!Consume, Changes
<1>6. CASE \E t \in TxIds : Atomic!Settle(t)
  BY <1>6, SettleChanges
<1>7. QED
  BY <1>1, <1>2, <1>3, <1>4, <1>5, <1>6 DEF Atomic!Next

-----------------------------------------------------------------------------
(* Each change keeps what the tables say of each other *)

LEMMA RecordedRows ==
  ASSUME TypeOK, NEW r, NEW status \in Statuses, Recorded(r, status)
  PROVE  /\ [req |-> r, status |-> status] # NoRow
         /\ \A t \in TxIds : txs'[t] = IF t = TxId(r) THEN [req |-> r, status |-> status]
                                       ELSE txs[t]
         /\ Stored' = Stored \cup {TxId(r)}
<1>1. [req |-> r, status |-> status] \in Rows
  BY DEF Recorded, Rows
<1>2. \A t \in TxIds : txs'[t] = IF t = TxId(r) THEN [req |-> r, status |-> status] ELSE txs[t]
  BY DEF Recorded, TypeOK
<1>3. [req |-> r, status |-> status] # NoRow
  BY <1>1, LedgerAssumption
<1>4. TxId(r) \in TxIds
  BY DEF Recorded
<1>5. Stored' = Stored \cup {TxId(r)}
  BY <1>2, <1>3, <1>4 DEF Stored
<1>6. QED
  BY <1>2, <1>3, <1>5

LEMMA ShiftedWallet ==
  ASSUME TypeOK, NEW r, NEW after, Shifted(r, after)
  PROVE  \A w \in WalletIds : wallets'[w] = IF w = r.wallet THEN after ELSE wallets[w]
BY DEF Shifted, TypeOK

LEMMA OpenedWallet ==
  ASSUME TypeOK, NEW w, NEW opened, OpenedEmpty(w, opened)
  PROVE  \A v \in WalletIds : wallets'[v] = IF v = w THEN opened ELSE wallets[v]
BY DEF OpenedEmpty, TypeOK

LEMMA ShiftedLedger ==
  ASSUME TypeOK, NEW r, NEW after, Shifted(r, after)
  PROVE  LET before == ledger[r.wallet]
             entry  == Entry(r, wallets[r.wallet], after)
         IN  /\ \A w \in WalletIds : w # r.wallet => ledger'[w] = ledger[w]
             /\ DOMAIN ledger'[r.wallet] = 1 .. Len(before) + 1
             /\ Len(ledger'[r.wallet]) = Len(before) + 1 /\ Len(before) \in Nat
             /\ DOMAIN before = 1 .. Len(before)
             /\ \A i \in 1 .. Len(before) : ledger'[r.wallet][i] = before[i]
             /\ ledger'[r.wallet][Len(before) + 1] = entry
<1> DEFINE before == ledger[r.wallet]
           entry  == Entry(r, wallets[r.wallet], after)
<1>1. r.wallet \in WalletIds /\ before \in Seq(Entries)
  BY DEF Shifted, Recorded, TypeOK
<1>2. /\ ledger'[r.wallet] = Append(before, entry)
      /\ \A w \in WalletIds : w # r.wallet => ledger'[w] = ledger[w]
  BY <1>1 DEF Shifted, TypeOK
<1> HIDE DEF entry, before
<1>3. /\ Len(Append(before, entry)) = Len(before) + 1 /\ Len(before) \in Nat
      /\ DOMAIN Append(before, entry) = 1 .. Len(before) + 1
      /\ DOMAIN before = 1 .. Len(before)
      /\ \A i \in 1 .. Len(before) : Append(before, entry)[i] = before[i]
      /\ Append(before, entry)[Len(before) + 1] = entry
  BY <1>1
<1>4. QED
  BY <1>2, <1>3 DEF entry, before

LEMMA HousedKept ==
  ASSUME TypeOK, Housed, Changes
  PROVE  Housed'
<1>0. \A t \in Stored : txs[t].req.wallet \in WalletIds
  BY RequestTyped DEF Stored, TypeOK, Rows
<1>1. CASE UNCHANGED <<wallets, txs, ledger, outbox>>
  BY <1>1 DEF Housed, Stored
<1>2. ASSUME NEW w, NEW opened, OpenedEmpty(w, opened)
      PROVE  Housed'
  BY <1>0, <1>2, OpenedWallet DEF Housed, Stored, OpenedEmpty
<1>3. ASSUME NEW r, NEW after, Shifted(r, after)
      PROVE  Housed'
  <2>1. Recorded(r, "PROCESSED") /\ after # NoWallet /\ r.wallet \in WalletIds
        /\ TxId(r) \in TxIds
    BY <1>3 DEF Shifted, Recorded
  <2>2. /\ \A t \in TxIds : txs'[t] = IF t = TxId(r) THEN [req |-> r, status |-> "PROCESSED"]
                                      ELSE txs[t]
        /\ Stored' = Stored \cup {TxId(r)}
    BY <2>1, RecordedRows DEF Statuses
  <2>3. QED
    BY <1>0, <1>3, <2>1, <2>2, ShiftedWallet DEF Housed, Stored
<1>4. ASSUME NEW r, NEW status, Noted(r, status)
      PROVE  Housed'
  <2>1. Recorded(r, status) /\ status \in Statuses /\ wallets[r.wallet] # NoWallet
        /\ TxId(r) \in TxIds
    BY <1>4 DEF Noted, Recorded, Statuses
  <2>2. /\ \A t \in TxIds : txs'[t] = IF t = TxId(r) THEN [req |-> r, status |-> status]
                                      ELSE txs[t]
        /\ Stored' = Stored \cup {TxId(r)}
    BY <2>1, RecordedRows
  <2>3. wallets' = wallets
    BY <1>4 DEF Noted
  <2>4. QED
    BY <2>1, <2>2, <2>3 DEF Housed, Stored
<1>5. QED
  BY <1>1, <1>2, <1>3, <1>4 DEF Changes

LEMMA UnmovedKept ==
  ASSUME TypeOK, Unmoved, Changes
  PROVE  Unmoved'
<1>1. CASE UNCHANGED <<wallets, ledger>>
  BY <1>1 DEF Unmoved
<1>2. ASSUME NEW w, NEW opened, OpenedEmpty(w, opened)
      PROVE  Unmoved'
  BY <1>2, OpenedWallet DEF Unmoved, OpenedEmpty
<1>3. ASSUME NEW r, NEW after, Shifted(r, after)
      PROVE  Unmoved'
  <2>1. after # NoWallet
    BY <1>3 DEF Shifted
  <2>2. QED
    BY <1>3, <2>1, ShiftedWallet, ShiftedLedger DEF Unmoved
<1>4. QED
  BY <1>1, <1>2, <1>3 DEF Changes, Noted

\* The wallet was opened with money in it.
Funded(w) == \E t \in Stored : txs[t].req.kind = "OPENING" /\ txs[t].req.wallet = w
VersionCounts(w) == wallets[w] # NoWallet =>
                      wallets[w].version = Len(ledger[w]) + IF Funded(w) THEN 0 ELSE 1

LEMMA VersionsKept ==
  ASSUME TypeOK, Housed, Unmoved, VersionCountsMovements, Changes
  PROVE  VersionCountsMovements'
<1>0. \A w \in WalletIds : VersionCounts(w)
  BY DEF VersionCountsMovements, VersionCounts, Funded
<1> SUFFICES ASSUME NEW w \in WalletIds
             PROVE  VersionCounts(w)'
  BY DEF VersionCountsMovements, VersionCounts, Funded
<1>1. CASE UNCHANGED <<wallets, txs, ledger, outbox>>
  BY <1>0, <1>1 DEF VersionCounts, Funded, Stored
<1>2. ASSUME NEW v, NEW opened, OpenedEmpty(v, opened)
      PROVE  VersionCounts(w)'
  <2>1. Funded(w)' <=> Funded(w)
    BY <1>2 DEF Funded, Stored, OpenedEmpty
  <2>2. CASE w = v
    <3>1. wallets[w] = NoWallet /\ ledger' = ledger /\ opened.version = 1
      BY <1>2, <2>2 DEF OpenedEmpty
    <3>2. Len(ledger'[w]) = 0
      <4>1. ledger'[w] = << >>
        BY <3>1 DEF Unmoved
      <4>2. QED
        BY <4>1
    <3>3. ~Funded(w)
      BY <3>1 DEF Housed, Funded
    <3>4. wallets'[w].version = 1
      BY <1>2, <2>2, <3>1, OpenedWallet
    <3>5. QED
      BY <2>1, <3>2, <3>3, <3>4 DEF VersionCounts
  <2>3. CASE w # v
    <3>1. wallets'[w] = wallets[w] /\ ledger'[w] = ledger[w]
      BY <1>2, <2>3, OpenedWallet DEF OpenedEmpty
    <3>2. QED
      BY <1>0, <2>1, <3>1 DEF VersionCounts
  <2>4. QED
    BY <2>2, <2>3
<1>3. ASSUME NEW r, NEW status \in Statuses, Recorded(r, status),
             r.kind # "OPENING" \/ w # r.wallet
      PROVE  Funded(w)' <=> Funded(w)
  <2>1. /\ \A t \in TxIds : txs'[t] = IF t = TxId(r) THEN [req |-> r, status |-> status]
                                      ELSE txs[t]
        /\ Stored' = Stored \cup {TxId(r)}
    BY <1>3, RecordedRows
  <2>2. TxId(r) \in Stored => /\ txs[TxId(r)].req = r
                              /\ txs[TxId(r)].req.kind # "OPENING"
    BY <1>3 DEF Recorded, Stored
  <2>3. QED
    BY <1>3, <2>1, <2>2 DEF Funded, Stored
<1>4. ASSUME NEW r, NEW after, Shifted(r, after)
      PROVE  VersionCounts(w)'
  <2>1. Recorded(r, "PROCESSED") /\ "PROCESSED" \in Statuses /\ r.wallet \in WalletIds
        /\ TxId(r) \in TxIds
    BY <1>4 DEF Shifted, Recorded, Statuses
  <2>2. wallets'[w] = IF w = r.wallet THEN after ELSE wallets[w]
    BY <1>4, ShiftedWallet
  <2>3. CASE w # r.wallet
    BY <1>0, <1>3, <1>4, <2>1, <2>2, <2>3, ShiftedLedger DEF VersionCounts
  <2>4. CASE w = r.wallet /\ r.kind # "OPENING"
    <3>1. Funded(w)' <=> Funded(w)
      BY <1>3, <2>1, <2>4
    <3>2. /\ wallets[w] # NoWallet /\ after.version = wallets[w].version + 1
          /\ Len(ledger'[w]) = Len(ledger[w]) + 1 /\ Len(ledger[w]) \in Nat
      BY <1>4, <2>4, ShiftedLedger DEF Shifted
    <3>3. wallets'[w].version = wallets[w].version + 1
      BY <2>2, <2>4, <3>2
    <3>4. wallets[w].version = Len(ledger[w]) + IF Funded(w) THEN 0 ELSE 1
      BY <1>0, <3>2 DEF VersionCounts
    <3>5. wallets'[w].version = Len(ledger'[w]) + IF Funded(w)' THEN 0 ELSE 1
      <4>1. CASE Funded(w)
        <5>1. Funded(w)'
          BY <3>1, <4>1
        <5>2. QED
          BY <3>2, <3>3, <3>4, <4>1, <5>1
      <4>2. CASE ~Funded(w)
        <5>1. ~Funded(w)'
          BY <3>1, <4>2
        <5>2. QED
          BY <3>2, <3>3, <3>4, <4>2, <5>1
      <4>3. QED
        BY <4>1, <4>2
    <3>6. QED
      BY <3>5 DEF VersionCounts
  <2>5. CASE w = r.wallet /\ r.kind = "OPENING"
    <3>1. wallets[w] = NoWallet /\ after.version = 1
      BY <1>4, <2>5 DEF Shifted
    <3>2. Len(ledger[w]) = 0
      <4>1. ledger[w] = << >>
        BY <3>1 DEF Unmoved
      <4>2. QED
        BY <4>1
    <3>3. Len(ledger'[w]) = 1
      <4>1. Len(ledger'[w]) = Len(ledger[w]) + 1
        BY <1>4, <2>5, ShiftedLedger
      <4>2. QED
        BY <3>2, <4>1
    <3>4. Funded(w)'
      <4>1. txs'[TxId(r)] = [req |-> r, status |-> "PROCESSED"] /\ TxId(r) \in Stored'
        BY <2>1, RecordedRows
      <4>2. QED
        BY <2>5, <4>1 DEF Funded
    <3>5. QED
      BY <2>2, <2>5, <3>1, <3>3, <3>4 DEF VersionCounts
  <2>6. QED
    BY <2>3, <2>4, <2>5
<1>5. ASSUME NEW r, NEW status, Noted(r, status)
      PROVE  VersionCounts(w)'
  <2>1. Recorded(r, status) /\ status \in Statuses /\ r.kind # "OPENING"
    BY <1>5 DEF Noted, Statuses
  <2>2. UNCHANGED <<wallets, ledger>>
    BY <1>5 DEF Noted
  <2>3. QED
    BY <1>0, <1>3, <2>1, <2>2 DEF VersionCounts
<1>6. QED
  BY <1>1, <1>2, <1>4, <1>5 DEF Changes

-----------------------------------------------------------------------------
(* Events *)

\* EventsMatchState read event by event and row by row.
IsWager(t, status) == t \in Stored /\ txs[t].req.kind # "OPENING" /\ txs[t].status = status
Announced(type, t) == \E e \in outbox : e.type = type /\ e.tx = t

\* Event e tells of entry i of wallet w's ledger.
Tells(e, w, i) == /\ e.type = "WalletBalanceChanged" /\ e.tx = ledger[w][i].tx
                  /\ e.version = wallets[w].version - (Len(ledger[w]) - i)

BalancesAreTold ==
  /\ \A e \in outbox : e.type = "WalletBalanceChanged" =>
       \E w \in WalletIds : \E i \in DOMAIN ledger[w] : Tells(e, w, i)
  /\ \A w \in WalletIds : \A i \in DOMAIN ledger[w] : \E e \in outbox : Tells(e, w, i)

OutcomesAreTold ==
  /\ \A e \in outbox : /\ e.type = "WagerTransactionProcessed" => IsWager(e.tx, "PROCESSED")
                       /\ e.type = "WagerTransactionRejected" => IsWager(e.tx, "REJECTED")
  /\ \A t \in TxIds :
       /\ IsWager(t, "PROCESSED") => Announced("WagerTransactionProcessed", t)
       /\ IsWager(t, "PENDING_REFERENCE") => Announced("WagerTransactionPendingReference", t)
       /\ IsWager(t, "REJECTED") /\ txs[t].req.kind = "BET" =>
            Announced("WagerTransactionRejected", t)

LEMMA EventsOneByOne == EventsMatchState <=> BalancesAreTold /\ OutcomesAreTold
<1> DEFINE balances == {<<e.tx, e.version>> : e \in {x \in outbox : x.type = "WalletBalanceChanged"}}
           told(w) == {<<ledger[w][i].tx, wallets[w].version - (Len(ledger[w]) - i)>> :
                         i \in DOMAIN ledger[w]}
           entries == UNION {told(w) : w \in WalletIds}
           named(type) == {e.tx : e \in {x \in outbox : x.type = type}}
           wagers == {t \in Stored : txs[t].req.kind # "OPENING"}
           with(status) == {t \in wagers : txs[t].status = status}
<1>1. /\ \A b : b \in balances <=> \E e \in outbox : /\ e.type = "WalletBalanceChanged"
                                                     /\ b = <<e.tx, e.version>>
      /\ \A b : b \in entries <=> \E w \in WalletIds : \E i \in DOMAIN ledger[w] :
           b = <<ledger[w][i].tx, wallets[w].version - (Len(ledger[w]) - i)>>
  OBVIOUS
<1>2. balances = entries <=> BalancesAreTold
  <2>1. ASSUME balances = entries
        PROVE  BalancesAreTold
    <3>1. ASSUME NEW e \in outbox, e.type = "WalletBalanceChanged"
          PROVE  \E w \in WalletIds : \E i \in DOMAIN ledger[w] : Tells(e, w, i)
      <4>1. <<e.tx, e.version>> \in entries
        BY <1>1, <2>1, <3>1
      <4>2. QED
        BY <1>1, <3>1, <4>1 DEF Tells
    <3>2. ASSUME NEW w \in WalletIds, NEW i \in DOMAIN ledger[w]
          PROVE  \E e \in outbox : Tells(e, w, i)
      <4>1. <<ledger[w][i].tx, wallets[w].version - (Len(ledger[w]) - i)>> \in balances
        BY <1>1, <2>1
      <4>2. QED
        BY <1>1, <4>1 DEF Tells
    <3>3. QED
      BY <3>1, <3>2 DEF BalancesAreTold
  <2>2. ASSUME BalancesAreTold
        PROVE  balances = entries
    <3>1. ASSUME NEW b \in balances
          PROVE  b \in entries
      <4>1. PICK e \in outbox : e.type = "WalletBalanceChanged" /\ b = <<e.tx, e.version>>
        BY <1>1
      <4>2. PICK w \in WalletIds : \E i \in DOMAIN ledger[w] : Tells(e, w, i)
        BY <2>2, <4>1 DEF BalancesAreTold
      <4>3. QED
        BY <1>1, <4>1, <4>2 DEF Tells
    <3>2. ASSUME NEW b \in entries
          PROVE  b \in balances
      <4>1. PICK w \in WalletIds : \E i \in DOMAIN ledger[w] :
               b = <<ledger[w][i].tx, wallets[w].version - (Len(ledger[w]) - i)>>
        BY <1>1
      <4>2. PICK i \in DOMAIN ledger[w] :
               b = <<ledger[w][i].tx, wallets[w].version - (Len(ledger[w]) - i)>>
        BY <4>1
      <4>3. PICK e \in outbox : Tells(e, w, i)
        BY <2>2 DEF BalancesAreTold
      <4>4. QED
        BY <1>1, <4>2, <4>3 DEF Tells
    <3>3. QED
      BY <3>1, <3>2
  <2>3. QED
    BY <2>1, <2>2
<1>3. /\ \A t, status : t \in with(status) <=> IsWager(t, status)
      /\ \A t, type : t \in named(type) <=> Announced(type, t)
  BY DEF IsWager, Announced
<1>4. /\ \A t, status : IsWager(t, status) => t \in TxIds
      /\ \A type, t : Announced(type, t) <=> \E e \in outbox : e.type = type /\ e.tx = t
  BY DEF IsWager, Stored, Announced
<1>5. /\ named("WagerTransactionProcessed") = with("PROCESSED")
      /\ with("PENDING_REFERENCE") \subseteq named("WagerTransactionPendingReference")
      /\ named("WagerTransactionRejected") \subseteq with("REJECTED")
      /\ \A t \in with("REJECTED") : txs[t].req.kind = "BET" => t \in named("WagerTransactionRejected")
      <=> OutcomesAreTold
  <2> HIDE DEF named, with
  <2>1. \A type, status :
          /\ named(type) \subseteq with(status) <=>
               \A e \in outbox : e.type = type => IsWager(e.tx, status)
          /\ with(status) \subseteq named(type) <=>
               \A t \in TxIds : IsWager(t, status) => Announced(type, t)
    BY <1>3, <1>4
  <2>2. (\A t \in with("REJECTED") : txs[t].req.kind = "BET" => t \in named("WagerTransactionRejected"))
        <=> \A t \in TxIds : IsWager(t, "REJECTED") /\ txs[t].req.kind = "BET" =>
              Announced("WagerTransactionRejected", t)
    BY <1>3, <1>4
  <2>3. named("WagerTransactionProcessed") = with("PROCESSED") <=>
          /\ named("WagerTransactionProcessed") \subseteq with("PROCESSED")
          /\ with("PROCESSED") \subseteq named("WagerTransactionProcessed")
    OBVIOUS
  <2>4. OutcomesAreTold <=>
          /\ \A e \in outbox : e.type = "WagerTransactionProcessed" => IsWager(e.tx, "PROCESSED")
          /\ \A e \in outbox : e.type = "WagerTransactionRejected" => IsWager(e.tx, "REJECTED")
          /\ \A t \in TxIds : IsWager(t, "PROCESSED") => Announced("WagerTransactionProcessed", t)
          /\ \A t \in TxIds : IsWager(t, "PENDING_REFERENCE") =>
                                Announced("WagerTransactionPendingReference", t)
          /\ \A t \in TxIds : IsWager(t, "REJECTED") /\ txs[t].req.kind = "BET" =>
                                Announced("WagerTransactionRejected", t)
    BY DEF OutcomesAreTold
  <2>5. QED
    BY <2>1, <2>2, <2>3, <2>4
<1>6. EventsMatchState <=>
        /\ balances = entries
        /\ named("WagerTransactionProcessed") = with("PROCESSED")
        /\ with("PENDING_REFERENCE") \subseteq named("WagerTransactionPendingReference")
        /\ named("WagerTransactionRejected") \subseteq with("REJECTED")
        /\ \A t \in with("REJECTED") : txs[t].req.kind = "BET" => t \in named("WagerTransactionRejected")
  BY DEF EventsMatchState
<1> HIDE DEF balances, entries, named, with
<1>7. QED
  BY <1>2, <1>5, <1>6

\* An event that is of no balance, and a wallet that is opened empty, change nothing here.
LEMMA StillBalances ==
  ASSUME BalancesAreTold, outbox \subseteq outbox',
         \A e \in outbox' \ outbox : e.type # "WalletBalanceChanged",
         ledger' = ledger,
         \A w \in WalletIds : wallets'[w] = wallets[w] \/ ledger[w] = << >>
  PROVE  BalancesAreTold'
<1>1. \A w \in WalletIds : \A i \in DOMAIN ledger[w] : wallets'[w] = wallets[w]
  BY DOMAIN << >> = {}
<1>2. \A e : \A w \in WalletIds : \A i \in DOMAIN ledger[w] : Tells(e, w, i)' <=> Tells(e, w, i)
  BY <1>1 DEF Tells
<1>3. \A e \in outbox' : e.type = "WalletBalanceChanged" =>
        \E w \in WalletIds : \E i \in DOMAIN ledger'[w] : Tells(e, w, i)'
  BY <1>2 DEF BalancesAreTold
<1>4. \A w \in WalletIds : \A i \in DOMAIN ledger'[w] : \E e \in outbox' : Tells(e, w, i)'
  BY <1>2 DEF BalancesAreTold
<1>5. QED
  BY <1>3, <1>4 DEF BalancesAreTold, Tells

\* A movement adds one entry, one version and the event of both.
LEMMA ShiftedBalances ==
  ASSUME TypeOK, Unmoved, BalancesAreTold, NEW r, NEW after, Shifted(r, after)
  PROVE  BalancesAreTold'
<1> DEFINE v == r.wallet
           told == Event("WalletBalanceChanged", r, after.version)
<1>0. PICK n : n = Len(ledger[v])
  OBVIOUS
<1>1. /\ \A w \in WalletIds : w # v => ledger'[w] = ledger[w] /\ wallets'[w] = wallets[w]
      /\ n \in Nat /\ Len(ledger'[v]) = n + 1 /\ DOMAIN ledger[v] = 1 .. n
      /\ DOMAIN ledger'[v] = 1 .. n + 1 /\ wallets'[v] = after /\ v \in WalletIds
      /\ \A i \in 1 .. n : ledger'[v][i] = ledger[v][i]
      /\ ledger'[v][n + 1] = Entry(r, wallets[v], after)
  <2>1. v \in WalletIds
    BY DEF Shifted, Recorded
  <2>2. \A w \in WalletIds : wallets'[w] = IF w = v THEN after ELSE wallets[w]
    BY ShiftedWallet
  <2>3. /\ \A w \in WalletIds : w # v => ledger'[w] = ledger[w]
        /\ DOMAIN ledger'[v] = 1 .. n + 1
        /\ Len(ledger'[v]) = n + 1 /\ n \in Nat
        /\ DOMAIN ledger[v] = 1 .. n
        /\ \A i \in 1 .. n : ledger'[v][i] = ledger[v][i]
        /\ ledger'[v][n + 1] = Entry(r, wallets[v], after)
    BY <1>0, ShiftedLedger
  <2>4. QED
    BY <2>1, <2>2, <2>3
<1>2. PICK event :
        /\ outbox' = outbox \cup {event, told}
        /\ event.type # "WalletBalanceChanged"
  <2>1. \A type, x : Event(type, r, x).type = type
    BY DEF Event
  <2>2. QED
    BY <2>1 DEF Shifted
<1>3. told.type = "WalletBalanceChanged" /\ told.tx = TxId(r) /\ told.version = after.version
      /\ ledger'[v][n + 1].tx = TxId(r)
  BY <1>1 DEF Event, Entry
<1>4. after.version \in Nat /\ (n > 0 => after.version = wallets[v].version + 1
                                       /\ wallets[v].version \in Nat)
  <2>1. wallets[v] # NoWallet => wallets[v].version \in Nat \ {0}
    BY <1>1 DEF TypeOK, Wallets
  <2>2. wallets[v] = NoWallet => n = 0
    <3>1. wallets[v] = NoWallet => ledger[v] = << >>
      BY <1>1 DEF Unmoved
    <3>2. QED
      BY <1>0, <3>1
  <2>3. after.version = IF wallets[v] = NoWallet THEN 1 ELSE wallets[v].version + 1
    BY DEF Shifted
  <2>4. QED
    BY <1>1, <2>1, <2>2, <2>3
<1> HIDE DEF told
<1>5. Tells(told, v, n + 1)'
  <2>1. after.version = wallets'[v].version - (Len(ledger'[v]) - (n + 1))
    BY <1>1, <1>4
  <2>2. QED
    BY <1>3, <2>1 DEF Tells
<1>6. ASSUME NEW e, NEW w \in WalletIds, NEW i \in DOMAIN ledger[w]
      PROVE  Tells(e, w, i)' <=> Tells(e, w, i)
  <2>1. CASE w # v
    BY <1>1, <2>1 DEF Tells
  <2>2. CASE w = v
    <3>1. i \in 1 .. n /\ n > 0
      BY <1>1, <2>2
    <3>2. wallets'[v].version - (Len(ledger'[v]) - i) = wallets[v].version - (n - i)
      BY <1>1, <1>4, <3>1
    <3>3. ledger'[v][i] = ledger[v][i]
      BY <1>1, <3>1
    <3>4. QED
      BY <1>0, <2>2, <3>2, <3>3 DEF Tells
  <2>3. QED
    BY <2>1, <2>2
<1>7. /\ \A w \in WalletIds : \A i \in DOMAIN ledger[w] : i \in DOMAIN ledger'[w]
      /\ \A w \in WalletIds : \A i \in DOMAIN ledger'[w] :
           i \in DOMAIN ledger[w] \/ (w = v /\ i = n + 1)
      /\ n + 1 \in DOMAIN ledger'[v]
  BY <1>1
<1>8. ASSUME NEW e \in outbox', e.type = "WalletBalanceChanged"
      PROVE  \E w \in WalletIds : \E i \in DOMAIN ledger'[w] : Tells(e, w, i)'
  <2>1. CASE e = told
    BY <1>1, <1>5, <1>7, <2>1
  <2>2. CASE e \in outbox
    <3>1. PICK w \in WalletIds : \E i \in DOMAIN ledger[w] : Tells(e, w, i)
      BY <1>8, <2>2 DEF BalancesAreTold
    <3>2. QED
      BY <1>6, <1>7, <3>1
  <2>3. QED
    BY <1>2, <1>8, <2>1, <2>2
<1>9. ASSUME NEW w \in WalletIds, NEW i \in DOMAIN ledger'[w]
      PROVE  \E e \in outbox' : Tells(e, w, i)'
  <2>1. CASE w = v /\ i = n + 1
    BY <1>2, <1>5, <2>1
  <2>2. CASE i \in DOMAIN ledger[w]
    <3>1. PICK e \in outbox : Tells(e, w, i)
      BY <2>2 DEF BalancesAreTold
    <3>2. QED
      BY <1>2, <1>6, <2>2, <3>1
  <2>3. QED
    BY <1>7, <2>1, <2>2
<1>10. QED
  BY <1>8, <1>9 DEF BalancesAreTold, Tells

LEMMA BalancesKept ==
  ASSUME TypeOK, Unmoved, BalancesAreTold, Changes
  PROVE  BalancesAreTold'
<1>1. CASE UNCHANGED <<wallets, txs, ledger, outbox>>
  BY <1>1, StillBalances
<1>2. ASSUME NEW w, NEW opened, OpenedEmpty(w, opened)
      PROVE  BalancesAreTold'
  <2>1. ledger[w] = << >> /\ ledger' = ledger /\ outbox' = outbox
    BY <1>2 DEF OpenedEmpty, Unmoved
  <2>2. \A v \in WalletIds : wallets'[v] = wallets[v] \/ v = w
    BY <1>2, OpenedWallet
  <2>3. QED
    BY <2>1, <2>2, StillBalances
<1>3. ASSUME NEW r, NEW status, Noted(r, status)
      PROVE  BalancesAreTold'
  <2>1. /\ ledger' = ledger /\ wallets' = wallets
        /\ \/ outbox' = outbox
           \/ /\ outbox' = outbox \cup {Event(StatusEvent[status], r, 0)}
              /\ status \in {"PROCESSED", "REJECTED", "PENDING_REFERENCE"}
    BY <1>3 DEF Noted
  <2>2. status \in {"PROCESSED", "REJECTED", "PENDING_REFERENCE"} =>
          Event(StatusEvent[status], r, 0).type # "WalletBalanceChanged"
    BY DEF Event, StatusEvent
  <2>3. QED
    BY <2>1, <2>2, StillBalances
<1>4. QED
  BY <1>1, <1>2, <1>3, ShiftedBalances DEF Changes

\* A row that is written now had no outcome before, so no outcome was told of it.
LEMMA OutcomesKept ==
  ASSUME TypeOK, OutcomesAreTold, NEW r, NEW status \in Statuses, Recorded(r, status),
         outbox \subseteq outbox',
         \A e \in outbox' \ outbox :
           /\ e.type = "WagerTransactionProcessed" =>
                e.tx = TxId(r) /\ r.kind # "OPENING" /\ status = "PROCESSED"
           /\ e.type = "WagerTransactionRejected" =>
                e.tx = TxId(r) /\ r.kind # "OPENING" /\ status = "REJECTED",
         /\ r.kind # "OPENING" /\ status = "PROCESSED" =>
              \E e \in outbox' : e.type = "WagerTransactionProcessed" /\ e.tx = TxId(r)
         /\ r.kind # "OPENING" /\ status = "PENDING_REFERENCE" =>
              \E e \in outbox' : e.type = "WagerTransactionPendingReference" /\ e.tx = TxId(r)
         /\ r.kind = "BET" /\ status = "REJECTED" =>
              \E e \in outbox' : e.type = "WagerTransactionRejected" /\ e.tx = TxId(r)
  PROVE  OutcomesAreTold'
<1> DEFINE x == TxId(r)
<1>1. /\ \A t \in TxIds : txs'[t] = IF t = x THEN [req |-> r, status |-> status] ELSE txs[t]
      /\ Stored' = Stored \cup {x} /\ x \in TxIds
  BY RecordedRows DEF Recorded
<1>2. /\ \A st : IsWager(x, st)' <=> r.kind # "OPENING" /\ st = status
      /\ \A t \in TxIds : \A st : t # x => (IsWager(t, st)' <=> IsWager(t, st))
      /\ \A t \in TxIds : t # x => txs'[t] = txs[t]
      /\ txs'[x].req = r
  BY <1>1 DEF IsWager
<1>3. ~IsWager(x, "PROCESSED") /\ ~IsWager(x, "REJECTED")
  BY DEF Recorded, IsWager, Stored
<1>4. \A e \in outbox : /\ e.type = "WagerTransactionProcessed" => IsWager(e.tx, "PROCESSED")
                        /\ e.type = "WagerTransactionRejected" => IsWager(e.tx, "REJECTED")
  BY DEF OutcomesAreTold
<1>5. \A t, st : IsWager(t, st) => t \in TxIds
  BY DEF IsWager, Stored
<1>6. \A e \in outbox' : /\ e.type = "WagerTransactionProcessed" => IsWager(e.tx, "PROCESSED")'
                         /\ e.type = "WagerTransactionRejected" => IsWager(e.tx, "REJECTED")'
  BY <1>2, <1>3, <1>4, <1>5
<1>7. \A type, t : Announced(type, t) => Announced(type, t)'
  BY DEF Announced
<1>8. \A t \in TxIds :
        /\ IsWager(t, "PROCESSED")' => Announced("WagerTransactionProcessed", t)'
        /\ IsWager(t, "PENDING_REFERENCE")' => Announced("WagerTransactionPendingReference", t)'
        /\ IsWager(t, "REJECTED")' /\ txs'[t].req.kind = "BET" =>
             Announced("WagerTransactionRejected", t)'
  <2>1. /\ IsWager(x, "PROCESSED")' => Announced("WagerTransactionProcessed", x)'
        /\ IsWager(x, "PENDING_REFERENCE")' => Announced("WagerTransactionPendingReference", x)'
        /\ IsWager(x, "REJECTED")' /\ txs'[x].req.kind = "BET" =>
             Announced("WagerTransactionRejected", x)'
    BY <1>2 DEF Announced
  <2>2. QED
    BY <1>2, <1>7, <2>1 DEF OutcomesAreTold
<1>9. QED
  BY <1>6, <1>8 DEF OutcomesAreTold, IsWager, Announced

LEMMA EventsKept ==
  ASSUME TypeOK, Unmoved, EventsMatchState, Changes
  PROVE  EventsMatchState'
<1>1. BalancesAreTold /\ OutcomesAreTold
  BY EventsOneByOne
<1>2. BalancesAreTold'
  BY <1>1, BalancesKept
<1>3. ASSUME UNCHANGED <<txs, outbox>>
      PROVE  OutcomesAreTold'
  <2>1. /\ \A t, status : IsWager(t, status)' <=> IsWager(t, status)
        /\ \A type, t : Announced(type, t)' <=> Announced(type, t)
    BY <1>3 DEF IsWager, Announced, Stored
  <2>2. QED
    BY <1>1, <1>3, <2>1 DEF OutcomesAreTold
<1>4. ASSUME NEW r, NEW after, Shifted(r, after)
      PROVE  OutcomesAreTold'
  <2>1. PICK event :
          /\ outbox' = outbox \cup {event, Event("WalletBalanceChanged", r, after.version)}
          /\ \/ r.kind = "OPENING" /\ event = Event("WALLET_OPENED", r, after.version)
             \/ r.kind # "OPENING" /\ event = Event("WagerTransactionProcessed", r, 0)
    BY <1>4 DEF Shifted
  <2>2. \A type, x : Event(type, r, x).type = type /\ Event(type, r, x).tx = TxId(r)
    BY DEF Event
  <2>3. Recorded(r, "PROCESSED") /\ "PROCESSED" \in Statuses
    BY <1>4 DEF Shifted, Statuses
  <2>4. \A e \in outbox' \ outbox :
          /\ e.type = "WagerTransactionProcessed" => e.tx = TxId(r) /\ r.kind # "OPENING"
          /\ e.type # "WagerTransactionRejected"
    BY <2>1, <2>2
  <2>5. r.kind # "OPENING" =>
          \E e \in outbox' : e.type = "WagerTransactionProcessed" /\ e.tx = TxId(r)
    BY <2>1, <2>2
  <2>6. outbox \subseteq outbox'
    BY <2>1
  <2>7. QED
    BY <1>1, <2>3, <2>4, <2>5, <2>6, OutcomesKept
<1>5. ASSUME NEW r, NEW status, Noted(r, status)
      PROVE  OutcomesAreTold'
  <2>1. Recorded(r, status) /\ status \in Statuses /\ r.kind # "OPENING"
    BY <1>5 DEF Noted, Statuses
  <2>2. CASE /\ txs[TxId(r)] = NoRow
             /\ outbox' = outbox \cup {Event(StatusEvent[status], r, 0)}
             /\ \/ r.kind = "BET" /\ status = "REJECTED"
                \/ r.kind = "LOSS" /\ status = "PROCESSED"
                \/ r.kind \in {"REFUND", "ROLLBACK"} /\ status = "PENDING_REFERENCE"
    <3>1. PICK event : event = Event(StatusEvent[status], r, 0)
      OBVIOUS
    <3>2. /\ event.tx = TxId(r) /\ outbox' = outbox \cup {event}
          /\ event.type = "WagerTransactionProcessed" <=> status = "PROCESSED"
          /\ event.type = "WagerTransactionRejected" <=> status = "REJECTED"
          /\ event.type = "WagerTransactionPendingReference" <=> status = "PENDING_REFERENCE"
      BY <2>2, <3>1 DEF Event, StatusEvent
    <3>3. QED
      BY <1>1, <2>1, <3>2, OutcomesKept
  <2>3. CASE txs[TxId(r)] # NoRow /\ status = "REJECTED" /\ UNCHANGED outbox
    <3>1. r.kind # "BET"
      BY <2>1, <2>3 DEF Recorded
    <3>2. QED
      BY <1>1, <2>1, <2>3, <3>1, OutcomesKept
  <2>4. QED
    BY <1>5, <2>2, <2>3 DEF Noted
<1>6. OutcomesAreTold'
  <2>1. (\E w, opened : OpenedEmpty(w, opened)) => UNCHANGED <<txs, outbox>>
    BY DEF OpenedEmpty
  <2>2. QED
    BY <1>3, <1>4, <1>5, <2>1 DEF Changes
<1>7. (BalancesAreTold /\ OutcomesAreTold => EventsMatchState)'
  BY EventsOneByOne, PTL
<1>8. QED
  BY <1>2, <1>6, <1>7

-----------------------------------------------------------------------------
(* Messages and references *)

\* A message is consumed by the wager it asks for, or by a replay that found it stored.
LEMMA ConsumedKept ==
  ASSUME IInv, Once, ConsumedIsStored, [Next]_vars, [Atomic!Next]_(Atomic!atoms)
  PROVE  ConsumedIsStored'
<1> DEFINE StoredFor(m) == \E t \in TxIds :
             txs[t] # NoRow /\ PayloadHash(txs[t].req) = PayloadHash(Body[m])
<1>1. \A t \in TxIds : txs[t] # NoRow => txs'[t] # NoRow /\ txs'[t].req = txs[t].req
  BY RowsStay
<1>2. ASSUME NEW m, StoredFor(m)
      PROVE  StoredFor(m)'
  BY <1>1, <1>2
<1>3. ASSUME NEW m \in inbox
      PROVE  StoredFor(m)
  BY DEF ConsumedIsStored, Stored
<1>4. \/ inbox' = inbox
      \/ \E m \in Msgs : inbox' = inbox \cup {m} /\ (StoredFor(m) \/ StoredFor(m)')
  <2>1. ASSUME NEW m \in Msgs, Atomic!Decide(Body[m], {m})
        PROVE  StoredFor(m)'
    <3>1. Body[m] \in Requests /\ TxId(Body[m]) \in TxIds
      BY LedgerAssumption, RequestTyped
    <3>2. PICK status \in Statuses : txs' = [txs EXCEPT ![TxId(Body[m])] = [req |-> Body[m], status |-> status]]
      BY <2>1, AtomicData DEF Atomic!Decide, Atomic!MoveAndRecord, Atomic!Record, Statuses
    <3>3. [req |-> Body[m], status |-> status] \in Rows
      BY <3>1 DEF Rows
    <3>4. txs'[TxId(Body[m])] = [req |-> Body[m], status |-> status]
      BY <3>1, <3>2 DEF IInv, TypeOK
    <3>5. QED
      BY <3>1, <3>3, <3>4, LedgerAssumption
  <2>2. ASSUME NEW m \in Msgs, Atomic!Consume(m)
        PROVE  StoredFor(m)
    BY <2>2, AtomicData DEF Atomic!Consume
  <2>3. ASSUME NEW r, Atomic!Decide(r, {})
        PROVE  inbox' = inbox
    BY <2>3 DEF Atomic!Decide
  <2>4. ASSUME NEW m, Atomic!Decide(Body[m], {m}) \/ Atomic!Consume(m)
        PROVE  inbox' = inbox \cup {m}
    BY <2>4 DEF Atomic!Decide, Atomic!Consume
  <2>5. ASSUME NEW x, Atomic!Open(x) \/ Atomic!Settle(x)
        PROVE  inbox' = inbox
    BY <2>5 DEF Atomic!Open, Atomic!Settle
  <2> HIDE DEF StoredFor
  <2>6. QED
    BY <2>1, <2>2, <2>3, <2>4, <2>5 DEF Atomic!Next, Atomic!atoms
<1>5. \A m \in inbox' : StoredFor(m)'
  BY <1>2, <1>3, <1>4
<1>6. QED
  BY <1>5 DEF ConsumedIsStored, Stored

\* A refund is paid on what it has found, and what it has found stays processed.
LEMMA PaidKept ==
  ASSUME IInv, Once, PaidRefundHasReference, [Next]_vars, Changes
  PROVE  PaidRefundHasReference'
<1> DEFINE Paid(t) == /\ t \in Stored /\ txs[t].req.kind \in {"REFUND", "ROLLBACK"}
                      /\ txs[t].status = "PROCESSED"
<1>1. \A t : Paid(t) => Settled(txs, txs[t].req.ref, {"PROCESSED"})
  BY DEF PaidRefundHasReference, Settled, Stored
<1>2. \A ext : Settled(txs, ext, {"PROCESSED"}) => Settled(txs', ext, {"PROCESSED"})
  BY RowsStay
<1>3. TypeOK
  BY DEF IInv
<1>4. ASSUME UNCHANGED txs, NEW t, Paid(t)'
      PROVE  Settled(txs', txs'[t].req.ref, {"PROCESSED"})
  BY <1>1, <1>2, <1>4 DEF Stored
<1>5. ASSUME NEW r, NEW status \in Statuses, Recorded(r, status),
             r.kind \in {"REFUND", "ROLLBACK"} /\ status = "PROCESSED" =>
               Settled(txs, r.ref, {"PROCESSED"}),
             NEW t, Paid(t)'
      PROVE  Settled(txs', txs'[t].req.ref, {"PROCESSED"})
  <2>1. /\ \A u \in TxIds : txs'[u] = IF u = TxId(r) THEN [req |-> r, status |-> status]
                                      ELSE txs[u]
        /\ Stored' = Stored \cup {TxId(r)} /\ TxId(r) \in TxIds
    BY <1>3, <1>5, RecordedRows DEF Recorded
  <2>2. CASE t = TxId(r)
    BY <1>2, <1>5, <2>1, <2>2
  <2>3. CASE t # TxId(r)
    <3>1. Paid(t) /\ txs'[t] = txs[t]
      BY <1>5, <2>1, <2>3 DEF Stored
    <3>2. QED
      BY <1>1, <1>2, <3>1
  <2>4. QED
    BY <2>2, <2>3
<1>6. ASSUME NEW t, Paid(t)'
      PROVE  Settled(txs', txs'[t].req.ref, {"PROCESSED"})
  <2>1. CASE UNCHANGED txs
    BY <1>4, <1>6, <2>1
  <2>2. ASSUME NEW r, NEW after, Shifted(r, after)
        PROVE  Settled(txs', txs'[t].req.ref, {"PROCESSED"})
    BY <1>5, <1>6, <2>2 DEF Shifted, Statuses
  <2>3. ASSUME NEW r, NEW status, Noted(r, status)
        PROVE  Settled(txs', txs'[t].req.ref, {"PROCESSED"})
    BY <1>5, <1>6, <2>3 DEF Noted, Recorded, Statuses
  <2>4. (\E w, opened : OpenedEmpty(w, opened)) => UNCHANGED txs
    BY DEF OpenedEmpty
  <2>5. QED
    BY <2>1, <2>2, <2>3, <2>4 DEF Changes
<1>7. \A t \in Stored' : txs'[t].req.kind \in {"REFUND", "ROLLBACK"} /\ txs'[t].status = "PROCESSED" =>
        \E u \in TxIds : txs'[u] # NoRow /\ txs'[u].req.ext = txs'[t].req.ref /\ txs'[u].status = "PROCESSED"
  BY <1>6 DEF Settled
<1>8. QED
  BY <1>7 DEF PaidRefundHasReference, Stored

-----------------------------------------------------------------------------
(* The theorems *)

LEMMA InitTables == Init => Tables
<1> SUFFICES ASSUME Init PROVE Tables
  OBVIOUS
<1>1. Stored = {} /\ inbox = {} /\ outbox = {}
  BY DEF Init, Stored
<1>2. \A w \in WalletIds : wallets[w] = NoWallet /\ ledger[w] = << >>
  BY DEF Init
<1>3. Housed /\ Unmoved /\ VersionCountsMovements /\ ConsumedIsStored /\ PaidRefundHasReference
  BY <1>1, <1>2 DEF Housed, Unmoved, VersionCountsMovements, ConsumedIsStored,
                    PaidRefundHasReference
<1>4. BalancesAreTold
  BY <1>1, <1>2, DOMAIN << >> = {} DEF BalancesAreTold
<1>5. OutcomesAreTold
  BY <1>1 DEF OutcomesAreTold, IsWager
<1>6. QED
  BY <1>3, <1>4, <1>5, EventsOneByOne DEF Tables

LEMMA StepTables == IInv /\ Once /\ Stories /\ Tables /\ [Next]_vars => Tables'
<1> SUFFICES ASSUME IInv, Once, Stories, Tables, [Next]_vars
             PROVE  Tables'
  OBVIOUS
<1>1. [Atomic!Next]_(Atomic!atoms) /\ TypeOK
  BY StepRefines DEF IInv
<1>2. Changes
  BY <1>1, StepChanges DEF Tables
<1>3. Housed' /\ Unmoved' /\ VersionCountsMovements'
  BY <1>1, <1>2, HousedKept, UnmovedKept, VersionsKept DEF Tables
<1>4. EventsMatchState'
  BY <1>1, <1>2, EventsKept DEF Tables
<1>5. ConsumedIsStored' /\ PaidRefundHasReference'
  BY <1>1, <1>2, ConsumedKept, PaidKept DEF Tables
<1>6. QED
  BY <1>3, <1>4, <1>5 DEF Tables

LEMMA TablesHold == Spec => []Tables
<1>1. Init /\ [][Next]_vars => [](IInv /\ Once /\ Stories)
  BY StoriesHold, PTL DEF Spec
<1>2. QED
  BY <1>1, InitTables, StepTables, PTL DEF Spec

\* The version of a wallet counts the debits and credits that committed, from the 0 or 1
\* NewWallet leaves: no call that was refused, repeated or rolled back bumps it.
THEOREM VersionsCount == Spec => []VersionCountsMovements
<1>1. Tables => VersionCountsMovements
  BY DEF Tables
<1>2. QED
  BY <1>1, TablesHold, PTL

\* saveOutboxEvent is called for every movement and every outcome that commits and for
\* nothing else, with the version the wallet had at that movement.
THEOREM EventsMatch == Spec => []EventsMatchState
<1>1. Tables => EventsMatchState
  BY DEF Tables
<1>2. QED
  BY <1>1, TablesHold, PTL

\* SaveInbox commits with the wager: a message the inbox holds is never a lost wager.
THEOREM ConsumedAreStored == Spec => []ConsumedIsStored
<1>1. Tables => ConsumedIsStored
  BY DEF Tables
<1>2. QED
  BY <1>1, TablesHold, PTL

\* Neither ProcessTransactionWithInbox nor ResolvePendingReference pays a refund whose
\* reference was not processed, although the reference is read without a lock.
THEOREM PaidHaveReference == Spec => []PaidRefundHasReference
<1>1. Tables => PaidRefundHasReference
  BY DEF Tables
<1>2. QED
  BY <1>1, TablesHold, PTL

-----------------------------------------------------------------------------
(* What callers are told *)

\* What a lookup has found is the row its commit will meet, a pending one perhaps settled.
StillThere(s, found, row) ==
  /\ PayloadHash(found.req) = PayloadHash(s.req)
  /\ row # NoRow /\ row.req = found.req
  /\ \/ found.status = "PENDING_REFERENCE"
     \/ found.status \in Terminal /\ row = found

\* A call has not answered before its end, and knows a message or a row for what it is.
Tellable(consumed, rows, s) ==
  /\ s.pc # "replied" => s.reply.code # "ok"
  /\ s.pc = "findConsumed" => s.msg \in consumed
  /\ s.found # NoRow => StillThere(s, s.found, rows[TxId(s.req)])
  /\ s.found # NoRow /\ s.pc = "commit" => s.before # NoWallet

RowsAreDecided == \A t \in Stored : txs[t].status \in Terminal \cup {"PENDING_REFERENCE"}

Answers == RowsAreDecided /\ \A p \in Procs : Tellable(inbox, txs, session[p])

LEMMA DecidedKept ==
  ASSUME TypeOK, RowsAreDecided, Changes
  PROVE  RowsAreDecided'
<1>1. CASE UNCHANGED txs
  BY <1>1 DEF RowsAreDecided, Stored
<1>2. ASSUME NEW r, NEW status \in Terminal \cup {"PENDING_REFERENCE"}, Recorded(r, status)
      PROVE  RowsAreDecided'
  <2>1. /\ Stored' = Stored \cup {TxId(r)} /\ Stored \subseteq TxIds /\ TxId(r) \in TxIds
        /\ \A t \in TxIds : txs'[t] = IF t = TxId(r) THEN [req |-> r, status |-> status]
                                      ELSE txs[t]
    <3>1. status \in Statuses
      BY DEF Terminal, Statuses
    <3>2. QED
      BY <1>2, <3>1, RecordedRows DEF Stored, Recorded
  <2>2. QED
    BY <2>1 DEF RowsAreDecided
<1>3. ASSUME NEW r, NEW after, Shifted(r, after)
      PROVE  RowsAreDecided'
  BY <1>2, <1>3 DEF Shifted, Terminal
<1>4. ASSUME NEW r, NEW status, Noted(r, status)
      PROVE  RowsAreDecided'
  BY <1>2, <1>4 DEF Noted, Terminal
<1>5. (\E w, opened : OpenedEmpty(w, opened)) => UNCHANGED txs
  BY DEF OpenedEmpty
<1>6. QED
  BY <1>1, <1>3, <1>4, <1>5 DEF Changes

\* The inbox only grows and rows stay, so what a call knows stays so.
LEMMA TellableStays ==
  ASSUME IInv, Once, Stories, [Next]_vars, NEW s \in Sessions, s.found # NoRow => s.req \in Requests,
         Tellable(inbox, txs, s)
  PROVE  Tellable(inbox', txs', s)
<1>1. inbox \subseteq inbox'
  <2>1. [Atomic!Next]_(Atomic!atoms)
    BY StepRefines
  <2>2. QED
    BY <2>1 DEF Atomic!Next, Atomic!atoms, Atomic!Open, Atomic!Decide, Atomic!Consume, Atomic!Settle
<1>2. ASSUME s.found # NoRow
      PROVE  StillThere(s, s.found, txs'[TxId(s.req)])
  <2>1. TxId(s.req) \in TxIds /\ StillThere(s, s.found, txs[TxId(s.req)])
    BY <1>2, RequestTyped DEF Tellable
  <2>2. TxId(s.req) \in Stored
    BY <2>1 DEF StillThere, Stored
  <2>3. QED
    BY <2>1, <2>2, StepIsFinal DEF StillThere
<1>3. QED
  BY <1>1, <1>2 DEF Tellable

\* A row a lookup returns is the one under the id of whoever asks for the same.
LEMMA FoundIsThere ==
  ASSUME TypeOK, Once, RowsAreDecided, NEW s, NEW t \in TxIds, txs[t] # NoRow,
         PayloadHash(txs[t].req) = PayloadHash(s.req)
  PROVE  StillThere(s, txs[t], txs[TxId(s.req)])
<1>1. t \in Stored
  BY DEF Stored
<1>2. TxId(txs[t].req) = TxId(s.req)
  BY DEF PayloadHash, TxId
<1>3. TxId(txs[t].req) = t
  BY <1>1 DEF Once, RowsAreKeyed
<1>4. QED
  BY <1>1, <1>2, <1>3 DEF StillThere, RowsAreDecided

\* The step of p gives it a session about which nothing is to be known.
Silent(p) ==
  LET n == session'[p] IN
  /\ \/ n.pc = "replied" \/ n.reply = NoReply
     \/ n.reply = session[p].reply /\ session[p].pc # "replied"
  /\ n.found = NoRow /\ n.pc # "findConsumed"

LEMMA RolledBackSilent ==
  ASSUME TypeOK, NEW p \in Procs, NEW code, Rollback(p, code)
  PROVE  Silent(p)
<1>1. session'[p] = Failed(session[p], code)
  BY DEF Rollback, Become, TypeOK
<1>2. QED
  BY <1>1 DEF Silent, Failed, Ended, Started, IdleSession

LEMMA BegunSilent ==
  ASSUME TypeOK, NEW p \in Procs, Begin(p)
  PROVE  Silent(p)
<1>1. ASSUME NEW op, NEW r, NEW m, NEW pc, pc # "findConsumed", Become(p, Started(op, r, m, pc))
      PROVE  Silent(p)
  BY <1>1 DEF Silent, Become, TypeOK, Started, IdleSession
<1>2. ASSUME NEW r, NEW m, Become(p, Failed(Started("wager", r, m, "idle"), "INVALID"))
      PROVE  Silent(p)
  BY <1>2 DEF Silent, Become, TypeOK, Failed, Ended, Started, IdleSession
<1>3. QED
  BY <1>1, <1>2 DEF Begin, BeginWager, RefuseInput, BeginResolve, BeginOpen

\* Most statements neither find a row nor answer.
LEMMA QuietSteps ==
  ASSUME TypeOK, Rest, NEW p \in Procs,
         \/ LockWallet(p) \/ FindReference(p) \/ SaveTransaction(p)
         \/ LockPending(p) \/ FindPendingReference(p) \/ LockPendingWallet(p)
         \/ InsertWallet(p) \/ StatementFails(p) \/ Fault(p) \/ Return(p)
  PROVE  Silent(p)
<1> DEFINE s == session[p]
<1>a. s \in Sessions /\ SessionIsSound(s)
  BY Acting
<1>b. \A code : Rollback(p, code) => Silent(p)
  BY RolledBackSilent
<1>c. s.pc \notin {"lockExisting", "commit"} => s.found = NoRow
  BY <1>a DEF SessionIsSound
<1>1. CASE StatementFails(p) \/ Fault(p)
  BY <1>1, <1>b DEF StatementFails, Fault
<1>2. CASE Return(p)
  BY <1>2 DEF Return, Silent, Become, TypeOK, IdleSession
<1>3. ASSUME NEW before, NEW after, NEW status, Decide(p, before, after, status),
             s.found = NoRow, s.pc # "replied"
      PROVE  Silent(p)
  BY <1>3, <1>a DEF Decide, Silent, Become, TypeOK, Sessions
<1>4. CASE LockWallet(p)
  <2>1. ASSUME Become(p, [s EXCEPT !.pc = "findReference", !.before = wallets[s.req.wallet]])
        PROVE  Silent(p)
    BY <1>4, <1>a, <1>c, <2>1 DEF LockWallet, At, Silent, Become, TypeOK, Sessions
  <2>2. QED
    BY <1>4, <1>b, <1>c, <1>3, <2>1 DEF LockWallet, At
<1>5. CASE FindReference(p)
  BY <1>5, <1>b, <1>c, <1>3 DEF FindReference, At
<1>6. CASE SaveTransaction(p)
  <2>1. ASSUME NEW aborts, Become(p, [s EXCEPT !.pc = "findExternal", !.aborted = aborts])
        PROVE  Silent(p)
    BY <1>6, <1>a, <1>c, <2>1 DEF SaveTransaction, At, Silent, Become, TypeOK, Sessions
  <2>2. ASSUME Become(p, [s EXCEPT !.pc = "commit"])
        PROVE  Silent(p)
    BY <1>6, <1>a, <1>c, <2>2 DEF SaveTransaction, At, Silent, Become, TypeOK, Sessions
  <2>3. QED
    BY <1>6, <1>b, <2>1, <2>2 DEF SaveTransaction
<1>7. CASE LockPending(p)
  <2>1. ASSUME Become(p, Ended(s, [NoReply EXCEPT !.code = "ok"]))
        PROVE  Silent(p)
    BY <2>1 DEF Silent, Become, TypeOK, Ended, Started, IdleSession
  <2>2. ASSUME NEW row, Become(p, [s EXCEPT !.pc = "findPendingReference", !.row = row])
        PROVE  Silent(p)
    BY <1>7, <1>a, <1>c, <2>2 DEF LockPending, At, Silent, Become, TypeOK, Sessions
  <2>3. QED
    BY <1>7, <2>1, <2>2 DEF LockPending
<1>8. CASE FindPendingReference(p)
  <2>1. ASSUME NEW pc \in {"commit", "lockPendingWallet"}, Become(p, [s EXCEPT !.pc = pc])
        PROVE  Silent(p)
    BY <1>8, <1>a, <1>c, <2>1 DEF FindPendingReference, At, Silent, Become, TypeOK, Sessions
  <2>2. ASSUME Become(p, [s EXCEPT !.pc = "commit", !.row.status = "REJECTED"])
        PROVE  Silent(p)
    BY <1>8, <1>a, <1>c, <2>2 DEF FindPendingReference, At, Silent, Become, TypeOK, Sessions
  <2>3. QED
    BY <1>8, <2>1, <2>2 DEF FindPendingReference
<1>9. CASE LockPendingWallet(p)
  <2>1. ASSUME NEW after, Become(p, [s EXCEPT !.pc = "commit", !.row.status = "PROCESSED",
                                     !.before = wallets[s.req.wallet], !.after = after])
        PROVE  Silent(p)
    BY <1>9, <1>a, <1>c, <2>1 DEF LockPendingWallet, At, Silent, Become, TypeOK, Sessions
  <2>2. QED
    BY <1>9, <1>b, <2>1 DEF LockPendingWallet
<1>10. CASE InsertWallet(p)
  <2>1. ASSUME NEW after, Become(p, [s EXCEPT !.pc = "commit", !.after = after])
        PROVE  Silent(p)
    BY <1>10, <1>a, <1>c, <2>1 DEF InsertWallet, At, Silent, Become, TypeOK, Sessions
  <2>2. ASSUME NEW after, NEW row,
               Become(p, [s EXCEPT !.pc = "save", !.after = after, !.row = row])
        PROVE  Silent(p)
    BY <1>10, <1>a, <1>c, <2>2 DEF InsertWallet, At, Silent, Become, TypeOK, Sessions
  <2>3. QED
    BY <1>10, <1>b, <2>1, <2>2 DEF InsertWallet
<1>11. QED
  BY <1>1, <1>2, <1>4, <1>5, <1>6, <1>7, <1>8, <1>9, <1>10

\* A step is a step of one call.
LEMMA OthersWait ==
  ASSUME TypeOK, NEW p \in Procs, Begin(p) \/ Step(p) \/ Fault(p), NEW q \in Procs, q # p
  PROVE  session'[q] = session[q]
<1>1. \A n : Become(p, n) => session'[q] = session[q]
  BY DEF Become, TypeOK
<1>2. QED
  BY <1>1 DEF Begin, BeginWager, RefuseInput, BeginResolve, BeginOpen, Step, SaveInbox,
     FindConsumed, FindExternal, FindKey, Replay, Conflict, LockExisting, LockWallet, Decide,
     FindReference, SaveTransaction, LockPending, FindPendingReference, LockPendingWallet,
     InsertWallet, Commit, StatementFails, Fault, Return, Rollback

\* A replay answers with what is stored under its id.
LEMMA ReplayTellable ==
  ASSUME TypeOK, Rest, NEW p \in Procs, NEW found, found # NoRow,
         session[p].reply.code # "ok",
         Become(p, [session[p] EXCEPT !.pc = "lockExisting", !.found = found]),
         StillThere(session[p], found, txs[TxId(session[p].req)])
  PROVE  Tellable(inbox, txs, session'[p])
<1> DEFINE s == session[p]
<1>1. s \in Sessions
  BY Acting
<1>2. LET n == session'[p] IN /\ n.pc = "lockExisting" /\ n.found = found
                              /\ n.req = s.req /\ n.reply = s.reply
  BY <1>1 DEF Become, TypeOK, Sessions
<1>3. StillThere(session'[p], found, txs[TxId(s.req)])
  BY <1>2 DEF StillThere
<1>4. QED
  BY <1>2, <1>3 DEF Tellable

LEMMA SilentTellable ==
  ASSUME NEW p \in Procs, Silent(p), Tellable(inbox, txs, session[p])
  PROVE  Tellable(inbox, txs, session'[p])
BY DEF Silent, Tellable, NoReply

LEMMA LookupTellable ==
  ASSUME TypeOK, Rest, Once, Stories, RowsAreDecided, ConsumedIsStored, NEW p \in Procs,
         Tellable(inbox, txs, session[p]),
         SaveInbox(p) \/ FindConsumed(p) \/ FindExternal(p) \/ FindKey(p)
  PROVE  Tellable(inbox, txs, session'[p])
<1> DEFINE s == session[p]
<1>a. s \in Sessions /\ s.found = NoRow
      /\ s.pc \in {"saveInbox", "findConsumed", "findExternal", "findKey"}
  BY Acting DEF SessionIsSound, SaveInbox, FindConsumed, FindExternal, FindKey, At
<1>b. s.reply.code # "ok"
  BY <1>a DEF Tellable
<1>c. \A code : Rollback(p, code) => Silent(p)
  BY RolledBackSilent
<1>1. ASSUME NEW pc \in {"findKey", "lockWallet"}, Become(p, [s EXCEPT !.pc = pc])
      PROVE  Silent(p)
  BY <1>1, <1>a DEF Silent, Become, TypeOK, Sessions
<1>2. ASSUME NEW t \in TxIds, txs[t] # NoRow, PayloadHash(txs[t].req) = PayloadHash(s.req),
             Become(p, [s EXCEPT !.pc = "lockExisting", !.found = txs[t]])
      PROVE  Tellable(inbox, txs, session'[p])
  <2>1. StillThere(s, txs[t], txs[TxId(s.req)])
    BY <1>2, FoundIsThere
  <2>2. QED
    BY <1>2, <1>b, <2>1, ReplayTellable
<1>3. CASE SaveInbox(p)
  <2>1. ASSUME Become(p, [s EXCEPT !.pc = "findExternal", !.claim = TRUE])
        PROVE  Silent(p)
    BY <1>a, <2>1 DEF Silent, Become, TypeOK, Sessions
  <2>2. ASSUME NEW aborts, s.msg \in inbox,
               Become(p, [s EXCEPT !.pc = "findConsumed", !.aborted = aborts])
        PROVE  Tellable(inbox, txs, session'[p])
    BY <1>a, <1>b, <2>2 DEF Tellable, Become, TypeOK, Sessions
  <2>3. QED
    BY <1>3, <2>1, <2>2, SilentTellable DEF SaveInbox
<1>4. CASE FindConsumed(p)
  <2> DEFINE e == FindByExternalID(s.req.ext)
  <2>1. s.pc = "findConsumed" /\ s.msg \in inbox /\ s.msg # NoMsg
    BY <1>4, SessionAssumption DEF FindConsumed, At, Tellable, TypeOK
  <2>2. s.req = Body[s.msg]
    <3>1. s.op = "wager"
      BY <2>1, Acting, SessionFields DEF SessionIsSound
    <3>2. QED
      BY <2>1, <3>1 DEF Stories, StoryOf, Origin
  <2>3. PICK t \in Stored : PayloadHash(txs[t].req) = PayloadHash(s.req)
    BY <2>1, <2>2 DEF ConsumedIsStored
  <2>4. txs[t].req.ext = s.req.ext /\ t \in TxIds /\ txs[t] # NoRow
    BY <2>3 DEF PayloadHash, Stored
  <2>5. \A u \in Stored : txs[u].req.ext = s.req.ext => u = t
    BY <2>3, <2>4 DEF Once, RowsAreApart, Clash
  <2>6. {u \in Stored : txs[u].req.ext = s.req.ext} = {t}
    BY <2>3, <2>4, <2>5
  <2>7. e = txs[t]
    BY <2>6 DEF FindByExternalID, TheRow
  <2>8. QED
    BY <1>2, <1>4, <2>3, <2>4, <2>7 DEF FindConsumed
<1>5. ASSUME NEW e, Replay(p, e), \E t \in TxIds : txs[t] # NoRow /\ txs[t] = e
      PROVE  Tellable(inbox, txs, session'[p])
  BY <1>2, <1>5 DEF Replay
<1>6. CASE FindExternal(p)
  <2> DEFINE e == FindByExternalID(s.req.ext)
  <2>1. Replay(p, e) => \E t \in TxIds : txs[t] # NoRow /\ txs[t] = e
    BY LookupFinds DEF Replay
  <2>2. Replay(p, e) \/ Rollback(p, "CONFLICT") \/ Become(p, [s EXCEPT !.pc = "findKey"])
    BY <1>6 DEF FindExternal, Conflict
  <2>3. QED
    BY <1>c, <1>1, <1>5, <2>1, <2>2, SilentTellable
<1>7. CASE FindKey(p)
  <2> DEFINE e == FindByIdempotencyKey(s.req.key)
  <2>1. Replay(p, e) => \E t \in TxIds : txs[t] # NoRow /\ txs[t] = e
    BY LookupFinds DEF Replay
  <2>2. Replay(p, e) \/ Rollback(p, "CONFLICT") \/ Become(p, [s EXCEPT !.pc = "lockWallet"])
    BY <1>7 DEF FindKey, Conflict
  <2>3. QED
    BY <1>c, <1>1, <1>5, <2>1, <2>2, SilentTellable
<1>8. QED
  BY <1>3, <1>4, <1>6, <1>7

LEMMA LockExistingTellable ==
  ASSUME TypeOK, Rest, NEW p \in Procs, LockExisting(p), Tellable(inbox, txs, session[p])
  PROVE  Tellable(inbox, txs, session'[p])
<1> DEFINE s == session[p]
           w == s.found.req.wallet
           n == session'[p]
<1>1. s \in Sessions /\ s.pc = "lockExisting" /\ wallets[w] # NoWallet
  BY Acting DEF LockExisting, At, Lockable
<1>2. n = [s EXCEPT !.pc = "commit", !.before = wallets[w], !.after = NoWallet]
  BY DEF LockExisting, Become, TypeOK
<1>3. /\ n.pc = "commit" /\ n.found = s.found /\ n.req = s.req /\ n.reply = s.reply
      /\ n.before = wallets[w]
  BY <1>1, <1>2 DEF Sessions
<1> HIDE DEF n
<1>4. Tellable(inbox, txs, n)
  BY <1>1, <1>3 DEF Tellable, StillThere
<1>5. QED
  BY <1>4 DEF n

LEMMA CommitTellable ==
  ASSUME TypeOK, NEW p \in Procs, Commit(p), Tellable(inbox, txs, session[p])
  PROVE  Tellable(inbox, txs, session'[p])
<1>1. ASSUME NEW reply, Become(p, Ended(session[p], reply))
      PROVE  Silent(p)
  BY <1>1 DEF Silent, Become, TypeOK, Ended, Started, IdleSession
<1>2. \A code : Rollback(p, code) => Silent(p)
  BY RolledBackSilent
<1>3. QED
  BY <1>1, <1>2, SilentTellable DEF Commit, Failed

LEMMA InitAnswers == Init => Answers
BY DEF Init, Answers, RowsAreDecided, Stored, Tellable, IdleSession, NoReply

LEMMA StepAnswers == IInv /\ Once /\ Stories /\ Tables /\ Answers /\ [Next]_vars => Answers'
<1> SUFFICES ASSUME IInv, Once, Stories, Tables, Answers, [Next]_vars
             PROVE  Answers'
  OBVIOUS
<1>1. TypeOK /\ Rest /\ ConsumedIsStored /\ RowsAreDecided
  BY DEF IInv, Rest, Tables, Answers
<1>2. RowsAreDecided'
  <2>1. Changes
    BY StepRefines, StepChanges DEF Tables
  <2>2. QED
    BY <1>1, <2>1, DecidedKept
<1>3. \A p \in Procs : Tellable(inbox, txs, session[p])
  BY DEF Answers
<1>4. ASSUME NEW p \in Procs, Begin(p) \/ Step(p) \/ Fault(p)
      PROVE  Tellable(inbox, txs, session'[p])
  BY <1>1, <1>3, <1>4, BegunSilent, QuietSteps, SilentTellable, LookupTellable,
     LockExistingTellable, CommitTellable DEF Step
<1>5. ASSUME NEW q \in Procs
      PROVE  Tellable(inbox, txs, session'[q])
  <2>1. CASE UNCHANGED vars
    BY <1>3, <2>1 DEF vars
  <2>2. ASSUME NEW p \in Procs, Begin(p) \/ Step(p) \/ Fault(p)
        PROVE  Tellable(inbox, txs, session'[q])
    BY <1>1, <1>3, <1>4, <2>2, OthersWait
  <2>3. QED
    BY <2>1, <2>2 DEF Next
<1>6. \A q \in Procs : /\ session'[q] \in Sessions
                       /\ session'[q].found # NoRow => session'[q].req \in Requests
  <2>1. TypeOK' /\ SessionsAreSound'
    BY StepKeeps DEF IInv
  <2>2. \A q \in Procs : session'[q] \in Sessions /\ SessionIsSound(session'[q])
    BY <2>1 DEF TypeOK, SessionsAreSound
  <2>3. QED
    BY <2>2 DEF SessionIsSound
<1>7. \A q \in Procs : Tellable(inbox', txs', session'[q])
  BY <1>5, <1>6, TellableStays
<1>8. QED
  BY <1>2, <1>7 DEF Answers

LEMMA AnswersHold == Spec => []Answers
<1>1. Init /\ [][Next]_vars => [](IInv /\ Once /\ Stories /\ Tables)
  BY StoriesHold, TablesHold, PTL DEF Spec
<1>2. QED
  BY <1>1, InitAnswers, StepAnswers, PTL DEF Spec

\* Only the commit that succeeds tells somebody "ok" about a wager or a new wallet.
LEMMA AnsweredByCommit ==
  ASSUME IInv, Answers, [Next]_vars, NEW p \in Procs,
         session[p].pc = "commit", session'[p].reply.code = "ok"
  PROVE  Commit(p) /\ ~Stale(session[p]) /\ session'[p].reply = Answer(session[p])
<1> DEFINE s == session[p]
<1>1. TypeOK /\ s.reply.code # "ok"
  BY DEF IInv, Answers, Tellable
<1>2. \A code : Rollback(p, code) => session'[p].reply.code = code
  BY <1>1 DEF Rollback, Become, TypeOK, Failed, Ended, Started, IdleSession, NoReply
<1>3. ASSUME NEW reply, Become(p, Ended(s, reply))
      PROVE  session'[p].reply = reply
  BY <1>1, <1>3 DEF Become, TypeOK, Ended, Started, IdleSession
<1>4. PICK q \in Procs : Begin(q) \/ Step(q) \/ Fault(q)
  <2>1. ~UNCHANGED vars
    BY <1>1 DEF vars
  <2>2. QED
    BY <2>1 DEF Next
<1>5. q = p
  BY <1>1, <1>4, OthersWait
<1>6. ~Begin(p)
  BY DEF Begin, BeginWager, RefuseInput, BeginResolve, BeginOpen
<1>7. ~Fault(p) /\ ~StatementFails(p)
  BY <1>2 DEF Fault, StatementFails
<1>8. Commit(p)
  BY <1>4, <1>5, <1>6, <1>7 DEF Step, At, SaveInbox, FindConsumed, FindExternal, FindKey,
     LockExisting, LockWallet, FindReference, SaveTransaction, LockPending,
     FindPendingReference, LockPendingWallet, InsertWallet, Return
<1>9. ~Stale(s)
  BY <1>2, <1>8 DEF Commit
<1>10. Become(p, Ended(s, Answer(s))) \/ Become(p, Failed(s, "FAULT"))
  BY <1>8, <1>9 DEF Commit
<1>11. ~Become(p, Failed(s, "FAULT"))
  <2>1. ASSUME Become(p, Failed(s, "FAULT"))
        PROVE  FALSE
    BY <1>3, <2>1 DEF Failed, NoReply
  <2>2. QED
    BY <2>1
<1>12. QED
  BY <1>3, <1>8, <1>9, <1>10, <1>11

LEMMA AnswerIsTrue ==
  ASSUME IInv, Once, Stories, Answers, [Next]_vars, NEW p \in Procs,
         session[p].pc = "commit", session'[p].reply.code = "ok", session[p].op # "resolve"
  PROVE  LET s == session[p]
             a == session'[p].reply
             stored == txs'[TxId(s.req)]
         IN  /\ a.balance = wallets'[s.req.wallet].balance.amount
             /\ a.row # NoRow =>
                  /\ PayloadHash(stored.req) = PayloadHash(s.req)
                  /\ stored.req = a.row.req
                  /\ \/ stored.status = a.row.status
                     \/ a.replay /\ a.row.status = "PENDING_REFERENCE"
<1> DEFINE s == session[p]
           t == TxId(s.req)
           w == s.req.wallet
           a == session'[p].reply
<1>a. TypeOK /\ Rest
  BY DEF IInv, Rest
<1>b. Commit(p) /\ ~Stale(s) /\ a = Answer(s)
  BY AnsweredByCommit
<1>c. /\ s \in Sessions /\ SessionIsSound(s) /\ t \in TxIds /\ w \in WalletIds
      /\ Writes(s) => s.row.req = s.req
  BY <1>a, CommitsOnce
<1>d. /\ txs'[t] = IF Writes(s) THEN s.row ELSE txs[t]
      /\ wallets'[w] = IF s.after # NoWallet THEN s.after ELSE wallets[w]
  BY <1>a, <1>b, <1>c, CommitChanges DEF Commit, TypeOK
<1>e. s.before # NoWallet => wallets[WalletOf(s)] = s.before
  BY <1>a, Acting
<1>1. CASE s.found # NoRow
  <2>1. StillThere(s, s.found, txs[t]) /\ s.before # NoWallet
    BY <1>1 DEF Answers, Tellable
  <2>2. s.after = NoWallet
    BY <1>1, <1>c DEF SessionIsSound
  <2>3. s.found.req.wallet = w
    BY <2>1 DEF StillThere, PayloadHash
  <2>4. wallets'[w] = s.before /\ txs'[t] = txs[t]
    BY <1>1, <1>d, <1>e, <2>1, <2>2, <2>3 DEF WalletOf, Writes
  <2>5. a.balance = s.before.balance.amount /\ a.row = s.found /\ a.replay
    <3>1. Answer(s).replay = (s.found # NoRow)
      BY Zenon DEF Answer
    <3>2. a.balance = s.before.balance.amount /\ a.row = s.found
      BY <1>1, <1>b, <2>1, <2>2 DEF Answer
    <3>3. QED
      BY <1>1, <1>b, <3>1, <3>2
  <2>6. QED
    BY <2>1, <2>4, <2>5 DEF StillThere
<1>2. CASE s.found = NoRow
  <2>1. s.after # NoWallet \/ (s.before # NoWallet /\ wallets[w] = s.before)
    <3>1. CASE s.op = "wager"
      <4>1. WagerDecided(txs, s)
        BY <1>2, <3>1 DEF Stories, StoryOf, Decision
      <4>2. QED
        BY <1>2, <1>e, <4>1 DEF WagerDecided, WalletOf
    <3>2. CASE s.op # "wager"
      BY <1>c, <3>2, SessionFields DEF SessionIsSound
    <3>3. QED
      BY <3>1, <3>2
  <2>2. a.balance = wallets'[w].balance.amount
    BY <1>b, <1>d, <2>1 DEF Answer
  <2>3. a.row = s.row
    BY <1>2, <1>b DEF Answer
  <2>4. s.row # NoRow => txs'[t] = s.row /\ s.row.req = s.req
    BY <1>2, <1>c, <1>d DEF Writes
  <2>5. QED
    BY <2>2, <2>3, <2>4
<1>3. QED
  BY <1>1, <1>2

\* ProcessTransactionWithInbox and Execute answer from what they have read and built, and
\* that is what the database holds when they do, for replays too.
THEOREM AnswersStayTrue == Spec => AnswersAreTrue
<1>1. Init /\ [][Next]_vars => [](IInv /\ Once /\ Stories /\ Answers)
  BY StoriesHold, AnswersHold, PTL DEF Spec
<1>2. ASSUME IInv, Once, Stories, Answers, [Next]_vars
      PROVE  [\A p \in Procs :
                LET s == session[p]
                    a == session'[p].reply
                IN  s.pc = "commit" /\ a.code = "ok" /\ s.op # "resolve" =>
                      /\ a.balance = wallets'[s.req.wallet].balance.amount
                      /\ a.row # NoRow =>
                           LET stored == txs'[TxId(s.req)]
                           IN  /\ PayloadHash(stored.req) = PayloadHash(s.req)
                               /\ stored.req = a.row.req
                               /\ \/ stored.status = a.row.status
                                  \/ a.replay /\ a.row.status = "PENDING_REFERENCE"]_vars
  BY <1>2, AnswerIsTrue
<1>3. QED
  BY <1>1, <1>2, PTL DEF Spec, AnswersAreTrue

-----------------------------------------------------------------------------
(***************************************************************************)
(* No deadlock.  A call that holds a wallet waits for nothing but an open  *)
(* insert, and that insert's owner waits for nothing; a resolver that      *)
(* holds a row waits for a wallet.  The invariant: a lock is held by a     *)
(* call that is under way and has what it locked.                          *)
(***************************************************************************)

HoldsWallet(s) == s.before # NoWallet /\ s.pc \notin {"idle", "replied"}
Locked == /\ \A w \in WalletIds : walletLock[w] # NoProc => HoldsWallet(session[walletLock[w]])
          /\ \A t \in TxIds : rowLock[t] # NoProc => HoldsRow(session[rowLock[t]])

\* Everybody else's locks stay as they are; p keeps what it has, takes more, or lets go.
LEMMA LockedKept ==
  ASSUME TypeOK, Locked, NEW p \in Procs, NEW n, Become(p, n),
         \A w \in WalletIds : \/ walletLock'[w] = NoProc
                              \/ walletLock'[w] = p /\ HoldsWallet(n)
                              \/ walletLock'[w] = walletLock[w] /\ walletLock[w] # p,
         \A t \in TxIds : \/ rowLock'[t] = NoProc
                          \/ rowLock'[t] = p /\ HoldsRow(n)
                          \/ rowLock'[t] = rowLock[t] /\ rowLock[t] # p
  PROVE  Locked'
<1>1. \A q \in Procs : session'[q] = IF q = p THEN n ELSE session[q]
  BY DEF Become, TypeOK
<1>2. p # NoProc
  BY SessionAssumption
<1>3. ASSUME NEW w \in WalletIds, walletLock'[w] # NoProc
      PROVE  HoldsWallet(session'[walletLock'[w]])
  BY <1>1, <1>2, <1>3 DEF Locked, TypeOK
<1>4. ASSUME NEW t \in TxIds, rowLock'[t] # NoProc
      PROVE  HoldsRow(session'[rowLock'[t]])
  BY <1>1, <1>2, <1>4 DEF Locked, TypeOK
<1>5. QED
  BY <1>3, <1>4 DEF Locked, HoldsWallet, HoldsRow, Resolving

\* A statement that takes no lock, in a call that goes on.
LEMMA QuietLocked ==
  ASSUME TypeOK, Locked, NEW p \in Procs, NEW n, Become(p, n), UNCHANGED locks,
         HoldsWallet(session[p]) => HoldsWallet(n),
         HoldsRow(session[p]) => HoldsRow(n)
  PROVE  Locked'
<1>1. walletLock' = walletLock /\ rowLock' = rowLock
  BY DEF locks
<1>2. /\ \A w \in WalletIds : walletLock[w] = p => HoldsWallet(n)
      /\ \A t \in TxIds : rowLock[t] = p => HoldsRow(n)
  BY SessionAssumption DEF Locked
<1>3. QED
  BY <1>1, <1>2, LockedKept

\* An end that lets all locks go.
LEMMA ReleaseLocked ==
  ASSUME TypeOK, Locked, NEW p \in Procs, NEW n, Become(p, n), ReleaseLocks(p)
  PROVE  Locked'
<1>1. /\ \A w \in WalletIds : walletLock'[w] = IF walletLock[w] = p THEN NoProc ELSE walletLock[w]
      /\ \A t \in TxIds : rowLock'[t] = IF rowLock[t] = p THEN NoProc ELSE rowLock[t]
  BY DEF ReleaseLocks, Freed, TypeOK
<1>2. QED
  BY <1>1, LockedKept

LEMMA RollbackLocked ==
  ASSUME TypeOK, Locked, NEW p \in Procs, NEW code, Rollback(p, code)
  PROVE  Locked'
BY ReleaseLocked DEF Rollback

\* FOR UPDATE on the wallet, which the call has from then on.
LEMMA LockRowLocked ==
  ASSUME TypeOK, Locked, NEW p \in Procs, NEW w \in WalletIds, NEW n, Become(p, n),
         LockRow(p, w), HoldsWallet(n), HoldsRow(session[p]) => HoldsRow(n)
  PROVE  Locked'
<1>1. \A v \in WalletIds : walletLock'[v] = IF v = w THEN p ELSE walletLock[v]
  BY DEF LockRow, TypeOK
<1>2. rowLock' = rowLock
  BY DEF LockRow
<1>3. \A t \in TxIds : rowLock[t] = p => HoldsRow(session[p])
  BY SessionAssumption DEF Locked
<1>4. QED
  BY <1>1, <1>2, <1>3, LockedKept

LEMMA InitLocked == Init => Locked
BY DEF Init, Locked

\* A refused, finished or idle session has nothing; a new one has not begun to.
LEMMA BeginLocked ==
  ASSUME TypeOK, Rest, Locked, NEW p \in Procs, Begin(p)
  PROVE  Locked'
<1> DEFINE s == session[p]
<1>1. ~HoldsWallet(s) /\ ~HoldsRow(s) /\ UNCHANGED locks
  BY Acting DEF HoldsWallet, HoldsRow, Resolving, Begin, BeginWager, RefuseInput,
     BeginResolve, BeginOpen
<1>2. \A n : Become(p, n) => Locked'
  BY <1>1, QuietLocked
<1>3. QED
  BY <1>2 DEF Begin, BeginWager, RefuseInput, BeginResolve, BeginOpen

\* The statements of a wager, from the claim to the reference.
LEMMA WagerLocked ==
  ASSUME TypeOK, Rest, Locked, NEW p \in Procs,
         \/ SaveInbox(p) \/ FindConsumed(p) \/ FindExternal(p) \/ FindKey(p)
         \/ LockExisting(p) \/ LockWallet(p) \/ FindReference(p)
  PROVE  Locked'
<1> DEFINE s == session[p]
<1>a. s \in Sessions /\ SessionIsSound(s) /\ s.op = "wager" /\ s.pc \notin {"idle", "replied"}
  <2>1. s.pc \in {"saveInbox", "findConsumed", "findExternal", "findKey", "lockExisting",
                  "lockWallet", "findReference"}
    BY DEF At, SaveInbox, FindConsumed, FindExternal, FindKey, LockExisting, LockWallet,
       FindReference
  <2>2. s \in Sessions /\ SessionIsSound(s)
    BY Acting
  <2>3. s.op \in {"none", "wager", "resolve", "open"}
    BY <2>2, SessionFields
  <2>4. QED
    BY <2>1, <2>2, <2>3 DEF SessionIsSound
<1>b. ~HoldsRow(s) /\ \A code : Rollback(p, code) => Locked'
  BY <1>a, RollbackLocked DEF HoldsRow, Resolving
<1>c. ASSUME NEW n, Become(p, n), UNCHANGED locks, n.pc \notin {"idle", "replied"},
             n.before = s.before
      PROVE  Locked'
  BY <1>b, <1>c, QuietLocked DEF HoldsWallet
<1>1. CASE SaveInbox(p)
  <2>1. ASSUME NEW pc \in {"findExternal"}, Become(p, [s EXCEPT !.pc = pc, !.claim = TRUE])
        PROVE  Locked'
    BY <1>1, <1>a, <1>c, <2>1 DEF SaveInbox, Sessions
  <2>2. ASSUME NEW aborts, Become(p, [s EXCEPT !.pc = "findConsumed", !.aborted = aborts])
        PROVE  Locked'
    BY <1>1, <1>a, <1>c, <2>2 DEF SaveInbox, Sessions
  <2>3. QED
    BY <1>1, <2>1, <2>2 DEF SaveInbox
<1>2. ASSUME NEW existing, Replay(p, existing)
      PROVE  Locked'
  BY <1>2, <1>a, <1>c DEF Replay, Sessions
<1>3. CASE FindConsumed(p)
  BY <1>3, <1>a, <1>c DEF FindConsumed, Sessions
<1>4. CASE FindExternal(p)
  BY <1>4, <1>a, <1>b, <1>c, <1>2 DEF FindExternal, Conflict, Sessions
<1>5. CASE FindKey(p)
  BY <1>5, <1>a, <1>b, <1>c, <1>2 DEF FindKey, Conflict, Sessions
<1>6. CASE LockExisting(p)
  <2> DEFINE w == s.found.req.wallet
  <2>1. w \in WalletIds /\ wallets[w] # NoWallet
    BY <1>6, <1>a, RequestTyped DEF LockExisting, At, Lockable, SessionIsSound, Sessions, Rows
  <2>2. QED
    BY <1>6, <1>a, <1>b, <2>1, LockRowLocked DEF LockExisting, Sessions, HoldsWallet
<1>7. ASSUME NEW before, before # NoWallet, NEW after, NEW status, Decide(p, before, after, status),
             UNCHANGED locks
      PROVE  Locked'
  BY <1>7, <1>a, <1>b, QuietLocked DEF Decide, Sessions, HoldsWallet
<1>8. CASE LockWallet(p)
  <2> DEFINE w == s.req.wallet
  <2>1. w \in WalletIds
    BY <1>a, RequestTyped DEF SessionIsSound
  <2>2. QED
    BY <1>8, <1>a, <1>b, <2>1, LockRowLocked DEF LockWallet, Decide, Lockable, Sessions, HoldsWallet
<1>9. CASE FindReference(p)
  BY <1>9, <1>a, <1>b, <1>7 DEF FindReference, At, SessionIsSound
<1>10. QED
  BY <1>1, <1>3, <1>4, <1>5, <1>6, <1>8, <1>9

\* The statements of a resolver and of an opening, and the INSERT of a transaction.
LEMMA ResolveLocked ==
  ASSUME TypeOK, Rest, AllLinked, Locked, NEW p \in Procs,
         \/ LockPending(p) \/ FindPendingReference(p) \/ LockPendingWallet(p)
         \/ InsertWallet(p) \/ SaveTransaction(p)
  PROVE  Locked'
<1> DEFINE s == session[p]
<1>a. /\ s \in Sessions /\ SessionIsSound(s) /\ s.pc \notin {"idle", "replied"}
      /\ s.op \in {"none", "wager", "resolve", "open"}
  BY Acting, SessionFields DEF At, LockPending, FindPendingReference, LockPendingWallet,
     InsertWallet, SaveTransaction
<1>b. \A code : Rollback(p, code) => Locked'
  BY RollbackLocked
<1>c. ASSUME NEW n, Become(p, n), UNCHANGED locks, n.pc \notin {"idle", "replied", "lockPending"},
             n.before = s.before, n.op = s.op
      PROVE  Locked'
  BY <1>c, QuietLocked DEF HoldsWallet, HoldsRow, Resolving
<1>1. CASE LockPending(p)
  <2> DEFINE t == TxId(s.req)
             n == [s EXCEPT !.pc = "findPendingReference", !.row = txs[t]]
  <2>1. t \in TxIds /\ s.op = "resolve" /\ ~HoldsRow(s) /\ s.before = NoWallet
    BY <1>1, <1>a, RequestTyped DEF LockPending, At, SessionIsSound, HoldsRow
  <2>2. ASSUME NEW e, Become(p, e), UNCHANGED locks
        PROVE  Locked'
    BY <2>1, <2>2, QuietLocked DEF HoldsWallet
  <2>3. ASSUME Become(p, n), rowLock' = [rowLock EXCEPT ![t] = p], walletLock' = walletLock
        PROVE  Locked'
    <3>1. HoldsRow(n)
      BY <1>a, <2>1 DEF HoldsRow, Resolving, Sessions
    <3>2. \A u \in TxIds : rowLock'[u] = IF u = t THEN p ELSE rowLock[u]
      BY <2>3 DEF TypeOK
    <3>3. /\ \A u \in TxIds : rowLock[u] # p
          /\ \A w \in WalletIds : walletLock[w] # p
      BY <2>1, SessionAssumption DEF Locked, HoldsWallet
    <3> HIDE DEF n, t
    <3>4. QED
      BY <2>3, <3>1, <3>2, <3>3, LockedKept
  <2>4. QED
    BY <1>1, <2>2, <2>3 DEF LockPending, locks
<1>2. CASE FindPendingReference(p)
  BY <1>2, <1>a, <1>c DEF FindPendingReference, Sessions
<1>3. CASE LockPendingWallet(p)
  <2> DEFINE w == s.req.wallet
             n == [s EXCEPT !.pc = "commit", !.row.status = "PROCESSED", !.before = wallets[w],
                            !.after = Credit(wallets[w], s.req.money).wallet]
  <2>1. w \in WalletIds
    BY <1>a, RequestTyped DEF SessionIsSound
  <2>2. wallets[w] # NoWallet => HoldsWallet(n) /\ (HoldsRow(s) => HoldsRow(n))
    BY <1>a DEF HoldsWallet, HoldsRow, Resolving, Sessions
  <2>3. \/ Rollback(p, "MONEY")
        \/ wallets[w] # NoWallet /\ LockRow(p, w) /\ Become(p, n)
    BY <1>3 DEF LockPendingWallet, Lockable
  <2> HIDE DEF n, w
  <2>4. QED
    BY <1>b, <2>1, <2>2, <2>3, LockRowLocked
<1>4. CASE InsertWallet(p)
  <2>1. ASSUME NEW after, Become(p, [s EXCEPT !.pc = "commit", !.after = after]), UNCHANGED locks
        PROVE  Locked'
    BY <1>a, <1>c, <2>1 DEF Sessions
  <2>2. ASSUME NEW after, NEW row, UNCHANGED locks,
               Become(p, [s EXCEPT !.pc = "save", !.after = after, !.row = row])
        PROVE  Locked'
    BY <1>a, <1>c, <2>2 DEF Sessions
  <2>3. QED
    BY <1>4, <1>b, <2>1, <2>2 DEF InsertWallet
<1>5. CASE SaveTransaction(p)
  BY <1>5, <1>a, <1>b, <1>c DEF SaveTransaction, Sessions
<1>6. QED
  BY <1>1, <1>2, <1>3, <1>4, <1>5

LEMMA EndLocked ==
  ASSUME TypeOK, Locked, NEW p \in Procs, Commit(p) \/ StatementFails(p) \/ Fault(p) \/ Return(p)
  PROVE  Locked'
<1>1. CASE Commit(p)
  BY <1>1, RollbackLocked, ReleaseLocked DEF Commit
<1>2. CASE StatementFails(p) \/ Fault(p)
  BY <1>2, RollbackLocked DEF StatementFails, Fault
<1>3. CASE Return(p)
  <2>1. ~HoldsWallet(session[p]) /\ ~HoldsRow(session[p])
    BY <1>3 DEF Return, HoldsWallet, HoldsRow, Resolving
  <2>2. QED
    BY <1>3, <2>1, QuietLocked DEF Return
<1>4. QED
  BY <1>1, <1>2, <1>3

LEMMA StepLocked == IInv /\ Once /\ Locked /\ [Next]_vars => Locked'
<1> SUFFICES ASSUME IInv, Once, Locked, [Next]_vars
             PROVE  Locked'
  OBVIOUS
<1>1. TypeOK /\ Rest /\ AllLinked
  BY DEF IInv, Rest, Once
<1>2. CASE UNCHANGED vars
  BY <1>2 DEF vars, Locked, HoldsWallet, HoldsRow, Resolving
<1>3. ASSUME NEW p \in Procs, Begin(p) \/ Step(p) \/ Fault(p)
      PROVE  Locked'
  BY <1>1, <1>3, BeginLocked, WagerLocked, ResolveLocked, EndLocked DEF Step
<1>4. QED
  BY <1>2, <1>3 DEF Next

LEMMA LocksHold == Spec => []Locked
<1>1. Init /\ [][Next]_vars => [](IInv /\ Once)
  BY OnceHolds, InvariantHolds, PTL DEF Spec
<1>2. QED
  BY <1>1, InitLocked, StepLocked, PTL DEF Spec

\* Were every open call waiting, none would be at its commit, so none would have inserted
\* anything, so none with a wallet would wait, so no wallet would be locked, and so on.
LEMMA SomebodyIsReady ==
  ASSUME IInv, Once, Stories, Tables, Answers, Locked
  PROVE  NoDeadlock
<1> SUFFICES ASSUME NEW p \in Procs, session[p].pc # "idle",
                    \A q \in Procs : session[q].pc # "idle" => ~Ready(q)
             PROVE  FALSE
  BY DEF NoDeadlock
<1>1. \A q \in Procs : /\ session[q] \in Sessions /\ SessionIsSound(session[q])
                       /\ session[q].op \in {"none", "wager", "resolve", "open"}
                       /\ session[q].op = "none" <=> session[q].pc = "idle"
  BY Acting, SessionFields DEF IInv, Rest
<1>2. \A q \in Procs : session[q].pc \in {"idle", "saveInbox", "insertWallet", "lockExisting",
                                           "lockWallet", "lockPending", "lockPendingWallet", "save"}
  BY DEF Ready
<1>3. \A q \in Procs : session[q].pc # "save"
  BY <1>2 DEF Ready, Inserted
<1>4. \A q \in Procs : ~HoldsWallet(session[q])
  <2> SUFFICES ASSUME NEW q \in Procs, HoldsWallet(session[q])
               PROVE  FALSE
    OBVIOUS
  <2> DEFINE s == session[q]
  <2>1. s.pc \in {"lockExisting", "lockWallet", "lockPendingWallet"}
    BY <1>1, <1>2, <1>3 DEF HoldsWallet, SessionIsSound
  <2>2. walletLock[WalletOf(s)] = q /\ wallets[WalletOf(s)] = s.before /\ s.before # NoWallet
    BY Acting DEF HoldsWallet, IInv, Rest
  <2>3. Lockable(q, WalletOf(s))
    BY <2>2 DEF Lockable, WalletFree
  <2>4. s.pc = "lockExisting" <=> s.found # NoRow
    BY <1>1, <2>1 DEF SessionIsSound
  <2>5. QED
    BY <2>1, <2>3, <2>4 DEF Ready, WalletOf
<1>5. \A w \in WalletIds : walletLock[w] = NoProc
  BY <1>4 DEF Locked, IInv, TypeOK
<1>6. ASSUME NEW q \in Procs, NEW w \in WalletIds, wallets[w] # NoWallet
      PROVE  Lockable(q, w)
  BY <1>5, <1>6 DEF Lockable, WalletFree
<1>7. \A q \in Procs : session[q].pc # "lockWallet"
  <2> SUFFICES ASSUME NEW q \in Procs, session[q].pc = "lockWallet"
               PROVE  FALSE
    OBVIOUS
  <2>1. session[q].req.wallet \in WalletIds
    BY <1>1, RequestTyped DEF SessionIsSound
  <2>2. QED
    BY <1>6, <2>1 DEF Ready
<1>8. \A q \in Procs : session[q].pc # "lockExisting"
  <2> SUFFICES ASSUME NEW q \in Procs, session[q].pc = "lockExisting"
               PROVE  FALSE
    OBVIOUS
  <2> DEFINE s == session[q]
             t == TxId(s.req)
  <2>1. s.found # NoRow /\ t \in TxIds
    BY <1>1, RequestTyped DEF SessionIsSound
  <2>2. txs[t] # NoRow /\ txs[t].req = s.found.req
    BY <2>1 DEF Answers, Tellable, StillThere
  <2>3. s.found.req.wallet \in WalletIds /\ wallets[s.found.req.wallet] # NoWallet
    BY <2>1, <2>2, RequestTyped DEF Tables, Housed, Stored, IInv, TypeOK, Rows
  <2>4. QED
    BY <1>6, <2>3 DEF Ready
<1>9. \A q \in Procs : session[q].pc # "lockPendingWallet"
  <2> SUFFICES ASSUME NEW q \in Procs, session[q].pc = "lockPendingWallet"
               PROVE  FALSE
    OBVIOUS
  <2> DEFINE s == session[q]
             t == TxId(s.req)
  <2>1. s.op = "resolve" /\ t \in TxIds /\ s.req.wallet \in WalletIds
    BY <1>1, RequestTyped DEF SessionIsSound
  <2>2. txs[t] # NoRow /\ txs[t].req = s.req
    BY <2>1 DEF Once, AllLinked, Linked, Resolving
  <2>3. wallets[s.req.wallet] # NoWallet
    BY <2>1, <2>2 DEF Tables, Housed, Stored
  <2>4. QED
    BY <1>6, <2>1, <2>3 DEF Ready
<1>10. \A q \in Procs : session[q].pc \in {"idle", "saveInbox", "insertWallet", "lockPending"}
  BY <1>2, <1>3, <1>7, <1>8, <1>9
<1>11. \A t \in TxIds : rowLock[t] = NoProc
  BY <1>1, <1>10 DEF Locked, HoldsRow, Resolving, IInv, TypeOK, SessionIsSound
<1>12. \A q \in Procs : session[q].pc # "lockPending"
  BY <1>1, <1>11, RequestTyped DEF Ready, RowFree, SessionIsSound
<1>13. \A q \in Procs : session[q].pc # "insertWallet"
  BY <1>10 DEF Ready, Creating, Creates
<1>14. \A q \in Procs : ~session[q].claim
  BY <1>1, <1>10, <1>12, <1>13 DEF Stories, StoryOf, Origin
<1>15. QED
  BY <1>10, <1>12, <1>13, <1>14 DEF Ready, Claiming

\* However ProcessTransactionWithInbox, ResolvePendingReference and Execute interleave on
\* any number of connections, one of the open calls can always go on.
THEOREM DeadlockFree == Spec => []NoDeadlock
<1>1. Init /\ [][Next]_vars => [](IInv /\ Once /\ Stories /\ Tables /\ Answers /\ Locked)
  BY StoriesHold, TablesHold, AnswersHold, LocksHold, PTL DEF Spec
<1>2. QED
  BY <1>1, SomebodyIsReady, PTL DEF Spec

-----------------------------------------------------------------------------
(***************************************************************************)
(* What the callers of the use cases may rely on, for every number of      *)
(* them: the endpoint keeps providers apart and takes no final answer      *)
(* back, and the SQS workers delete no message before what it asks for is  *)
(* stored, which is why they keep the order of the queue's groups.         *)
(*                                                                         *)
(* Every step of HttpApi or SqsConsumer is one of WagerLedger or leaves it *)
(* alone, so whatever is proved of the use cases holds behind them.  Of    *)
(* the use cases one more thing is needed: why each answer was given.      *)
(***************************************************************************)
(* Why a call is answered as it is *)

StoredIn(rows, r) ==
  \E t \in TxIds : rows[t] # NoRow /\ PayloadHash(rows[t].req) = PayloadHash(r)
KnownIn(rows, r) == \E t \in TxIds : rows[t] # NoRow /\ Clash(rows[t].req, r)

\* Another transaction stands where r would.
TakenIn(rows, r) ==
  \E t \in TxIds : rows[t] # NoRow /\ Clash(rows[t].req, r) /\ rows[t].req # r

\* A call carries what it was asked, and its answer speaks of that.
Asked(s) ==
  /\ s.pc # "replied" => s.reply = NoReply
  /\ s.reply.row # NoRow => s.reply.row.req.ext = s.req.ext
  /\ s.msg # NoMsg => s.msg \in Msgs /\ s.op = "wager" /\ s.req = Body[s.msg]

\* What the tables hold when a wager is answered "ok" or CONFLICT.
Explained(rows, s) ==
  s.op = "wager" =>
    /\ s.pc \in {"findExternal", "findKey"} /\ s.row # NoRow => KnownIn(rows, s.req)
    /\ s.reply.code = "ok"       => StoredIn(rows, s.req)
    /\ s.reply.code = "CONFLICT" => TakenIn(rows, s.req)

Justified == \A p \in Procs : Asked(session[p]) /\ Explained(txs, session[p])

\* What explains an answer goes on explaining it.
LEMMA ExplanationStays ==
  ASSUME IInv, Once, Stories, Tables, [Next]_vars, NEW s, Explained(txs, s)
  PROVE  Explained(txs', s)
<1>1. \A t \in TxIds : txs[t] # NoRow => txs'[t] # NoRow /\ txs'[t].req = txs[t].req
  BY RowsStay
<1>2. \A r : /\ StoredIn(txs, r) => StoredIn(txs', r)
             /\ KnownIn(txs, r) => KnownIn(txs', r)
             /\ TakenIn(txs, r) => TakenIn(txs', r)
  BY <1>1 DEF StoredIn, KnownIn, TakenIn
<1>3. QED
  BY <1>2 DEF Explained

-----------------------------------------------------------------------------
(* Each statement, seen from the call that executes it *)

\* The call goes on; if it looks again for what it met, that was there.
GoesOn(s, n) ==
  /\ n.op = s.op /\ n.req = s.req /\ n.msg = s.msg /\ n.reply = s.reply
  /\ n.pc # "replied"
  /\ n.op = "wager" /\ n.pc \in {"findExternal", "findKey"} /\ n.row # NoRow =>
       KnownIn(txs, s.req)

\* The call ends in an error the tables explain.
Fails(s, n) ==
  \E code : /\ n = Failed(s, code)
            /\ s.op = "wager" => code # "ok" /\ (code = "CONFLICT" => TakenIn(txs, s.req))

LEMMA EndedFields ==
  ASSUME NEW s, NEW reply
  PROVE  LET n == Ended(s, reply)
         IN  /\ n.op = s.op /\ n.req = s.req /\ n.msg = s.msg /\ n.reply = reply
             /\ n.pc = "replied"
BY DEF Ended, Started, IdleSession

LEMMA GoesOnExplained ==
  ASSUME NEW s, NEW n, Asked(s), s.pc # "replied", GoesOn(s, n)
  PROVE  Asked(n) /\ Explained(txs, n)
BY DEF GoesOn, Asked, Explained, NoReply

LEMMA FailsExplained ==
  ASSUME NEW s, NEW n, Asked(s), Fails(s, n)
  PROVE  Asked(n) /\ Explained(txs, n)
<1>1. PICK code : /\ n = Failed(s, code)
                  /\ s.op = "wager" => code # "ok" /\ (code = "CONFLICT" => TakenIn(txs, s.req))
  BY DEF Fails
<1>2. /\ n.op = s.op /\ n.req = s.req /\ n.msg = s.msg /\ n.pc = "replied"
      /\ n.reply = [NoReply EXCEPT !.code = code]
  BY <1>1, EndedFields DEF Failed
<1>3. n.reply.code = code /\ n.reply.row = NoRow
  BY <1>2 DEF NoReply
<1>4. QED
  BY <1>1, <1>2, <1>3 DEF Asked, Explained

LEMMA RolledBackFails ==
  ASSUME TypeOK, NEW p \in Procs, NEW code, Rollback(p, code),
         session[p].op = "wager" =>
           code # "ok" /\ (code = "CONFLICT" => TakenIn(txs, session[p].req))
  PROVE  Fails(session[p], session'[p])
<1>1. session'[p] = Failed(session[p], code)
  BY DEF Rollback, Become, TypeOK
<1>2. QED
  BY <1>1 DEF Fails

\* What a lookup compares with the request and finds different stands in its way.
LEMMA ConflictTaken ==
  ASSUME NEW r, NEW t \in TxIds, txs[t] # NoRow, txs[t].req.ext = r.ext \/ txs[t].req.key = r.key,
         PayloadHash(txs[t].req) # PayloadHash(r)
  PROVE  TakenIn(txs, r)
BY DEF TakenIn, Clash

LEMMA LookupSteps ==
  ASSUME TypeOK, Rest, NEW p \in Procs, Explained(txs, session[p]),
         SaveInbox(p) \/ FindConsumed(p) \/ FindExternal(p) \/ FindKey(p)
  PROVE  GoesOn(session[p], session'[p]) \/ Fails(session[p], session'[p])
<1> DEFINE s == session[p]
<1>a. s \in Sessions /\ SessionIsSound(s) /\ s.op = "wager"
  BY Acting, SessionFields DEF SessionIsSound, SaveInbox, FindConsumed, FindExternal, FindKey, At
<1>b. \A n : Become(p, n) => session'[p] = n
  BY DEF Become, TypeOK
<1>1. ASSUME NEW e, Replay(p, e)
      PROVE  GoesOn(s, session'[p])
  BY <1>1, <1>a, <1>b DEF Replay, GoesOn, Sessions
<1>2. CASE SaveInbox(p)
  <2>1. s.row = NoRow
    BY <1>2, <1>a DEF SaveInbox, At, SessionIsSound
  <2>2. Become(p, [s EXCEPT !.pc = "findExternal", !.claim = TRUE]) => GoesOn(s, session'[p])
    BY <1>a, <1>b, <2>1 DEF GoesOn, Sessions
  <2>3. \A aborts : Become(p, [s EXCEPT !.pc = "findConsumed", !.aborted = aborts])
                      => GoesOn(s, session'[p])
    BY <1>a, <1>b, <2>1 DEF GoesOn, Sessions
  <2>4. QED
    BY <1>2, <2>2, <2>3 DEF SaveInbox
<1>3. CASE FindConsumed(p)
  <2>1. \A found : Become(p, [s EXCEPT !.pc = "lockExisting", !.found = found])
                     => GoesOn(s, session'[p])
    BY <1>a, <1>b DEF GoesOn, Sessions
  <2>2. QED
    BY <1>3, <2>1 DEF FindConsumed
<1>4. CASE FindExternal(p)
  <2> DEFINE e == FindByExternalID(s.req.ext)
  <2>1. s.pc = "findExternal"
    BY <1>4 DEF FindExternal, At
  <2>2. Become(p, [s EXCEPT !.pc = "findKey"]) => GoesOn(s, session'[p])
    BY <1>a, <1>b, <2>1 DEF GoesOn, Sessions, Explained
  <2>3. Conflict(p, e) => Fails(s, session'[p])
    <3>1. SUFFICES ASSUME Conflict(p, e) PROVE Fails(s, session'[p])
      OBVIOUS
    <3>2. e # NoRow /\ PayloadHash(e.req) # PayloadHash(s.req) /\ Rollback(p, "CONFLICT")
      BY <3>1 DEF Conflict
    <3>3. PICK t \in TxIds : txs[t] # NoRow /\ txs[t] = e /\ txs[t].req.ext = s.req.ext
      BY <3>2, LookupFinds
    <3>4. TakenIn(txs, s.req)
      BY <3>2, <3>3, ConflictTaken
    <3>5. QED
      BY <3>2, <3>4, RolledBackFails
  <2>4. QED
    BY <1>1, <1>4, <2>2, <2>3 DEF FindExternal
<1>5. CASE FindKey(p)
  <2> DEFINE e == FindByIdempotencyKey(s.req.key)
  <2>1. s.pc = "findKey"
    BY <1>5 DEF FindKey, At
  <2>2. Become(p, [s EXCEPT !.pc = "lockWallet"]) => GoesOn(s, session'[p])
    BY <1>a, <1>b DEF GoesOn, Sessions
  <2>3. ASSUME NEW t \in TxIds, txs[t] # NoRow, txs[t].req.key = s.req.key
        PROVE  \E u \in TxIds : txs[u] # NoRow /\ txs[u].req.key = s.req.key /\ txs[u] = e
    <3>1. {u \in Stored : txs[u].req.key = s.req.key} # {}
      BY <2>3 DEF Stored
    <3>2. PICK u \in {u \in Stored : txs[u].req.key = s.req.key} : txs[u] = e
      BY <3>1 DEF FindByIdempotencyKey, TheRow
    <3>3. QED
      BY <3>2 DEF Stored
  <2>4. e # NoRow => \E u \in TxIds : txs[u] # NoRow /\ txs[u].req.key = s.req.key /\ txs[u] = e
    <3>1. {u \in Stored : txs[u].req.key = s.req.key} = {} => e = NoRow
      BY DEF FindByIdempotencyKey, TheRow
    <3>2. QED
      BY <2>3, <3>1 DEF Stored
  <2>5. Conflict(p, e) => TakenIn(txs, s.req) /\ Rollback(p, "CONFLICT")
    BY <2>4, ConflictTaken DEF Conflict
  <2>6. e = NoRow /\ s.row # NoRow => TakenIn(txs, s.req)
    <3>1. SUFFICES ASSUME e = NoRow, s.row # NoRow PROVE TakenIn(txs, s.req)
      OBVIOUS
    <3>2. PICK t \in TxIds : txs[t] # NoRow /\ Clash(txs[t].req, s.req)
      BY <1>a, <2>1, <3>1 DEF Explained, KnownIn
    <3>3. txs[t].req # s.req
      BY <2>3, <3>1, <3>2
    <3>4. QED
      BY <3>2, <3>3 DEF TakenIn
  <2>7. TakenIn(txs, s.req) /\ Rollback(p, "CONFLICT") => Fails(s, session'[p])
    BY RolledBackFails
  <2>8. QED
    BY <1>1, <1>5, <2>2, <2>5, <2>6, <2>7 DEF FindKey
<1>6. QED
  BY <1>2, <1>3, <1>4, <1>5

LEMMA DecisionSteps ==
  ASSUME TypeOK, Rest, NEW p \in Procs,
         \/ LockExisting(p) \/ LockWallet(p) \/ FindReference(p) \/ SaveTransaction(p)
         \/ StatementFails(p) \/ Fault(p)
  PROVE  GoesOn(session[p], session'[p]) \/ Fails(session[p], session'[p])
<1> DEFINE s == session[p]
<1>a. s \in Sessions /\ SessionIsSound(s)
  BY Acting
<1>b. \A n : Become(p, n) => session'[p] = n
  BY DEF Become, TypeOK
<1>c. ASSUME NEW code \in {"NOT_FOUND", "OWNER", "REFERENCE", "MONEY", "DATABASE", "FAULT"},
             Rollback(p, code)
      PROVE  Fails(s, session'[p])
  BY <1>c, RolledBackFails
<1>d. ASSUME NEW before, NEW after, NEW status, Decide(p, before, after, status)
      PROVE  GoesOn(s, session'[p])
  BY <1>a, <1>b, <1>d DEF Decide, GoesOn, Sessions
<1>1. CASE StatementFails(p) \/ Fault(p)
  BY <1>1, <1>c DEF StatementFails, Fault
<1>2. CASE LockExisting(p)
  BY <1>2, <1>a, <1>b DEF LockExisting, GoesOn, Sessions
<1>3. CASE LockWallet(p)
  <2> DEFINE w == s.req.wallet
  <2>1. Become(p, [s EXCEPT !.pc = "findReference", !.before = wallets[w]])
          => GoesOn(s, session'[p])
    BY <1>a, <1>b DEF GoesOn, Sessions
  <2>2. QED
    BY <1>3, <1>c, <1>d, <2>1 DEF LockWallet
<1>4. CASE FindReference(p)
  BY <1>4, <1>c, <1>d DEF FindReference
<1>5. CASE SaveTransaction(p)
  <2>1. Become(p, [s EXCEPT !.pc = "commit"]) => GoesOn(s, session'[p])
    BY <1>a, <1>b DEF GoesOn, Sessions
  <2>2. ASSUME NEW aborts, Duplicate(s.req),
               Become(p, [s EXCEPT !.pc = "findExternal", !.aborted = aborts])
        PROVE  GoesOn(s, session'[p])
    <3>1. KnownIn(txs, s.req)
      BY <2>2 DEF Duplicate, Stored, KnownIn
    <3>2. QED
      BY <1>a, <1>b, <2>2, <3>1 DEF GoesOn, Sessions
  <2>3. ASSUME s.op = "open", Rollback(p, "CONFLICT")
        PROVE  Fails(s, session'[p])
    BY <2>3, RolledBackFails
  <2>4. QED
    BY <1>5, <2>1, <2>2, <2>3 DEF SaveTransaction
<1>6. QED
  BY <1>1, <1>2, <1>3, <1>4, <1>5

\* Resolvers and creators of wallets answer nobody who asked for a wager.
LEMMA OtherCallsSteps ==
  ASSUME TypeOK, Rest, NEW p \in Procs,
         LockPending(p) \/ FindPendingReference(p) \/ LockPendingWallet(p) \/ InsertWallet(p)
  PROVE  GoesOn(session[p], session'[p]) \/ Fails(session[p], session'[p])
<1> DEFINE s == session[p]
<1>a. s \in Sessions /\ s.op # "wager"
  BY Acting, SessionFields
     DEF SessionIsSound, LockPending, FindPendingReference, LockPendingWallet, InsertWallet, At
<1>b. \A n : Become(p, n) => session'[p] = n
  BY DEF Become, TypeOK
<1>c. \A code : Rollback(p, code) => Fails(s, session'[p])
  BY <1>a, RolledBackFails
<1>1. CASE LockPending(p)
  <2>1. Become(p, Ended(s, [NoReply EXCEPT !.code = "ok"])) => Fails(s, session'[p])
    BY <1>a, <1>b DEF Fails, Failed
  <2>2. \A row : Become(p, [s EXCEPT !.pc = "findPendingReference", !.row = row])
                   => GoesOn(s, session'[p])
    BY <1>a, <1>b DEF GoesOn, Sessions
  <2>3. QED
    BY <1>1, <2>1, <2>2 DEF LockPending
<1>2. CASE FindPendingReference(p)
  <2>1. \A pc \in {"commit", "lockPendingWallet"} :
          Become(p, [s EXCEPT !.pc = pc]) => GoesOn(s, session'[p])
    BY <1>a, <1>b DEF GoesOn, Sessions
  <2>2. Become(p, [s EXCEPT !.pc = "commit", !.row.status = "REJECTED"]) => GoesOn(s, session'[p])
    BY <1>a, <1>b DEF GoesOn, Sessions
  <2>3. QED
    BY <1>2, <2>1, <2>2 DEF FindPendingReference
<1>3. CASE LockPendingWallet(p)
  <2>1. \A before, after :
          Become(p, [s EXCEPT !.pc = "commit", !.row.status = "PROCESSED",
                              !.before = before, !.after = after]) => GoesOn(s, session'[p])
    BY <1>a, <1>b DEF GoesOn, Sessions
  <2>2. QED
    BY <1>3, <1>c, <2>1 DEF LockPendingWallet
<1>4. CASE InsertWallet(p)
  <2>1. \A after : Become(p, [s EXCEPT !.pc = "commit", !.after = after])
                     => GoesOn(s, session'[p])
    BY <1>a, <1>b DEF GoesOn, Sessions
  <2>2. \A after, row : Become(p, [s EXCEPT !.pc = "save", !.after = after, !.row = row])
                          => GoesOn(s, session'[p])
    BY <1>a, <1>b DEF GoesOn, Sessions
  <2>3. QED
    BY <1>4, <1>c, <2>1, <2>2 DEF InsertWallet
<1>5. QED
  BY <1>1, <1>2, <1>3, <1>4

\* What a successful commit answers, and what it leaves.
LEMMA CommitStores ==
  ASSUME IInv, Once, Stories, Answers, NEW p \in Procs, Commit(p), ~Stale(session[p])
  PROVE  LET s == session[p]
         IN  /\ s.op = "wager" => StoredIn(txs', s.req)
             /\ Answer(s).row # NoRow => Answer(s).row.req.ext = s.req.ext
<1> DEFINE s == session[p]
           t == TxId(s.req)
<1>a. TypeOK /\ Rest
  BY DEF IInv, Rest
<1>b. /\ SessionIsSound(s) /\ t \in TxIds /\ RowIsRight(s)
      /\ Writes(s) => s.row.req = s.req
  BY <1>a, CommitsOnce DEF Commit, At
<1>c. txs'[t] = IF Writes(s) THEN s.row ELSE txs[t]
  BY <1>a, <1>b, CommitChanges
<1>d. Answer(s).row = IF s.found # NoRow THEN s.found ELSE s.row
  BY DEF Answer
<1>1. CASE s.found # NoRow
  <2>1. StillThere(s, s.found, txs[t])
    BY <1>1 DEF Answers, Tellable
  <2>2. txs'[t] = txs[t]
    BY <1>1, <1>c DEF Writes
  <2>3. StoredIn(txs', s.req)
    BY <1>b, <2>1, <2>2 DEF StillThere, StoredIn
  <2>4. s.found.req.ext = s.req.ext
    BY <2>1 DEF StillThere, PayloadHash
  <2>5. QED
    BY <1>1, <1>d, <2>3, <2>4
<1>2. CASE s.found = NoRow
  <2>1. ASSUME s.op = "wager"
        PROVE  StoredIn(txs', s.req)
    <3>1. s.row # NoRow
      BY <1>2, <2>1 DEF Stories, StoryOf, Decision, WagerDecided, Commit, At
    <3>2. txs'[t] = s.row /\ s.row.req = s.req
      BY <1>2, <1>b, <1>c, <3>1 DEF Writes
    <3>3. QED
      BY <1>b, <3>1, <3>2 DEF StoredIn
  <2>2. QED
    BY <1>2, <1>b, <1>d, <2>1 DEF Writes
<1>3. QED
  BY <1>1, <1>2

LEMMA CommitExplained ==
  ASSUME IInv, Once, Stories, Tables, Answers, [Next]_vars, NEW p \in Procs, Commit(p),
         Asked(session[p])
  PROVE  Asked(session'[p]) /\ Explained(txs', session'[p])
<1> DEFINE s == session[p]
           n == session'[p]
<1>a. TypeOK /\ s.req \in Requests
  BY CommitsOnce DEF IInv, Rest, Commit, At
<1>b. \A m : Become(p, m) => n = m
  BY <1>a DEF Become, TypeOK
<1>1. ASSUME Fails(s, n)
      PROVE  Asked(n) /\ Explained(txs', n)
  <2>1. Asked(n) /\ Explained(txs, n)
    BY <1>1, FailsExplained
  <2>2. n.req = s.req
    BY <1>1, EndedFields DEF Fails, Failed
  <2>3. QED
    BY <1>a, <2>1, <2>2, ExplanationStays
<1>2. CASE Stale(s)
  BY <1>a, <1>1, <1>2, RolledBackFails DEF Commit
<1>3. CASE ~Stale(s)
  <2>1. CASE Become(p, Failed(s, "FAULT"))
    BY <1>1, <1>b, <2>1 DEF Fails
  <2>2. CASE Become(p, Ended(s, Answer(s)))
    <3>1. /\ n.op = s.op /\ n.req = s.req /\ n.msg = s.msg /\ n.reply = Answer(s)
          /\ n.pc = "replied"
      BY <1>b, <2>2, EndedFields
    <3>2. Answer(s).code = "ok"
      BY Zenon DEF Answer
    <3>3. Explained(txs', n)
      BY <1>3, <3>1, <3>2, CommitStores DEF Explained
    <3>4. Asked(n)
      BY <1>3, <3>1, CommitStores DEF Asked
    <3>5. QED
      BY <3>3, <3>4
  <2>3. QED
    BY <1>3, <2>1, <2>2 DEF Commit
<1>4. QED
  BY <1>2, <1>3

LEMMA BeginExplained ==
  ASSUME TypeOK, NEW p \in Procs, Begin(p) \/ Return(p)
  PROVE  Asked(session'[p]) /\ Explained(txs, session'[p])
<1> DEFINE n == session'[p]
<1>a. \A m : Become(p, m) => n = m
  BY DEF Become, TypeOK
<1>1. ASSUME NEW op, NEW r, NEW m, NEW pc, Become(p, Started(op, r, m, pc)),
             m # NoMsg => m \in Msgs /\ op = "wager" /\ r = Body[m]
      PROVE  Asked(n) /\ Explained(txs, n)
  <2>1. n.op = op /\ n.req = r /\ n.msg = m /\ n.reply = NoReply /\ n.row = NoRow
    BY <1>a, <1>1 DEF Started, IdleSession
  <2>2. QED
    BY <1>1, <2>1 DEF Asked, Explained, NoReply
<1>2. ASSUME NEW r, NEW m, Become(p, Failed(Started("wager", r, m, "idle"), "INVALID")),
             m # NoMsg => m \in Msgs /\ r = Body[m]
      PROVE  Asked(n) /\ Explained(txs, n)
  <2> DEFINE s == Started("wager", r, m, "idle")
  <2>1. s.op = "wager" /\ s.req = r /\ s.msg = m /\ s.reply = NoReply
    BY DEF Started, IdleSession
  <2>2. n = Failed(s, "INVALID")
    BY <1>a, <1>2
  <2> HIDE DEF s
  <2>3. Asked(s) /\ Fails(s, n)
    BY <1>2, <2>1, <2>2 DEF Asked, Fails, NoReply
  <2>4. QED
    BY <2>3, FailsExplained
<1>3. ASSUME Return(p)
      PROVE  Asked(n) /\ Explained(txs, n)
  <2>1. n = IdleSession
    BY <1>3, <1>a DEF Return
  <2>2. QED
    BY <2>1 DEF IdleSession, Asked, Explained, NoReply
<1>4. ASSUME NEW r, NEW m \in Msgs \cup {NoMsg}, BeginWager(p, r, m) \/ RefuseInput(p, r, m),
             m # NoMsg => r = Body[m]
      PROVE  Asked(n) /\ Explained(txs, n)
  BY <1>1, <1>2, <1>4 DEF BeginWager, RefuseInput
<1>5. ASSUME NEW t \in TxIds, BeginResolve(p, t)
      PROVE  Asked(n) /\ Explained(txs, n)
  BY <1>1, <1>5 DEF BeginResolve
<1>6. ASSUME NEW o \in Openings, BeginOpen(p, o)
      PROVE  Asked(n) /\ Explained(txs, n)
  BY <1>1, <1>6 DEF BeginOpen
<1>7. QED
  BY <1>3, <1>4, <1>5, <1>6 DEF Begin

LEMMA InitJustified == Init => Justified
<1> SUFFICES ASSUME Init PROVE Justified
  OBVIOUS
<1>1. \A p \in Procs : session[p] = IdleSession
  BY DEF Init
<1>2. Asked(IdleSession) /\ Explained(txs, IdleSession)
  BY DEF Asked, Explained, IdleSession, NoReply
<1>3. QED
  BY <1>1, <1>2 DEF Justified

LEMMA StepJustified ==
  IInv /\ Once /\ Stories /\ Tables /\ Answers /\ Justified /\ [Next]_vars => Justified'
<1> SUFFICES ASSUME IInv, Once, Stories, Tables, Answers, Justified, [Next]_vars
             PROVE  Justified'
  OBVIOUS
<1>1. TypeOK /\ Rest
  BY DEF IInv, Rest
<1>2. ASSUME NEW s, Explained(txs, s)
      PROVE  Explained(txs', s)
  BY <1>2, ExplanationStays
<1>3. ASSUME NEW p \in Procs, Begin(p) \/ Step(p) \/ Fault(p)
      PROVE  Asked(session'[p]) /\ Explained(txs', session'[p])
  <2> DEFINE s == session[p]
             n == session'[p]
  <2>1. Asked(s) /\ Explained(txs, s)
    BY DEF Justified
  <2>2. CASE Commit(p)
    BY <2>1, <2>2, CommitExplained
  <2>3. CASE (s.pc # "replied" /\ GoesOn(s, n)) \/ Fails(s, n)
    <3>1. Asked(n) /\ Explained(txs, n)
      BY <2>1, <2>3, GoesOnExplained, FailsExplained
    <3>2. QED
      BY <1>2, <3>1
  <2>4. CASE Begin(p) \/ Return(p)
    BY <1>1, <1>2, <2>4, BeginExplained
  <2>5. CASE StatementFails(p)
    BY <1>1, <2>3, <2>5, RolledBackFails DEF StatementFails
  <2>6. CASE \/ SaveInbox(p) \/ FindConsumed(p) \/ FindExternal(p) \/ FindKey(p)
             \/ LockExisting(p) \/ LockWallet(p) \/ FindReference(p) \/ SaveTransaction(p)
             \/ LockPending(p) \/ FindPendingReference(p) \/ LockPendingWallet(p)
             \/ InsertWallet(p) \/ Fault(p)
    <3>1. GoesOn(s, n) \/ Fails(s, n)
      BY <1>1, <2>1, <2>6, LookupSteps, DecisionSteps, OtherCallsSteps
    <3>2. s.pc # "replied"
      BY <2>6 DEF SaveInbox, FindConsumed, FindExternal, FindKey, LockExisting,
         LockWallet, FindReference, SaveTransaction, LockPending, FindPendingReference,
         LockPendingWallet, InsertWallet, Fault, At
    <3>3. QED
      BY <2>3, <3>1, <3>2
  <2>7. QED
    BY <1>3, <2>2, <2>4, <2>5, <2>6 DEF Step
<1>4. \A q \in Procs : Asked(session'[q]) /\ Explained(txs', session'[q])
  <2>1. SUFFICES ASSUME NEW q \in Procs
                 PROVE  Asked(session'[q]) /\ Explained(txs', session'[q])
    OBVIOUS
  <2>2. CASE session'[q] = session[q]
    BY <1>2, <2>2 DEF Justified
  <2>3. ASSUME NEW p \in Procs, Begin(p) \/ Step(p) \/ Fault(p)
        PROVE  q = p \/ session'[q] = session[q]
    BY <1>1, <2>3, OthersWait
  <2>4. QED
    BY <1>3, <2>2, <2>3 DEF Next, vars
<1>5. QED
  BY <1>4 DEF Justified

\* All that is known of the use cases, whoever calls them.
LedgerInvariant == /\ IInv /\ Once /\ Stories /\ Tables /\ Answers
                   /\ Justified

LEMMA LedgerInvariantHolds == Spec => []LedgerInvariant
<1>1. Init /\ [][Next]_vars => [](IInv /\ Once /\ Stories /\ Tables /\ Answers)
  BY StoriesHold, TablesHold, AnswersHold, PTL DEF Spec
<1>2. QED
  BY <1>1, InitJustified, StepJustified, PTL DEF Spec, LedgerInvariant

\* Until it returns, a call is about what it was asked.
LEMMA RequestStays ==
  ASSUME LedgerInvariant, NEW p \in Procs, Step(p) \/ Fault(p), session[p].pc # "replied"
  PROVE  session'[p].op = session[p].op /\ session'[p].req = session[p].req
<1> DEFINE s == session[p]
           n == session'[p]
<1>1. TypeOK /\ Rest /\ Explained(txs, s)
  BY DEF LedgerInvariant, IInv, Rest, Justified
<1>2. GoesOn(s, n) \/ Fails(s, n) => n.op = s.op /\ n.req = s.req
  <2>1. \A code : Failed(s, code).op = s.op /\ Failed(s, code).req = s.req
    BY EndedFields DEF Failed
  <2>2. QED
    BY <2>1 DEF GoesOn, Fails
<1>3. ASSUME Commit(p)
      PROVE  n.op = s.op /\ n.req = s.req
  <2>1. \A reply : Become(p, Ended(s, reply)) => n.op = s.op /\ n.req = s.req
    BY <1>1, EndedFields DEF Become, TypeOK
  <2>2. QED
    BY <1>3, <2>1 DEF Commit, Rollback, Failed
<1>4. ~Return(p)
  BY DEF Return
<1>5. QED
  BY <1>1, <1>2, <1>3, <1>4, LookupSteps, DecisionSteps, OtherCallsSteps DEF Step

-----------------------------------------------------------------------------
(* The endpoint *)

LEMMA ApiSteps == [ApiNext]_apiAll => [Next]_vars
<1>1. UNCHANGED apiAll => UNCHANGED vars
  BY DEF apiAll
<1>2. ASSUME NEW p \in Procs,
             \/ \E c \in Clients, r \in HttpRequests : Post(p, c, r)
             \/ BeginOther(p) \/ Deliver(p) \/ Work(p) \/ Fault(p)
      PROVE  Begin(p) \/ Step(p) \/ Fault(p)
  BY <1>2 DEF Post, BeginOther, Deliver, Work, Respond, Begin, Step
<1>3. QED
  BY <1>1, <1>2 DEF ApiNext, Next

LEMMA ApiRuns == ApiSpec => []LedgerInvariant
<1>1. ApiSpec => Spec
  BY ApiSteps, PTL DEF ApiSpec, ApiInit, Spec
<1>2. QED
  BY <1>1, LedgerInvariantHolds, PTL

\* A call serves a client for as long as it works on the client's request.
Serving ==
  /\ client \in [Procs -> Clients \cup {NoClient}]
  /\ \A p \in Procs : client[p] # NoClient =>
       /\ session[p].op = "wager"
       /\ ProviderOf[session[p].req.ext] = Identity[client[p]]

\* A request accepted is stored; in the place of one refused stands another.
FinalAnswers ==
  /\ accepted \subseteq Requests /\ refused \subseteq Requests
  /\ \A r \in accepted : StoredIn(txs, r)
  /\ \A r \in refused : TakenIn(txs, r)

LEMMA ServingKept ==
  ASSUME LedgerInvariant, Serving, [ApiNext]_apiAll
  PROVE  Serving'
<1> DEFINE Kept(p) == /\ client' \in [Procs -> Clients \cup {NoClient}]
                      /\ \A q \in Procs \ {p} : client'[q] = client[q]
                      /\ client'[p] # NoClient =>
                           /\ session'[p].op = "wager"
                           /\ ProviderOf[session'[p].req.ext] = Identity[client'[p]]
<1>1. TypeOK /\ Rest
  BY DEF LedgerInvariant, IInv, Rest
<1>2. CASE UNCHANGED apiAll
  BY <1>2 DEF apiAll, vars, apiVars, Serving
<1>3. ASSUME NEW p \in Procs, NEW c \in Clients, NEW r \in HttpRequests, Post(p, c, r)
      PROVE  Kept(p)
  <2>1. client' = [client EXCEPT ![p] = c]
    BY <1>3 DEF Post
  <2>2. session'[p].op = "wager" /\ session'[p].req = r
    <3>1. \A pc, code : /\ Started("wager", r, NoMsg, pc).op = "wager"
                        /\ Started("wager", r, NoMsg, pc).req = r
                        /\ Failed(Started("wager", r, NoMsg, pc), code).op = "wager"
                        /\ Failed(Started("wager", r, NoMsg, pc), code).req = r
      BY DEF Started, Failed, Ended, IdleSession
    <3>2. QED
      BY <1>1, <1>3, <3>1 DEF Post, BeginWager, RefuseInput, Become, TypeOK
  <2>3. ProviderOf[r.ext] = Identity[c]
    BY <1>3 DEF Post, Authorized
  <2>4. QED
    BY <2>1, <2>2, <2>3 DEF Serving
<1>4. ASSUME NEW p \in Procs, Step(p) \/ Fault(p), UNCHANGED apiVars,
             session[p].pc # "replied" \/ client[p] = NoClient
      PROVE  Kept(p)
  BY <1>4, RequestStays DEF Serving, apiVars
<1>5. ASSUME NEW p \in Procs, session[p].pc = "idle", UNCHANGED apiVars
      PROVE  Kept(p)
  BY <1>1, <1>5, Acting DEF Serving, apiVars
<1>6. ASSUME NEW p \in Procs, Respond(p)
      PROVE  Kept(p)
  BY <1>6 DEF Respond, Serving
<1>7. ASSUME NEW p \in Procs, Kept(p), Begin(p) \/ Step(p) \/ Fault(p)
      PROVE  Serving'
  <2>1. \A q \in Procs \ {p} : session'[q] = session[q]
    BY <1>1, <1>7, OthersWait
  <2>2. QED
    BY <1>7, <2>1 DEF Serving
<1> HIDE DEF Kept
<1>8. ASSUME NEW p \in Procs,
             \/ \E c \in Clients, r \in HttpRequests : Post(p, c, r)
             \/ BeginOther(p) \/ Deliver(p) \/ Work(p) \/ (Fault(p) /\ UNCHANGED apiVars)
      PROVE  Kept(p) /\ (Begin(p) \/ Step(p) \/ Fault(p))
  <2>1. CASE \E c \in Clients, r \in HttpRequests : Post(p, c, r)
    BY <1>3, <2>1 DEF Post, Begin
  <2>2. CASE BeginOther(p) \/ Deliver(p)
    BY <1>5, <2>2
    DEF BeginOther, Deliver, BeginResolve, BeginOpen, BeginWager, RefuseInput, Begin
  <2>3. CASE Work(p)
    BY <1>4, <1>6, <2>3 DEF Work, Respond, Step
  <2>4. CASE Fault(p) /\ UNCHANGED apiVars
    BY <1>4, <2>4 DEF Fault
  <2>5. QED
    BY <1>8, <2>1, <2>2, <2>3, <2>4
<1>9. QED
  BY <1>2, <1>7, <1>8 DEF ApiNext

LEMMA FinalAnswersKept ==
  ASSUME LedgerInvariant, Serving, FinalAnswers, [ApiNext]_apiAll
  PROVE  FinalAnswers'
<1>1. TypeOK /\ Rest /\ [Next]_vars
  BY ApiSteps DEF LedgerInvariant, IInv, Rest
<1>2. \A t \in TxIds : txs[t] # NoRow => txs'[t] # NoRow /\ txs'[t].req = txs[t].req
  BY <1>1, RowsStay DEF LedgerInvariant
<1>3. \A r : /\ StoredIn(txs, r) => StoredIn(txs', r)
             /\ TakenIn(txs, r) => TakenIn(txs', r)
  BY <1>2 DEF StoredIn, TakenIn
<1>4. CASE UNCHANGED <<accepted, refused>>
  BY <1>3, <1>4 DEF FinalAnswers
<1>5. ASSUME NEW p \in Procs, Respond(p)
      PROVE  FinalAnswers'
  <2> DEFINE s == session[p]
  <2>1. s.op = "wager" /\ s.pc = "replied" /\ s.req \in Requests
    BY <1>1, <1>5, Acting DEF Respond, Return, Serving, SessionIsSound
  <2>2. Explained(txs, s)
    BY DEF LedgerInvariant, Justified
  <2>3. Status(s) = 200 => s.reply.code = "ok"
    BY DEF Status
  <2>4. Status(s) = 409 => s.reply.code = "CONFLICT"
    BY DEF Status
  <2>5. /\ Status(s) = 200 => StoredIn(txs, s.req)
        /\ Status(s) = 409 => TakenIn(txs, s.req)
    BY <2>1, <2>2, <2>3, <2>4 DEF Explained
  <2>6. /\ accepted' = accepted \cup {r \in {s.req} : Status(s) = 200}
        /\ refused' = refused \cup {r \in {s.req} : Status(s) = 409}
    BY <1>5 DEF Respond
  <2>7. /\ accepted' \subseteq Requests /\ refused' \subseteq Requests
        /\ \A r \in accepted' : StoredIn(txs, r)
        /\ \A r \in refused' : TakenIn(txs, r)
    BY <2>1, <2>5, <2>6 DEF FinalAnswers
  <2>8. QED
    BY <1>3, <2>7 DEF FinalAnswers
<1>6. \/ UNCHANGED <<accepted, refused>>
      \/ \E p \in Procs : Respond(p)
  BY DEF ApiNext, apiAll, apiVars, Post, BeginOther, Deliver, Work
<1>7. QED
  BY <1>4, <1>5, <1>6

LEMMA ApiInvariant == ApiSpec => [](LedgerInvariant /\ Serving /\ FinalAnswers)
<1>1. ApiInit => Serving /\ FinalAnswers
  BY DEF ApiInit, Serving, FinalAnswers
<1>2. LedgerInvariant /\ Serving /\ FinalAnswers /\ [ApiNext]_apiAll => (Serving /\ FinalAnswers)'
  BY ServingKept, FinalAnswersKept
<1>3. QED
  BY <1>1, <1>2, ApiRuns, PTL DEF ApiSpec

\* The provider check of processTransaction holds for the whole call: what it builds,
\* finds and answers is its provider's, although lookups by key know no providers.
THEOREM ProvidersStayApart == ApiSpec => []ProvidersAreIsolated
<1>1. LedgerInvariant /\ Serving => ProvidersAreIsolated
  <2> SUFFICES ASSUME LedgerInvariant, Serving, NEW p \in Procs, client[p] # NoClient,
                      session[p].pc \in {"commit", "replied"},
                      NEW row \in {session[p].row, session[p].found, session[p].reply.row} \ {NoRow}
               PROVE  ProviderOf[row.req.ext] = Identity[client[p]]
    BY DEF ProvidersAreIsolated
  <2> DEFINE s == session[p]
  <2>1. s.row # NoRow => s.row.req = s.req
    BY DEF LedgerInvariant, Once, AllLinked, Linked, RowIsRight
  <2>2. s.found # NoRow => s.found.req.ext = s.req.ext
    BY DEF LedgerInvariant, Answers, Tellable, StillThere, PayloadHash
  <2>3. s.reply.row # NoRow => s.reply.row.req.ext = s.req.ext
    BY DEF LedgerInvariant, Justified, Asked
  <2>4. row.req.ext = s.req.ext
    BY <2>1, <2>2, <2>3
  <2>5. QED
    BY <2>4 DEF Serving
<1>2. QED
  BY <1>1, ApiInvariant, PTL

\* A 200 or 409 of the endpoint is never taken back: the request is stored for good, or can
\* never be, whoever sends it again, by whichever way.
THEOREM FinalAnswersLast == ApiSpec => []AnswersLast
<1>1. LedgerInvariant /\ FinalAnswers => AnswersLast
  <2> SUFFICES ASSUME LedgerInvariant, FinalAnswers PROVE AnswersLast
    OBVIOUS
  <2>1. \A r \in accepted : \E t \in Stored : PayloadHash(txs[t].req) = PayloadHash(r)
    BY DEF FinalAnswers, StoredIn, Stored
  <2>2. \A r \in refused, t \in Stored : txs[t].req # r
    BY DEF FinalAnswers, TakenIn, LedgerInvariant, Once, RowsAreApart, Stored
  <2>3. QED
    BY <2>1, <2>2 DEF AnswersLast
<1>2. QED
  BY <1>1, ApiInvariant, PTL

-----------------------------------------------------------------------------
(* The queue *)

LEMMA SqsSteps == [SqsNext]_allVars => [Next]_vars
<1>1. UNCHANGED allVars => UNCHANGED vars
  BY DEF allVars, apiAll
<1>2. ASSUME NEW m \in Msgs, Send(m) \/ Expire(m) \/ Redrive(m)
      PROVE  UNCHANGED vars
  BY <1>2 DEF Send, Expire, Redrive, apiAll
<1>3. ASSUME NEW p \in Procs,
             \/ \E m \in Msgs : Receive(p, m)
             \/ \E c \in Clients, r \in HttpRequests : Post(p, c, r)
             \/ BeginOther(p) \/ Fault(p) \/ Proceed(p)
      PROVE  Begin(p) \/ Step(p) \/ Fault(p)
  BY <1>3 DEF Receive, Post, BeginOther, Proceed, Work, Respond, Finish, Begin, Step
<1>4. QED
  BY <1>1, <1>2, <1>3 DEF SqsNext, Next

LEMMA SqsRuns == SqsSpec => []LedgerInvariant
<1>1. SqsSpec => Spec
  BY SqsSteps, PTL DEF SqsSpec, SqsInit, ApiInit, Spec
<1>2. QED
  BY <1>1, LedgerInvariantHolds, PTL

\* What the workers and the queue do to the queue.
QueueSteps ==
  \/ UNCHANGED queueVars
  \/ \E m \in Msgs : Send(m) \/ Expire(m) \/ Redrive(m)
  \/ \E m \in Msgs : /\ First(m) /\ receptions[m] < MaxReceive
                     /\ hidden' = hidden \cup {m}
                     /\ receptions' = [receptions EXCEPT ![m] = @ + 1]
                     /\ UNCHANGED <<sent, deleted, dead>>
  \/ \E m \in Msgs : /\ m \in InQueue /\ IsStored(m)
                     /\ hidden' = hidden \ {m} /\ deleted' = deleted \cup {m}
                     /\ UNCHANGED <<sent, receptions, dead>>

\* A worker deletes a message only on an answer that names what is stored.
LEMMA SqsQueueSteps ==
  ASSUME LedgerInvariant, [SqsNext]_allVars
  PROVE  QueueSteps
<1>1. ASSUME NEW p \in Procs, Finish(p)
      PROVE  QueueSteps
  <2> DEFINE s == session[p]
  <2>1. CASE UNCHANGED <<hidden, deleted>>
    BY <1>1, <2>1 DEF Finish, QueueSteps, queueVars
  <2>2. CASE /\ Succeeded(p) /\ s.msg \in InQueue
             /\ hidden' = hidden \ {s.msg} /\ deleted' = deleted \cup {s.msg}
    <3>1. s.msg \in Msgs /\ s.op = "wager" /\ s.req = Body[s.msg]
      BY <1>1 DEF Finish, LedgerInvariant, Justified, Asked
    <3>2. StoredIn(txs, s.req)
      BY <2>2, <3>1 DEF Succeeded, LedgerInvariant, Justified, Explained
    <3>3. IsStored(s.msg)
      BY <3>1, <3>2 DEF StoredIn, IsStored, Stored
    <3>4. QED
      BY <1>1, <2>2, <3>1, <3>3 DEF Finish, QueueSteps
  <2>3. QED
    BY <1>1, <2>1, <2>2 DEF Finish
<1>2. ASSUME NEW p \in Procs, NEW m \in Msgs, Receive(p, m)
      PROVE  QueueSteps
  BY <1>2 DEF Receive, QueueSteps
<1>3. ASSUME NEW p \in Procs, Proceed(p)
      PROVE  QueueSteps
  BY <1>1, <1>3 DEF Proceed, QueueSteps
<1>4. CASE UNCHANGED allVars
  BY <1>4 DEF allVars, QueueSteps
<1>5. QED
  BY <1>2, <1>3, <1>4 DEF SqsNext, QueueSteps

LEMMA SendAppends ==
  ASSUME sent \in Seq(Msgs), NEW m \in Msgs, sent' = Append(sent, m)
  PROVE  sent' \in Seq(Msgs) /\ Sent' = Sent \cup {m}
<1>1. /\ sent' \in Seq(Msgs) /\ Len(sent) \in Nat
      /\ DOMAIN sent = 1 .. Len(sent) /\ DOMAIN sent' = 1 .. Len(sent) + 1
      /\ \A i \in 1 .. Len(sent) : sent'[i] = sent[i]
      /\ sent'[Len(sent) + 1] = m
  OBVIOUS
<1>2. \A i \in 1 .. Len(sent) + 1 : i \in 1 .. Len(sent) \/ i = Len(sent) + 1
  BY <1>1
<1>3. QED
  BY <1>1, <1>2 DEF Sent

LEMMA QueueKept ==
  ASSUME QueueTypeOK, QueueSteps
  PROVE  QueueTypeOK'
<1>1. CASE UNCHANGED queueVars
  BY <1>1 DEF queueVars, QueueTypeOK, InQueue, Sent
<1>2. ASSUME NEW m \in Msgs, Send(m)
      PROVE  QueueTypeOK'
  BY <1>2, SendAppends DEF Send, QueueTypeOK, InQueue
<1>3. ASSUME NEW m \in Msgs, Expire(m)
      PROVE  QueueTypeOK'
  BY <1>3 DEF Expire, QueueTypeOK, InQueue, Sent
<1>4. ASSUME NEW m \in Msgs, Redrive(m)
      PROVE  QueueTypeOK'
  BY <1>4 DEF Redrive, First, QueueTypeOK, InQueue, Sent
<1>5. ASSUME NEW m \in Msgs, First(m), receptions[m] < MaxReceive,
             hidden' = hidden \cup {m}, receptions' = [receptions EXCEPT ![m] = @ + 1],
             UNCHANGED <<sent, deleted, dead>>
      PROVE  QueueTypeOK'
  <2>1. receptions[m] + 1 \in 0 .. MaxReceive
    BY <1>5, QueueAssumption DEF QueueTypeOK
  <2>2. receptions' \in [Msgs -> 0 .. MaxReceive]
    BY <1>5, <2>1 DEF QueueTypeOK
  <2>3. QED
    BY <1>5, <2>2 DEF First, QueueTypeOK, InQueue, Sent
<1>6. ASSUME NEW m \in Msgs, m \in InQueue,
             hidden' = hidden \ {m}, deleted' = deleted \cup {m},
             UNCHANGED <<sent, receptions, dead>>
      PROVE  QueueTypeOK'
  BY <1>6 DEF QueueTypeOK, InQueue, Sent
<1>7. QED
  BY <1>1, <1>2, <1>3, <1>4, <1>5, <1>6 DEF QueueSteps

\* processWagerEvent deletes after ProcessTransactionWithInbox has answered: a message
\* that is gone has left what it asks for, for good, although it may have been delivered
\* to several workers at once, which crashed, raced or lost the acknowledgement.
THEOREM DeletedStaysStored == SqsSpec => []DeletedIsStored
<1>1. SqsInit => DeletedIsStored
  BY QueueAssumption DEF SqsInit, DeletedIsStored, QueueTypeOK, Sent, InQueue
<1>2. LedgerInvariant /\ DeletedIsStored /\ [SqsNext]_allVars => DeletedIsStored'
  <2> SUFFICES ASSUME LedgerInvariant, DeletedIsStored, [SqsNext]_allVars
               PROVE  DeletedIsStored'
    OBVIOUS
  <2>1. QueueSteps /\ QueueTypeOK'
    BY SqsQueueSteps, QueueKept DEF DeletedIsStored
  <2>2. \A t \in TxIds : txs[t] # NoRow => txs'[t] # NoRow /\ txs'[t].req = txs[t].req
    BY SqsSteps, RowsStay DEF LedgerInvariant
  <2>3. \A m : IsStored(m) => IsStored(m)'
    BY <2>2 DEF IsStored, Stored
  <2>4. \A m \in deleted' : m \in deleted \/ IsStored(m)
    BY <2>1 DEF QueueSteps, queueVars, Send, Expire, Redrive
  <2>5. QED
    BY <2>1, <2>3, <2>4 DEF DeletedIsStored
<1>3. QED
  BY <1>1, <1>2, SqsRuns, PTL DEF SqsSpec

-----------------------------------------------------------------------------
(***************************************************************************)
(* The order of a group.  A message that has been received has nothing     *)
(* before it in its group that is still in the queue (Passed): a bet       *)
(* before it was deleted, and is stored then, or is dead.  A refund that   *)
(* finds no reference therefore waits for dead messages only (Orphan), and *)
(* goes on doing so in the database.                                       *)
(***************************************************************************)

\* What came before m in its group has left the queue.
Passed(m) ==
  \A b \in Msgs : Group[b] = Group[m] /\ Before(b, m) => b \in deleted \cup dead

\* The message of r's reference, if it came before r, is a dead letter.
Orphan(r) ==
  \A b \in Msgs :
    Body[b].ext = Body[r].ref /\ Group[b] = Group[r] /\ Before(b, r) => b \in dead

\* A call that is to store its message as a refund without reference.
Waiting(s) == s.msg # NoMsg /\ s.row # NoRow /\ s.row.status = "PENDING_REFERENCE"

\* t is the row of r, which waits for its reference.
Waits(rows, t, r) == /\ rows[t] # NoRow /\ rows[t].status = "PENDING_REFERENCE"
                     /\ PayloadHash(rows[t].req) = PayloadHash(Body[r])

CallsAreOrderly == \A p \in Procs : LET s == session[p] IN
                     /\ s.msg # NoMsg => s.msg \in Sent /\ Passed(s.msg)
                     /\ Waiting(s) => Orphan(s.msg)
RowsAreOrderly  == \A r \in Msgs, t \in TxIds : Waits(txs, t, r) => r \in Sent /\ Orphan(r)
Orderly         == CallsAreOrderly /\ RowsAreOrderly

\* The queue only grows at its end, and what has left it stays away.
LEMMA OrderStays ==
  ASSUME QueueTypeOK, QueueSteps
  PROVE  /\ Sent \subseteq Sent' /\ deleted \subseteq deleted' /\ dead \subseteq dead'
         /\ \A m \in Sent, b \in Msgs : Before(b, m)' => Before(b, m)
<1>1. CASE sent' = sent
  <2>1. deleted \subseteq deleted' /\ dead \subseteq dead'
    BY DEF QueueSteps, queueVars, Send, Expire, Redrive
  <2>2. QED
    BY <1>1, <2>1 DEF Sent, Before
<1>2. ASSUME NEW n \in Msgs, Send(n)
      PROVE  /\ Sent \subseteq Sent' /\ deleted \subseteq deleted' /\ dead \subseteq dead'
             /\ \A m \in Sent, b \in Msgs : Before(b, m)' => Before(b, m)
  <2>1. n \notin Sent /\ sent' = Append(sent, n) /\ UNCHANGED <<deleted, dead>>
    BY <1>2 DEF Send
  <2>2. Sent \subseteq Sent'
    BY <2>1, SendAppends DEF QueueTypeOK
  <2>3. /\ Len(sent) \in Nat
        /\ DOMAIN sent = 1 .. Len(sent) /\ DOMAIN sent' = 1 .. Len(sent) + 1
        /\ \A i \in 1 .. Len(sent) : sent'[i] = sent[i]
        /\ sent'[Len(sent) + 1] = n
    BY <2>1 DEF QueueTypeOK
  <2>4. ASSUME NEW m \in Sent, NEW b \in Msgs, Before(b, m)'
        PROVE  Before(b, m)
    <3>1. PICK i \in DOMAIN sent', j \in DOMAIN sent' : i < j /\ sent'[i] = b /\ sent'[j] = m
      BY <2>4 DEF Before
    <3>2. j # Len(sent) + 1
      BY <2>1, <2>3, <3>1
    <3>3. i \in 1 .. Len(sent) /\ j \in 1 .. Len(sent)
      BY <2>3, <3>1, <3>2
    <3>4. QED
      BY <2>3, <3>1, <3>3 DEF Before
  <2>5. QED
    BY <2>1, <2>2, <2>4
<1>3. sent' = sent \/ \E n \in Msgs : Send(n)
  BY DEF QueueSteps, queueVars, Expire, Redrive
<1>4. QED
  BY <1>1, <1>2, <1>3

LEMMA OrderlyStays ==
  ASSUME QueueTypeOK, QueueSteps, NEW m \in Sent
  PROVE  m \in Sent' /\ (Passed(m) => Passed(m)') /\ (Orphan(m) => Orphan(m)')
BY OrderStays DEF Passed, Orphan

\* FindByExternalID finds what is stored.
LEMMA StoredIsFound ==
  ASSUME NEW t \in Stored
  PROVE  FindByExternalID(txs[t].req.ext) # NoRow
<1> DEFINE found == {u \in Stored : txs[u].req.ext = txs[t].req.ext}
<1>1. (CHOOSE u \in found : TRUE) \in found
  BY t \in found
<1>2. QED
  BY <1>1 DEF FindByExternalID, TheRow, Stored

\* A message whose reference is not found waits for dead messages only.
LEMMA UnfoundIsOrphan ==
  ASSUME DeletedIsStored, NEW m \in Msgs, Passed(m), FindByExternalID(Body[m].ref) = NoRow
  PROVE  Orphan(m)
<1>1. SUFFICES ASSUME NEW b \in Msgs, Body[b].ext = Body[m].ref, Group[b] = Group[m],
                      Before(b, m), b \in deleted
               PROVE  FALSE
  BY DEF Passed, Orphan
<1>2. PICK t \in Stored : PayloadHash(txs[t].req) = PayloadHash(Body[b])
  BY <1>1 DEF DeletedIsStored, IsStored
<1>3. txs[t].req.ext = Body[m].ref
  BY <1>1, <1>2 DEF PayloadHash
<1>4. QED
  BY <1>3, StoredIsFound

-----------------------------------------------------------------------------
(* Each step keeps the order *)

\* A call's row becomes pending where its reference is not found, and nowhere else.
LEMMA WaitsAnew ==
  ASSUME LedgerInvariant, NEW p \in Procs, session[p].msg # NoMsg,
         Step(p) \/ Fault(p), Waiting(session'[p])
  PROVE  Waiting(session[p]) \/ FindByExternalID(session[p].req.ref) = NoRow
<1> DEFINE s == session[p]
           n == session'[p]
<1>1. TypeOK /\ Rest /\ Asked(s)
  BY DEF LedgerInvariant, IInv, Rest, Justified
<1>2. s \in Sessions /\ SessionIsSound(s) /\ s.op = "wager"
  BY <1>1, Acting DEF Asked
<1>3. ASSUME NEW reply, Become(p, Ended(s, reply))
      PROVE  FALSE
  BY <1>1, <1>3 DEF Become, TypeOK, Ended, Started, IdleSession, Waiting
<1>4. ~\E code : Rollback(p, code)
  BY <1>3 DEF Rollback, Failed
<1>5. ASSUME NEW m, Become(p, m), m.msg = s.msg, m.row = s.row
      PROVE  Waiting(s)
  BY <1>1, <1>5 DEF Become, TypeOK, Waiting
<1>6. ASSUME NEW before, NEW after, NEW status, Decide(p, before, after, status)
      PROVE  status = "PENDING_REFERENCE"
  BY <1>1, <1>2, <1>6 DEF Decide, Become, TypeOK, Sessions, Waiting
<1>7. CASE SaveInbox(p) \/ FindConsumed(p) \/ FindExternal(p) \/ FindKey(p)
  <2>1. ASSUME NEW aborts, Become(p, [s EXCEPT !.pc = "findConsumed", !.aborted = aborts])
        PROVE  Waiting(s)
    BY <1>2, <1>5, <2>1 DEF Sessions
  <2>2. ASSUME NEW pc, \/ Become(p, [s EXCEPT !.pc = pc])
                       \/ Become(p, [s EXCEPT !.pc = pc, !.claim = TRUE])
        PROVE  Waiting(s)
    BY <1>2, <1>5, <2>2 DEF Sessions
  <2>3. ASSUME NEW found, Become(p, [s EXCEPT !.pc = "lockExisting", !.found = found])
        PROVE  Waiting(s)
    BY <1>2, <1>5, <2>3 DEF Sessions
  <2>4. QED
    BY <1>4, <1>7, <2>1, <2>2, <2>3
    DEF SaveInbox, FindConsumed, FindExternal, FindKey, Replay, Conflict
<1>8. CASE LockExisting(p)
  BY <1>2, <1>5, <1>8 DEF LockExisting, Sessions
<1>9. CASE LockWallet(p)
  <2>1. ASSUME NEW before, Become(p, [s EXCEPT !.pc = "findReference", !.before = before])
        PROVE  Waiting(s)
    BY <1>2, <1>5, <2>1 DEF Sessions
  <2>2. QED
    BY <1>4, <1>6, <1>9, <2>1 DEF LockWallet
<1>10. CASE FindReference(p)
  BY <1>4, <1>6, <1>10 DEF FindReference
<1>11. CASE SaveTransaction(p)
  <2>1. ASSUME NEW pc, \/ Become(p, [s EXCEPT !.pc = pc])
                       \/ \E aborts : Become(p, [s EXCEPT !.pc = pc, !.aborted = aborts])
        PROVE  Waiting(s)
    BY <1>2, <1>5, <2>1 DEF Sessions
  <2>2. QED
    BY <1>4, <1>11, <2>1 DEF SaveTransaction
<1>12. CASE Commit(p)
  BY <1>3, <1>4, <1>12 DEF Commit, Failed
<1>13. CASE StatementFails(p) \/ Fault(p)
  BY <1>4, <1>13 DEF StatementFails, Fault
<1>14. CASE Return(p)
  BY <1>1, <1>14 DEF Return, Become, TypeOK, IdleSession, Waiting
<1>15. ~(LockPending(p) \/ FindPendingReference(p) \/ LockPendingWallet(p) \/ InsertWallet(p))
  BY <1>2 DEF LockPending, FindPendingReference, LockPendingWallet, InsertWallet, At,
     SessionIsSound
<1>16. QED
  BY <1>7, <1>8, <1>9, <1>10, <1>11, <1>12, <1>13, <1>14, <1>15 DEF Step

\* Until it returns, a call is about the message it was received with, if any.
LEMMA MessageStays ==
  ASSUME LedgerInvariant, NEW p \in Procs, Step(p) \/ Fault(p)
  PROVE  session'[p].msg \in {session[p].msg, NoMsg}
<1> DEFINE s == session[p]
           n == session'[p]
<1>1. TypeOK /\ Rest /\ Explained(txs, s)
  BY DEF LedgerInvariant, IInv, Rest, Justified
<1>2. \A reply : Become(p, Ended(s, reply)) => n.msg = s.msg
  BY <1>1, EndedFields DEF Become, TypeOK
<1>3. GoesOn(s, n) \/ Fails(s, n) => n.msg = s.msg
  <2>1. \A code : Failed(s, code).msg = s.msg
    BY EndedFields DEF Failed
  <2>2. QED
    BY <2>1 DEF GoesOn, Fails
<1>4. Commit(p) => n.msg = s.msg
  BY <1>2 DEF Commit, Rollback, Failed
<1>5. Return(p) => n.msg = NoMsg
  BY <1>1 DEF Return, Become, TypeOK, IdleSession
<1>6. QED
  BY <1>1, <1>3, <1>4, <1>5, LookupSteps, DecisionSteps, OtherCallsSteps DEF Step

\* The message of a call that begins.
LEMMA BegunMessage ==
  ASSUME TypeOK, NEW p \in Procs
  PROVE  /\ \A r, m : BeginWager(p, r, m) \/ RefuseInput(p, r, m) =>
                       session'[p].msg = m /\ session'[p].row = NoRow
         /\ (\E t \in TxIds : BeginResolve(p, t)) \/ (\E o \in Openings : BeginOpen(p, o)) =>
              session'[p].msg = NoMsg
<1>1. \A op, r, m, pc, code : /\ Started(op, r, m, pc).msg = m
                              /\ Started(op, r, m, pc).row = NoRow
                              /\ Failed(Started(op, r, m, pc), code).msg = m
                              /\ Failed(Started(op, r, m, pc), code).row = NoRow
  BY DEF Started, Failed, Ended, IdleSession
<1>2. QED
  BY <1>1 DEF BeginWager, RefuseInput, BeginResolve, BeginOpen, Become, TypeOK

\* Each step of the system, seen from one call.
LEMMA SqsCalls ==
  ASSUME LedgerInvariant, [SqsNext]_allVars, NEW p \in Procs
  PROVE  \/ session'[p] = session[p]
         \/ session'[p].msg = NoMsg
         \/ \E m \in Msgs : First(m) /\ session'[p].msg = m /\ session'[p].row = NoRow
         \/ Step(p) \/ Fault(p)
<1> DEFINE n == session'[p]
           Seen == \/ n = session[p] \/ n.msg = NoMsg
                   \/ \E m \in Msgs : First(m) /\ n.msg = m /\ n.row = NoRow
                   \/ Step(p) \/ Fault(p)
<1>1. TypeOK
  BY DEF LedgerInvariant, IInv
<1>2. UNCHANGED session => Seen
  OBVIOUS
<1>3. \A r, m : BeginWager(p, r, m) \/ RefuseInput(p, r, m) => n.msg = m /\ n.row = NoRow
  BY <1>1, BegunMessage
<1>4. BeginOther(p) => n.msg = NoMsg
  BY <1>1, BegunMessage DEF BeginOther
<1>5. ASSUME NEW q \in Procs, Begin(q) \/ Step(q) \/ Fault(q), q # p
      PROVE  n = session[p]
  BY <1>1, <1>5, OthersWait
<1>6. ASSUME NEW m \in Msgs, NEW q \in Procs, Receive(q, m)
      PROVE  Seen
  <2>1. Begin(q) /\ First(m)
    BY <1>6 DEF Receive, Begin
  <2>2. CASE q = p
    BY <1>3, <1>6, <2>1, <2>2 DEF Receive
  <2>3. QED
    BY <1>5, <2>1, <2>2
<1>7. ASSUME NEW q \in Procs, \E c \in Clients, r \in HttpRequests : Post(q, c, r)
      PROVE  Seen
  <2>1. Begin(q)
    BY <1>7 DEF Post, Begin
  <2>2. CASE q = p
    BY <1>3, <1>7, <2>2 DEF Post
  <2>3. QED
    BY <1>5, <2>1, <2>2
<1>8. ASSUME NEW q \in Procs, BeginOther(q)
      PROVE  Seen
  <2>1. Begin(q)
    BY <1>8 DEF BeginOther, Begin
  <2>2. CASE q = p
    BY <1>4, <1>8, <2>2
  <2>3. QED
    BY <1>5, <2>1, <2>2
<1>9. ASSUME NEW q \in Procs, Step(q) \/ Fault(q)
       PROVE  Seen
  BY <1>5, <1>9
<1>10. \A q \in Procs : Proceed(q) => Step(q)
  BY DEF Proceed, Work, Respond, Finish, Step
<1>11. \A m \in Msgs : Send(m) \/ Expire(m) \/ Redrive(m) => UNCHANGED session
  BY DEF Send, Expire, Redrive, apiAll, vars
<1>12. UNCHANGED allVars => UNCHANGED session
  BY DEF allVars, apiAll, vars
<1>13. QED
  BY <1>2, <1>6, <1>7, <1>8, <1>9, <1>10, <1>11, <1>12 DEF SqsNext

LEMMA CallsStayOrderly ==
  ASSUME LedgerInvariant, DeletedIsStored, CallsAreOrderly, [SqsNext]_allVars
  PROVE  CallsAreOrderly'
<1>1. QueueSteps /\ QueueTypeOK
  BY SqsQueueSteps DEF DeletedIsStored
<1>2. SUFFICES ASSUME NEW p \in Procs, NEW k, k = session'[p].msg, k # NoMsg
               PROVE  k \in Sent' /\ Passed(k)' /\ (Waiting(session'[p]) => Orphan(k)')
  BY DEF CallsAreOrderly, Waiting, Passed, Orphan
<1> DEFINE s == session[p]
           n == session'[p]
<1>3. SUFFICES k \in Sent /\ Passed(k) /\ (Waiting(n) => Orphan(k))
  BY <1>1, OrderlyStays
<1>4. CASE n = s
  BY <1>2, <1>4 DEF CallsAreOrderly
<1>5. CASE \E m \in Msgs : First(m) /\ n.msg = m /\ n.row = NoRow
  <2>1. PICK m \in Msgs : First(m) /\ n.msg = m /\ n.row = NoRow
    BY <1>5
  <2>2. \A b \in Msgs : Before(b, m) => b \in Sent
    BY DEF Before, Sent
  <2>3. m \in Sent /\ Passed(m)
    BY <2>1, <2>2 DEF First, InQueue, Passed
  <2>4. QED
    BY <1>2, <2>1, <2>3 DEF Waiting
<1>6. CASE Step(p) \/ Fault(p)
  <2>1. n.msg = s.msg
    BY <1>2, <1>6, MessageStays
  <2>2. s.msg \in Msgs /\ s.req = Body[s.msg]
    BY <1>2, <2>1 DEF LedgerInvariant, Justified, Asked
  <2>3. s.msg \in Sent /\ Passed(s.msg) /\ (Waiting(s) => Orphan(s.msg))
    BY <1>2, <2>1 DEF CallsAreOrderly
  <2>4. Waiting(n) => Waiting(s) \/ FindByExternalID(s.req.ref) = NoRow
    BY <1>2, <1>6, <2>1, WaitsAnew
  <2>5. QED
    BY <1>2, <2>1, <2>2, <2>3, <2>4, UnfoundIsOrphan
<1>7. QED
  BY <1>2, <1>4, <1>5, <1>6, SqsCalls

\* Rows change by commits only.
LEMMA OnlyCommitsWrite ==
  ASSUME NEW p \in Procs, Begin(p) \/ Step(p) \/ Fault(p)
  PROVE  Commit(p) \/ UNCHANGED txs
<1>1. \A code : Rollback(p, code) => UNCHANGED txs
  BY DEF Rollback, db
<1>2. QED
  BY <1>1 DEF Begin, BeginWager, RefuseInput, BeginResolve, BeginOpen, Step, SaveInbox,
     FindConsumed, FindExternal, FindKey, Replay, Conflict, LockExisting, LockRow, LockWallet,
     FindReference, SaveTransaction, LockPending, FindPendingReference, LockPendingWallet,
     InsertWallet, StatementFails, Fault, Return, db

\* The row of a refund that waits was there before, or its message's call stores it.
LEMMA CommitOfWaiting ==
  ASSUME LedgerInvariant, ByQueueAlone, NEW p \in Procs, Commit(p),
         NEW r \in Msgs, NEW t \in TxIds, Waits(txs', t, r)
  PROVE  Waits(txs, t, r) \/ (session[p].msg = r /\ Waiting(session[p]))
<1> DEFINE s == session[p]
<1>1. TypeOK /\ Rest /\ Once /\ StoryOf(txs, s) /\ s.pc = "commit"
  BY DEF LedgerInvariant, IInv, Rest, Stories, Commit, At
<1>2. CASE Stale(s)
  BY <1>2 DEF Commit, Rollback, db, Waits
<1>3. CASE ~Stale(s)
  <2>1. txs'[t] = IF Writes(s) /\ t = TxId(s.req) THEN s.row ELSE txs[t]
    BY <1>1, <1>3, CommitChanges
  <2>2. CASE ~(Writes(s) /\ t = TxId(s.req))
    BY <2>1, <2>2 DEF Waits
  <2>3. CASE Writes(s) /\ t = TxId(s.req)
    <3>1. /\ SessionIsSound(s) /\ s.row = txs'[t] /\ s.row.req = s.req /\ s.found = NoRow
          /\ s.op # "resolve" \/ /\ txs[t] # NoRow /\ txs[t].req = s.req
                                 /\ txs[t].status = "PENDING_REFERENCE"
      BY <1>1, <2>1, <2>3, CommitsOnce DEF Writes
    <3>2. s.row # NoRow /\ s.row.status = "PENDING_REFERENCE"
          /\ PayloadHash(s.req) = PayloadHash(Body[r])
      BY <3>1 DEF Waits
    <3>3. CASE s.op = "resolve"
      BY <3>1, <3>2, <3>3 DEF Waits
    <3>4. CASE s.op = "wager"
      <4>1. s.req.kind \in {"REFUND", "ROLLBACK"}
        BY <3>1, <3>2 DEF SessionIsSound
      <4>2. Body[r].kind \in {"REFUND", "ROLLBACK"}
        BY <3>2, <4>1 DEF PayloadHash
      <4>3. \/ s.req \in HttpRequests
            \/ s.msg \in Msgs /\ s.req = Body[s.msg]
        BY <1>1, <3>4 DEF StoryOf, Origin
      <4>4. s.msg = r
        BY <3>2, <4>2, <4>3 DEF ByQueueAlone
      <4>5. QED
        BY <3>2, <4>4, SessionAssumption DEF Waiting
    <3>5. s.op \in {"wager", "resolve"}
      <4>1. s.op \in {"none", "wager", "resolve", "open"} /\ s.op # "none"
        BY <1>1, Acting DEF Sessions
      <4>2. s.op # "open"
        BY <1>1, <3>2 DEF StoryOf, Decision
      <4>3. QED
        BY <4>1, <4>2
    <3>6. QED
      BY <3>3, <3>4, <3>5
  <2>4. QED
    BY <2>2, <2>3
<1>4. QED
  BY <1>2, <1>3

LEMMA RowsStayOrderly ==
  ASSUME LedgerInvariant, DeletedIsStored, Orderly, ByQueueAlone, [SqsNext]_allVars
  PROVE  RowsAreOrderly'
<1>1. QueueSteps /\ QueueTypeOK
  BY SqsQueueSteps DEF DeletedIsStored
<1>2. SUFFICES ASSUME NEW r \in Msgs, NEW t \in TxIds, Waits(txs', t, r)
               PROVE  r \in Sent' /\ Orphan(r)'
  BY DEF RowsAreOrderly, Waits
<1>3. SUFFICES r \in Sent /\ Orphan(r)
  BY <1>1, OrderlyStays
<1>4. CASE Waits(txs, t, r)
  BY <1>4 DEF Orderly, RowsAreOrderly
<1>5. CASE txs' = txs
  BY <1>2, <1>4, <1>5
<1>6. ASSUME NEW p \in Procs, Commit(p)
      PROVE  r \in Sent /\ Orphan(r)
  <2>1. Waits(txs, t, r) \/ (session[p].msg = r /\ Waiting(session[p]))
    BY <1>2, <1>6, CommitOfWaiting
  <2>2. QED
    BY <1>4, <2>1 DEF Orderly, CallsAreOrderly, Waiting
<1>7. QED
  BY <1>5, <1>6, SqsSteps, OnlyCommitsWrite DEF Next, vars, db

LEMMA OrderHolds ==
  ASSUME ByQueueAlone
  PROVE  SqsSpec => [](LedgerInvariant /\ Orderly)
<1>1. SqsInit => Orderly
  <2> SUFFICES ASSUME SqsInit PROVE Orderly
    OBVIOUS
  <2>1. \A p \in Procs : session[p].msg = NoMsg
    BY DEF SqsInit, ApiInit, Init, IdleSession
  <2>2. \A t \in TxIds : txs[t] = NoRow
    BY DEF SqsInit, ApiInit, Init
  <2>3. QED
    BY <2>1, <2>2 DEF Orderly, CallsAreOrderly, RowsAreOrderly, Waiting, Waits
<1>2. LedgerInvariant /\ DeletedIsStored /\ Orderly /\ [SqsNext]_allVars => Orderly'
  BY CallsStayOrderly, RowsStayOrderly DEF Orderly
<1>3. QED
  BY <1>1, <1>2, SqsRuns, DeletedStaysStored, PTL DEF SqsSpec

\* The order of a FIFO group survives expired visibility, redelivery and crashes, because
\* a worker deletes only after the commit: a refund that comes by the queue alone is stored
\* to wait for its bet only if the bet's message, sent before it, is a dead letter.
THEOREM RefundsWaitForDead ==
  ASSUME ByQueueAlone
  PROVE  SqsSpec => []RefundWaitsOnlyForDead
<1>1. LedgerInvariant /\ Orderly => RefundWaitsOnlyForDead
  <2> SUFFICES ASSUME LedgerInvariant, Orderly, NEW r \in inbox, NEW b \in Msgs,
                      txs[TxId(Body[r])].status = "PENDING_REFERENCE",
                      Body[b].ext = Body[r].ref, Group[b] = Group[r], Before(b, r)
               PROVE  b \in dead
    BY DEF RefundWaitsOnlyForDead
  <2>1. r \in Msgs
    BY DEF LedgerInvariant, IInv, TypeOK
  <2>2. PICK t \in Stored : PayloadHash(txs[t].req) = PayloadHash(Body[r])
    BY DEF LedgerInvariant, Tables, ConsumedIsStored
  <2>3. t = TxId(Body[r])
    BY <2>2 DEF LedgerInvariant, Once, RowsAreKeyed, PayloadHash, TxId
  <2>4. t \in TxIds /\ Waits(txs, t, r)
    BY <2>2, <2>3 DEF Waits, Stored
  <2>5. QED
    BY <2>1, <2>4 DEF Orderly, RowsAreOrderly, Orphan
<1>2. QED
  BY <1>1, OrderHolds, PTL

-----------------------------------------------------------------------------
(***************************************************************************)
(* The endpoint beside the queue.  To the endpoint the queue is one more   *)
(* caller of the use cases, whose calls serve no client.                   *)
(***************************************************************************)

Unserved == \A p \in Procs : session[p].msg # NoMsg => client[p] = NoClient

LEMMA SqsStepsAreApiSteps ==
  LedgerInvariant /\ Serving /\ Unserved /\ [SqsNext]_allVars => [ApiNext]_apiAll
<1> SUFFICES ASSUME LedgerInvariant, Serving, Unserved, [SqsNext]_allVars
             PROVE  [ApiNext]_apiAll
  OBVIOUS
<1>1. \A p \in Procs, m \in Msgs : Receive(p, m) => Deliver(p)
  BY DEF Receive, Deliver
<1>2. \A p \in Procs : Finish(p) => Work(p)
  BY DEF Finish, Work, Step, Unserved
<1>3. \A p \in Procs : Proceed(p) => Work(p)
  BY <1>2 DEF Proceed
<1>4. \A m \in Msgs : Send(m) \/ Expire(m) \/ Redrive(m) => UNCHANGED apiAll
  BY DEF Send, Expire, Redrive
<1>5. UNCHANGED allVars => UNCHANGED apiAll
  BY DEF allVars
<1>6. QED
  BY <1>1, <1>3, <1>4, <1>5 DEF SqsNext, ApiNext

LEMMA UnservedKept ==
  ASSUME LedgerInvariant, Serving, Unserved, [SqsNext]_allVars
  PROVE  Unserved'
<1>1. TypeOK /\ Rest
  BY DEF LedgerInvariant, IInv, Rest
<1> DEFINE Kept(p) == /\ session'[p].msg # NoMsg => client'[p] = NoClient
                      /\ \A q \in Procs \ {p} : client'[q] = client[q]
                      /\ Begin(p) \/ Step(p) \/ Fault(p)
<1>2. ASSUME NEW p \in Procs, Kept(p)
      PROVE  Unserved'
  BY <1>1, <1>2, OthersWait DEF Unserved
<1>3. ASSUME NEW p \in Procs, NEW m \in Msgs, Receive(p, m)
      PROVE  Kept(p)
  <2>1. session[p].pc = "idle" /\ UNCHANGED client /\ Begin(p)
    BY <1>3 DEF Receive, BeginWager, RefuseInput, Begin, apiVars
  <2>2. client[p] = NoClient
    BY <1>1, <2>1, Acting DEF Serving
  <2>3. QED
    BY <2>1, <2>2
<1>4. ASSUME NEW p \in Procs, \E c \in Clients, r \in HttpRequests : Post(p, c, r)
      PROVE  Kept(p)
  <2>1. session'[p].msg = NoMsg /\ Begin(p)
    BY <1>1, <1>4, BegunMessage DEF Post, Begin
  <2>2. \A q \in Procs \ {p} : client'[q] = client[q]
    BY <1>4 DEF Post, Serving
  <2>3. QED
    BY <2>1, <2>2
<1>5. ASSUME NEW p \in Procs, BeginOther(p)
      PROVE  Kept(p)
  BY <1>1, <1>5, BegunMessage DEF BeginOther, Begin, apiVars
<1>6. ASSUME NEW p \in Procs, Step(p) \/ Fault(p), UNCHANGED apiVars
      PROVE  Kept(p)
  BY <1>6, MessageStays DEF Unserved, apiVars
<1>7. ASSUME NEW p \in Procs, Respond(p)
      PROVE  Kept(p)
  BY <1>7 DEF Respond, Step, Serving
<1>8. ASSUME NEW p \in Procs, Proceed(p)
      PROVE  Kept(p)
  BY <1>6, <1>7, <1>8 DEF Proceed, Work, Finish, Step
<1>9. (\E m \in Msgs : Send(m) \/ Expire(m) \/ Redrive(m)) \/ UNCHANGED allVars => Unserved'
  BY DEF Send, Expire, Redrive, allVars, apiAll, apiVars, vars, Unserved
<1> HIDE DEF Kept
<1>10. QED
  BY <1>2, <1>3, <1>4, <1>5, <1>6, <1>8, <1>9 DEF SqsNext

\* processSQSEnvelope calls the use case as one more caller beside the handlers: with the
\* queue, its timers and its workers, the endpoint does nothing it does not do alone.
THEOREM QueueImplementsApi == SqsSpec => ApiSpec
<1>1. SqsInit => ApiInit /\ Serving /\ Unserved
  BY DEF SqsInit, ApiInit, Init, IdleSession, Serving, Unserved
<1>2. LedgerInvariant /\ Serving /\ Unserved /\ [SqsNext]_allVars =>
        [ApiNext]_apiAll /\ Serving' /\ Unserved'
  BY SqsStepsAreApiSteps, UnservedKept, ServingKept
<1>3. QED
  BY <1>1, <1>2, SqsRuns, PTL DEF SqsSpec, ApiSpec

\* So what a provider is answered is its own and stays true whatever the queue delivers
\* meanwhile, once or often, in time or late.
THEOREM PromisesHoldTogether == SqsSpec => [](ProvidersAreIsolated /\ AnswersLast)
BY QueueImplementsApi, ProvidersStayApart, FinalAnswersLast, PTL

-----------------------------------------------------------------------------
(***************************************************************************)
(* How far the two disagreements with the documents reach.  The database   *)
(* answers an error only to calls whose transaction is stored already, and *)
(* to none if a failed statement leaves its transaction usable; a refund   *)
(* is rejected although its reference is paid only if that reference is a  *)
(* refund itself.                                                          *)
(***************************************************************************)
(* Errors of the database *)

\* The statement s is at meets a message or a row that is there already.
MeetsDuplicate(s) ==
  /\ TRUE \in FailedStatementAborts /\ s.op = "wager"
  /\ \/ s.pc = "saveInbox" /\ s.msg \in inbox
     \/ s.pc = "save" /\ Duplicate(s.req)

\* The transaction has failed, or the call has been told so.
Broken(s) == s.aborted \/ s.reply.code = "DATABASE"

LEMMA BreaksOnDuplicates ==
  ASSUME TypeOK, Rest, NEW p \in Procs, Begin(p) \/ Step(p) \/ Fault(p), Broken(session'[p])
  PROVE  /\ Broken(session[p]) \/ MeetsDuplicate(session[p])
         /\ session'[p].req = session[p].req /\ session'[p].op = session[p].op
<1> DEFINE s == session[p]
           n == session'[p]
           Same(m) == m.req = s.req /\ m.op = s.op
           Goal == Same(n) /\ (Broken(s) \/ MeetsDuplicate(s))
<1>a. s \in Sessions /\ SessionIsSound(s)
  BY Acting
<1>b. \A m : Become(p, m) => n = m
  BY DEF Become, TypeOK
<1>c. \A m : Become(p, m) /\ Same(m) /\ m.aborted = s.aborted /\ m.reply = s.reply => Goal
  BY <1>b DEF Broken
<1>d. \A op, r, m, pc : ~Broken(Started(op, r, m, pc)) /\ ~Broken(IdleSession)
  BY DEF Broken, Started, IdleSession, NoReply
<1>e. \A reply : ~Ended(s, reply).aborted /\ Ended(s, reply).reply = reply
                 /\ Same(Ended(s, reply))
  BY DEF Ended, Started, IdleSession
<1>f. \A code : code # "DATABASE" => ~Rollback(p, code)
  <2>1. \A code : Rollback(p, code) => n.reply.code = code /\ ~n.aborted
    BY <1>b, <1>e DEF Rollback, Failed, NoReply
  <2>2. QED
    BY <2>1 DEF Broken
<1>1. ~Begin(p)
  <2>1. \A op, r, m, pc : ~Become(p, Started(op, r, m, pc))
    BY <1>b, <1>d
  <2>2. \A t, code : code # "DATABASE" => ~Broken(Failed(t, code))
    BY DEF Broken, Failed, Ended, Started, IdleSession, NoReply
  <2>3. \A t : ~Become(p, Failed(t, "INVALID"))
    BY <1>b, <2>2
  <2>4. QED
    BY <2>1, <2>3 DEF Begin, BeginWager, RefuseInput, BeginResolve, BeginOpen
<1>2. ~Fault(p) /\ ~Return(p)
  BY <1>b, <1>d, <1>f DEF Fault, Return
<1>3. StatementFails(p) => Goal
  BY <1>b, <1>e DEF StatementFails, Rollback, Failed, Broken
<1>4. ~Commit(p)
  <2>1. ~Become(p, Ended(s, Answer(s))) /\ ~Become(p, Failed(s, "FAULT"))
    BY <1>b, <1>e DEF Broken, Answer, Failed, NoReply
  <2>2. QED
    BY <1>f, <2>1 DEF Commit
<1>5. SaveInbox(p) => Goal
  <2>1. SaveInbox(p) /\ s.msg \notin inbox => Goal
    BY <1>a, <1>c DEF SaveInbox, Sessions
  <2>2. ASSUME SaveInbox(p), s.msg \in inbox
        PROVE  Goal
    <3>1. PICK aborts \in FailedStatementAborts :
            Become(p, [s EXCEPT !.pc = "findConsumed", !.aborted = aborts])
      BY <2>2 DEF SaveInbox
    <3>2. n.aborted = aborts /\ n.reply = s.reply /\ Same(n)
      BY <1>a, <1>b, <3>1 DEF Sessions
    <3>3. s.pc = "saveInbox" /\ s.op = "wager"
      BY <1>a, <2>2, SessionFields DEF SaveInbox, At, SessionIsSound
    <3>4. aborts = TRUE \/ Broken(s)
      BY <3>1, <3>2, SessionAssumption DEF Broken
    <3>5. QED
      BY <2>2, <3>1, <3>2, <3>3, <3>4 DEF MeetsDuplicate
  <2>3. QED
    BY <2>1, <2>2
<1>6. SaveTransaction(p) => Goal
  <2>1. Become(p, [s EXCEPT !.pc = "commit"]) => Goal
    BY <1>a, <1>c DEF Sessions
  <2>2. ASSUME NEW aborts \in FailedStatementAborts, s.pc = "save", s.op = "wager",
               Duplicate(s.req), Become(p, [s EXCEPT !.pc = "findExternal", !.aborted = aborts])
        PROVE  Goal
    <3>1. n.aborted = aborts /\ n.reply = s.reply /\ Same(n)
      BY <1>a, <1>b, <2>2 DEF Sessions
    <3>2. aborts = TRUE \/ Broken(s)
      BY <3>1, SessionAssumption DEF Broken
    <3>3. QED
      BY <2>2, <3>1, <3>2 DEF MeetsDuplicate
  <2>3. QED
    BY <1>f, <2>1, <2>2 DEF SaveTransaction, At
<1>7. \A e : Replay(p, e) => Goal
  BY <1>a, <1>c DEF Replay, Sessions
<1>8. FindConsumed(p) \/ FindExternal(p) \/ FindKey(p) => Goal
  <2>1. \A f : Become(p, [s EXCEPT !.pc = "lockExisting", !.found = f]) => Goal
    BY <1>a, <1>c DEF Sessions
  <2>2. \A pc \in {"findKey", "lockWallet"} : Become(p, [s EXCEPT !.pc = pc]) => Goal
    BY <1>a, <1>c DEF Sessions
  <2>3. QED
    BY <1>f, <1>7, <2>1, <2>2 DEF FindConsumed, FindExternal, FindKey, Conflict
<1>9. \A before, after, status : Decide(p, before, after, status) => Goal
  BY <1>a, <1>c DEF Decide, Sessions
<1>10. LockExisting(p) \/ LockWallet(p) \/ FindReference(p) => Goal
  <2>1. \A before : /\ Become(p, [s EXCEPT !.pc = "findReference", !.before = before]) => Goal
                    /\ Become(p, [s EXCEPT !.pc = "commit", !.before = before,
                                           !.after = NoWallet]) => Goal
    BY <1>a, <1>c DEF Sessions
  <2>2. QED
    BY <1>f, <1>9, <2>1 DEF LockExisting, LockWallet, FindReference
<1>11. LockPending(p) \/ FindPendingReference(p) \/ LockPendingWallet(p) \/ InsertWallet(p) => Goal
  <2>1. ~Become(p, Ended(s, [NoReply EXCEPT !.code = "ok"]))
    BY <1>b, <1>e DEF Broken, NoReply
  <2>2. \A row, before, after :
          /\ Become(p, [s EXCEPT !.pc = "findPendingReference", !.row = row]) => Goal
          /\ Become(p, [s EXCEPT !.pc = "commit"]) => Goal
          /\ Become(p, [s EXCEPT !.pc = "commit", !.row.status = "REJECTED"]) => Goal
          /\ Become(p, [s EXCEPT !.pc = "lockPendingWallet"]) => Goal
          /\ Become(p, [s EXCEPT !.pc = "commit", !.row.status = "PROCESSED",
                                 !.before = before, !.after = after]) => Goal
          /\ Become(p, [s EXCEPT !.pc = "commit", !.after = after]) => Goal
          /\ Become(p, [s EXCEPT !.pc = "save", !.after = after, !.row = row]) => Goal
    BY <1>a, <1>c DEF Sessions
  <2>3. QED
    BY <1>f, <2>1, <2>2
       DEF LockPending, FindPendingReference, LockPendingWallet, InsertWallet
<1> HIDE DEF Goal
<1>12. Goal
  BY <1>1, <1>2, <1>3, <1>4, <1>5, <1>6, <1>8, <1>10, <1>11 DEF Step
<1>13. QED
  BY <1>12 DEF Goal

\* Who meets an error of the database, or is about to, asks for what is stored.
BrokenAreKnown ==
  \A p \in Procs : Broken(session[p]) =>
    TRUE \in FailedStatementAborts /\ KnownIn(txs, session[p].req)

LEMMA BrokenKept ==
  ASSUME LedgerInvariant, BrokenAreKnown, [Next]_vars
  PROVE  BrokenAreKnown'
<1>1. TypeOK /\ Rest /\ IInv /\ Once
  BY DEF LedgerInvariant, IInv, Rest
<1>2. \A r : KnownIn(txs, r) => KnownIn(txs', r)
  BY <1>1, RowsStay DEF KnownIn
<1>3. SUFFICES ASSUME NEW p \in Procs, Broken(session'[p])
               PROVE  /\ TRUE \in FailedStatementAborts
                      /\ KnownIn(txs', session'[p].req)
  BY DEF BrokenAreKnown, Broken
<1> DEFINE s == session[p]
<1>4. CASE session'[p] = s
  BY <1>2, <1>3, <1>4 DEF BrokenAreKnown
<1>5. CASE Begin(p) \/ Step(p) \/ Fault(p)
  <2>1. (Broken(s) \/ MeetsDuplicate(s)) /\ session'[p].req = s.req
    BY <1>1, <1>3, <1>5, BreaksOnDuplicates
  <2>2. Broken(s) => TRUE \in FailedStatementAborts /\ KnownIn(txs, s.req)
    BY DEF BrokenAreKnown
  <2>3. ASSUME MeetsDuplicate(s)
        PROVE  KnownIn(txs, s.req)
    <3>1. CASE Duplicate(s.req)
      BY <3>1 DEF Duplicate, Stored, KnownIn
    <3>2. CASE s.pc = "saveInbox" /\ s.msg \in inbox
      <4>1. s.msg \in Msgs /\ s.msg # NoMsg
        BY <1>1, <3>2, SessionAssumption DEF TypeOK
      <4>2. s.req = Body[s.msg]
        BY <4>1 DEF LedgerInvariant, Justified, Asked
      <4>3. PICK t \in Stored : PayloadHash(txs[t].req) = PayloadHash(s.req)
        BY <3>2, <4>2 DEF LedgerInvariant, Tables, ConsumedIsStored
      <4>4. QED
        BY <4>3 DEF KnownIn, Stored, Clash, PayloadHash
    <3>3. QED
      BY <2>3, <3>1, <3>2 DEF MeetsDuplicate
  <2>4. QED
    BY <1>2, <2>1, <2>2, <2>3 DEF MeetsDuplicate
<1>6. CASE UNCHANGED vars
  BY <1>4, <1>6 DEF vars
<1>7. ASSUME NEW q \in Procs, Begin(q) \/ Step(q) \/ Fault(q)
      PROVE  session'[p] = s \/ Begin(p) \/ Step(p) \/ Fault(p)
  BY <1>1, <1>7, OthersWait
<1>8. QED
  BY <1>4, <1>5, <1>6, <1>7 DEF Next

LEMMA BrokenHold == Spec => [](LedgerInvariant /\ BrokenAreKnown)
<1>1. Init => BrokenAreKnown
  BY DEF Init, BrokenAreKnown, Broken, IdleSession, NoReply
<1>2. LedgerInvariant /\ BrokenAreKnown /\ [Next]_vars => BrokenAreKnown'
  BY BrokenKept
<1>3. QED
  BY <1>1, <1>2, LedgerInvariantHolds, PTL DEF Spec

\* Whatever a failed statement does to its transaction, the error of the database never
\* costs a wager: a call is given it only when its message, or another call, has stored a
\* transaction of the same external id or key.
THEOREM DatabaseErrorsAreKnown ==
  Spec => [](\A p \in Procs : session[p].reply.code = "DATABASE" => KnownIn(txs, session[p].req))
<1>1. BrokenAreKnown =>
        \A p \in Procs : session[p].reply.code = "DATABASE" => KnownIn(txs, session[p].req)
  BY DEF BrokenAreKnown, Broken
<1>2. QED
  BY <1>1, BrokenHold, PTL

\* Where a transaction survives a failed statement, as the code expects after SaveInbox and
\* Save, a redelivered message is always answered.
THEOREM RedeliveriesAreAnswered ==
  ASSUME TRUE \notin FailedStatementAborts
  PROVE  Spec => []RedeliveryIsAnswered
<1>1. BrokenAreKnown => RedeliveryIsAnswered
  BY DEF BrokenAreKnown, Broken, RedeliveryIsAnswered
<1>2. QED
  BY <1>1, BrokenHold, PTL

-----------------------------------------------------------------------------
(* Rejected refunds *)

\* The reference of r is decided without being paid, or is a refund itself.
Unpayable(rows, r) ==
  \E t \in TxIds : /\ rows[t] # NoRow /\ rows[t].req.ext = r.ref
                   /\ \/ rows[t].status \in Terminal \ {"PROCESSED"}
                      \/ rows[t].req.kind \in {"REFUND", "ROLLBACK"}

Rejecting(s) == s.op = "resolve" /\ s.pc = "commit" /\ s.row.status = "REJECTED"
Rejected(t)  == txs[t].req.kind \in {"REFUND", "ROLLBACK"} /\ txs[t].status = "REJECTED"

Grounded ==
  /\ \A t \in Stored : txs[t].req \in Requested
  /\ \A p \in Procs : Rejecting(session[p]) => Unpayable(txs, session[p].req)
  /\ \A t \in Stored : Rejected(t) => Unpayable(txs, txs[t].req)

LEMMA UnpayableStays ==
  ASSUME IInv, Once, [Next]_vars, NEW r, Unpayable(txs, r)
  PROVE  Unpayable(txs', r)
<1>1. PICK t \in TxIds : /\ txs[t] # NoRow /\ txs[t].req.ext = r.ref
                         /\ \/ txs[t].status \in Terminal \ {"PROCESSED"}
                            \/ txs[t].req.kind \in {"REFUND", "ROLLBACK"}
  BY DEF Unpayable
<1>2. /\ txs'[t] # NoRow /\ txs'[t].req = txs[t].req
      /\ txs[t].status \in Terminal => txs'[t] = txs[t]
  BY <1>1, StepIsFinal DEF Stored
<1>3. QED
  BY <1>1, <1>2 DEF Unpayable

\* A resolver rejects for what its lookup has found.
LEMMA RejectsForReason ==
  ASSUME LedgerInvariant, NEW p \in Procs, Begin(p) \/ Step(p) \/ Fault(p), Rejecting(session'[p])
  PROVE  /\ session[p].op = "resolve" /\ session[p].pc = "findPendingReference"
         /\ session'[p].req = session[p].req /\ Unpayable(txs, session[p].req)
<1> DEFINE s == session[p]
           n == session'[p]
<1>a. s \in Sessions /\ SessionIsSound(s) /\ TypeOK /\ StoryOf(txs, s)
  BY Acting DEF LedgerInvariant, IInv, Rest, Stories
<1>b. \A m : Become(p, m) => n = m
  BY <1>a DEF Become, TypeOK
<1>c. \A m : Become(p, m) => m.op = "resolve" /\ m.pc = "commit" /\ m.row.status = "REJECTED"
  BY <1>b DEF Rejecting
<1>1. \A code : ~Rollback(p, code)
  <2>1. \A reply : Ended(s, reply).pc = "replied"
    BY DEF Ended, Started, IdleSession
  <2>2. QED
    BY <1>c, <2>1 DEF Rollback, Failed
<1>2. s.pc \notin {"idle", "replied"} /\ s.op = "resolve"
  <2>1. n.pc = "commit" /\ n.op = "resolve"
    BY DEF Rejecting
  <2>2. CASE Begin(p)
    <3>1. \A op, r, m, pc, code : /\ Started(op, r, m, pc).pc = pc
                                  /\ Failed(Started(op, r, m, "idle"), code).pc = "replied"
      BY DEF Started, Failed, Ended, IdleSession
    <3>2. QED
      BY <1>b, <2>1, <2>2, <3>1 DEF Begin, BeginWager, RefuseInput, BeginResolve, BeginOpen
  <2>3. CASE Step(p) \/ Fault(p)
    <3>1. s.pc # "replied"
      <4>1. ~Return(p) /\ ~StatementFails(p)
        BY <1>b, <1>1, <2>1 DEF Return, IdleSession, StatementFails
      <4>2. QED
        BY <2>3, <4>1 DEF Step, Fault, Commit, At, SaveInbox, FindConsumed, FindExternal, FindKey,
           LockExisting, LockWallet, FindReference, SaveTransaction, LockPending,
           FindPendingReference, LockPendingWallet, InsertWallet
    <3>2. n.op = s.op
      BY <2>3, <3>1, RequestStays
    <3>3. QED
      BY <1>a, <2>1, <3>1, <3>2 DEF SessionIsSound
  <2>4. QED
    BY <2>2, <2>3
<1>3. LockPending(p) \/ FindPendingReference(p) \/ LockPendingWallet(p)
  <2>1. s.pc \in {"lockPending", "findPendingReference", "lockPendingWallet", "commit"}
    BY <1>a, <1>2 DEF SessionIsSound
  <2>2. ~Begin(p)
    BY <1>2 DEF Begin, BeginWager, RefuseInput, BeginResolve, BeginOpen
  <2>3. ~Commit(p)
    <3>1. \A reply : Ended(s, reply).pc = "replied"
      BY DEF Ended, Started, IdleSession
    <3>2. QED
      BY <1>1, <1>c, <3>1 DEF Commit, Failed
  <2>4. QED
    BY <1>1, <2>1, <2>2, <2>3 DEF Step, Fault, StatementFails, Return, At, SaveInbox,
       FindConsumed, FindExternal, FindKey, LockExisting, LockWallet, FindReference,
       SaveTransaction, InsertWallet
<1>4. ~LockPending(p)
  <2>1. \A reply : Ended(s, reply).pc = "replied"
    BY DEF Ended, Started, IdleSession
  <2>2. \A row : [s EXCEPT !.pc = "findPendingReference", !.row = row].pc = "findPendingReference"
    BY <1>a DEF Sessions
  <2>3. QED
    BY <1>c, <2>1, <2>2 DEF LockPending
<1>5. ~LockPendingWallet(p)
  <2>1. s.pc = "lockPendingWallet" => s.row \in Rows
    BY <1>a, SessionFields DEF SessionIsSound
  <2>2. s.row \in Rows => \A before, after :
          [s EXCEPT !.pc = "commit", !.row.status = "PROCESSED",
                    !.before = before, !.after = after].row.status = "PROCESSED"
    BY <1>a DEF Sessions, Rows
  <2>3. QED
    BY <1>1, <1>c, <2>1, <2>2 DEF LockPendingWallet, At
<1>6. FindPendingReference(p)
  BY <1>3, <1>4, <1>5
<1> DEFINE ref == FindByExternalID(s.req.ref)
<1>7. ref # NoRow /\ ~Usable(ref) /\ Become(p, [s EXCEPT !.pc = "commit", !.row.status = "REJECTED"])
  <2>1. s.pc = "findPendingReference" /\ s.row.status = "PENDING_REFERENCE"
    BY <1>a, <1>2, <1>6 DEF FindPendingReference, At, StoryOf, Decision
  <2>2. ~Become(p, [s EXCEPT !.pc = "commit"])
    BY <1>a, <1>c, <2>1 DEF Sessions
  <2>3. ~Become(p, [s EXCEPT !.pc = "lockPendingWallet"])
    BY <1>a, <1>c DEF Sessions
  <2>4. QED
    BY <1>6, <2>2, <2>3 DEF FindPendingReference
<1>8. Unpayable(txs, s.req)
  <2>1. PICK t \in TxIds : txs[t] # NoRow /\ txs[t] = ref /\ txs[t].req.ext = s.req.ref
    BY <1>7, LookupFinds
  <2>2. txs[t].status \in (Terminal \ {"PROCESSED"}) \cup {"PENDING_REFERENCE"}
    BY <1>7, <2>1 DEF LedgerInvariant, Answers, RowsAreDecided, Stored, Usable
  <2>3. txs[t].status = "PENDING_REFERENCE" => txs[t].req.kind \in {"REFUND", "ROLLBACK"}
    BY <2>1 DEF LedgerInvariant, IInv, PendingIsRefund, Stored
  <2>4. QED
    BY <2>1, <2>2, <2>3 DEF Unpayable
<1>9. n.req = s.req
  BY <1>a, <1>b, <1>7 DEF Sessions
<1>10. QED
  BY <1>2, <1>6, <1>8, <1>9 DEF FindPendingReference, At

\* What a commit stores was asked for, and a refund it rejects has its reason.
LEMMA CommitIsGrounded ==
  ASSUME LedgerInvariant, Grounded, NEW p \in Procs, Commit(p), NEW t \in TxIds, txs'[t] # NoRow
  PROVE  /\ txs'[t].req \in Requested
         /\ Rejected(t)' => Unpayable(txs, txs'[t].req)
<1> DEFINE s == session[p]
<1>1. TypeOK /\ Rest /\ Once /\ StoryOf(txs, s) /\ s.pc = "commit"
  BY DEF LedgerInvariant, IInv, Rest, Stories, Commit, At
<1>2. CASE txs'[t] = txs[t]
  BY <1>2 DEF Grounded, Rejected, Stored
<1>3. CASE txs'[t] # txs[t]
  <2>1. Writes(s) /\ t = TxId(s.req) /\ txs'[t] = s.row
    <3>1. ~Stale(s)
      BY <1>3 DEF Commit, Rollback, db
    <3>2. QED
      BY <1>1, <1>3, <3>1, CommitChanges
  <2>2. /\ s \in Sessions /\ SessionIsSound(s) /\ s.row.req = s.req /\ s.found = NoRow
        /\ s.op = "resolve" => txs[t] # NoRow /\ txs[t].req = s.req
    BY <1>1, <2>1, CommitsOnce DEF Writes
  <2>3. s.op \in {"wager", "open", "resolve"}
    BY <1>1, Acting, SessionFields
  <2>4. s.req \in Requested
    <3>1. CASE s.op = "wager"
      BY <1>1, <3>1 DEF StoryOf, Origin, Requested
    <3>2. CASE s.op = "open"
      BY <2>2, <3>2 DEF SessionIsSound, Requested
    <3>3. CASE s.op = "resolve"
      BY <2>2, <3>3 DEF Grounded, Stored
    <3>4. QED
      BY <2>3, <3>1, <3>2, <3>3
  <2>5. ASSUME s.req.kind \in {"REFUND", "ROLLBACK"}, s.row.status = "REJECTED"
        PROVE  Unpayable(txs, s.req)
    <3>1. CASE s.op = "wager"
      BY <1>1, <2>2, <2>5, <3>1 DEF StoryOf, Decision, WagerDecided
    <3>2. CASE s.op = "open"
      BY <1>1, <2>1, <2>5, <3>2 DEF StoryOf, Decision, Writes
    <3>3. CASE s.op = "resolve"
      BY <1>1, <2>5, <3>3 DEF Grounded, Rejecting
    <3>4. QED
      BY <2>3, <3>1, <3>2, <3>3
  <2>6. QED
    BY <2>1, <2>2, <2>4, <2>5 DEF Rejected
<1>4. QED
  BY <1>2, <1>3

LEMMA GroundedKept ==
  ASSUME LedgerInvariant, Grounded, [Next]_vars
  PROVE  Grounded'
<1>1. TypeOK /\ Rest /\ IInv /\ Once
  BY DEF LedgerInvariant, IInv, Rest
<1>2. \A r : Unpayable(txs, r) => Unpayable(txs', r)
  BY <1>1, UnpayableStays
<1>3. ASSUME NEW t \in TxIds, txs'[t] # NoRow
      PROVE  txs'[t].req \in Requested /\ (Rejected(t)' => Unpayable(txs, txs'[t].req))
  <2>1. CASE UNCHANGED txs
    BY <1>3, <2>1 DEF Grounded, Stored, Rejected
  <2>2. ASSUME NEW p \in Procs, Commit(p)
        PROVE  txs'[t].req \in Requested /\ (Rejected(t)' => Unpayable(txs, txs'[t].req))
    BY <1>3, <2>2, CommitIsGrounded
  <2>3. QED
    BY <2>1, <2>2, OnlyCommitsWrite DEF Next, vars
<1>4. ASSUME NEW p \in Procs, Rejecting(session'[p])
      PROVE  Unpayable(txs, session'[p].req)
  <2>1. CASE session'[p] = session[p]
    BY <1>4, <2>1 DEF Grounded
  <2>2. CASE Begin(p) \/ Step(p) \/ Fault(p)
    BY <1>4, <2>2, RejectsForReason
  <2>3. CASE UNCHANGED vars
    BY <2>1, <2>3 DEF vars
  <2>4. ASSUME NEW q \in Procs, Begin(q) \/ Step(q) \/ Fault(q), q # p
        PROVE  session'[p] = session[p]
    BY <1>1, <2>4, OthersWait
  <2>5. QED
    BY <2>1, <2>2, <2>3, <2>4 DEF Next
<1>5. QED
  BY <1>2, <1>3, <1>4 DEF Grounded, Rejecting, Rejected, Stored

LEMMA GroundedHolds == Spec => [](LedgerInvariant /\ Grounded)
<1>1. Init => Grounded
  BY DEF Init, Grounded, Rejecting, IdleSession, Stored
<1>2. LedgerInvariant /\ Grounded /\ [Next]_vars => Grounded'
  BY GroundedKept
<1>3. QED
  BY <1>1, <1>2, LedgerInvariantHolds, PTL DEF Spec

\* A rejected refund or rollback whose reference is paid is one of a refund or rollback.
WronglyRejectedAreOfRefunds ==
  \A t, u \in Stored :
    Rejected(t) /\ txs[u].req.ext = txs[t].req.ref /\ txs[u].status = "PROCESSED"
      => txs[u].req.kind \in {"REFUND", "ROLLBACK"}

\* A refund or rollback stands rejected while its reference is paid only if that reference
\* is a refund or rollback too: the worker met it while it was itself waiting, and took
\* it for decided.
THEOREM WronglyRejectedAreChains == Spec => []WronglyRejectedAreOfRefunds
<1>1. LedgerInvariant /\ Grounded => WronglyRejectedAreOfRefunds
  <2> SUFFICES ASSUME LedgerInvariant, Grounded, NEW t \in Stored, NEW u \in Stored,
                      Rejected(t), txs[u].req.ext = txs[t].req.ref, txs[u].status = "PROCESSED"
               PROVE  txs[u].req.kind \in {"REFUND", "ROLLBACK"}
    BY DEF WronglyRejectedAreOfRefunds
  <2>1. PICK v \in TxIds : /\ txs[v] # NoRow /\ txs[v].req.ext = txs[t].req.ref
                           /\ \/ txs[v].status \in Terminal \ {"PROCESSED"}
                              \/ txs[v].req.kind \in {"REFUND", "ROLLBACK"}
    BY DEF Grounded, Unpayable
  <2>2. v = u
    BY <2>1 DEF LedgerInvariant, Once, RowsAreApart, Clash, Stored
  <2>3. QED
    BY <2>1, <2>2
<1>2. QED
  BY <1>1, GroundedHolds, PTL

\* Where nobody refunds a refund or rolls it back, none stands rejected while its reference
\* is paid: the pending state of README.md, section 19, is kept until the reference is
\* decided.
THEOREM RejectedStayUnpaid ==
  ASSUME NoChains
  PROVE  Spec => []RejectedReferenceStaysUnpaid
<1>1. LedgerInvariant /\ Grounded => RejectedReferenceStaysUnpaid
  <2> SUFFICES ASSUME LedgerInvariant, Grounded, NEW t \in Stored, Rejected(t), NEW u \in Stored,
                      txs[u].req.ext = txs[t].req.ref, txs[u].status = "PROCESSED"
               PROVE  FALSE
    BY DEF RejectedReferenceStaysUnpaid, Rejected
  <2>1. PICK v \in TxIds : /\ txs[v] # NoRow /\ txs[v].req.ext = txs[t].req.ref
                           /\ \/ txs[v].status \in Terminal \ {"PROCESSED"}
                              \/ txs[v].req.kind \in {"REFUND", "ROLLBACK"}
    BY DEF Grounded, Unpayable
  <2>2. v = u
    BY <2>1 DEF LedgerInvariant, Once, RowsAreApart, Clash, Stored
  <2>3. txs[t].req \in Requested /\ txs[u].req \in Requested
    BY DEF Grounded
  <2>4. QED
    BY <2>1, <2>2, <2>3 DEF NoChains, Rejected
<1>2. QED
  BY <1>1, GroundedHolds, PTL
=============================================================================
