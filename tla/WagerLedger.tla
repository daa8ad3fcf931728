----------------------------- MODULE WagerLedger -----------------------------
(***************************************************************************)
(* The financial core: the use cases ProcessTransactionWithInbox,          *)
(* ResolvePendingReference and OpenWallet.Execute run concurrently, by any *)
(* number of goroutines and instances, each inside one READ COMMITTED      *)
(* database transaction.                                                   *)
(*                                                                         *)
(* A process is one such call.  Its steps are the SQL statements at which  *)
(* another transaction can be seen or waited for: a lookup, a row lock, an *)
(* insert into a unique index.  The writes that nobody can observe before  *)
(* the commit (wallet update, ledger entry, outbox events) take effect in  *)
(* the commit step.  Any step may fail instead, which rolls back.          *)
(***************************************************************************)
EXTENDS LedgerData

CONSTANTS
  Procs,         \* concurrent calls: HTTP handlers, SQS workers, pending-reference workers
  FailedStatementAborts, \* {TRUE}: after a failed statement the transaction accepts no other;
                         \* {FALSE}: it does; both values: either may be the case
  NoProc, NoMsg, NoRequest

ASSUME SessionAssumption ==
  /\ FailedStatementAborts \subseteq BOOLEAN
  /\ NoProc \notin Procs /\ NoMsg \notin Msgs /\ NoRequest \notin Requests

VARIABLES
  wallets,     \* committed table wallets: WalletIds -> row
  txs,         \* committed table wager_transactions, by primary key
  ledger,      \* committed table wallet_ledger_entries: per wallet, in commit order
  inbox,       \* committed table inbox_messages of the SQS consumer
  outbox,      \* committed table outbox_events
  walletLock,  \* row locks on wallets
  rowLock,     \* row locks on wager_transactions
  session      \* Procs -> the call in progress and its uncommitted writes

db    == <<wallets, txs, ledger, inbox, outbox>>
locks == <<walletLock, rowLock>>
vars  == <<wallets, txs, ledger, inbox, outbox, walletLock, rowLock, session>>

-----------------------------------------------------------------------------
(* Sessions *)

PCs == {"idle", "saveInbox", "findConsumed", "findExternal", "findKey", "lockExisting",
        "lockWallet", "findReference", "save", "insertWallet", "lockPending",
        "findPendingReference", "lockPendingWallet", "commit", "replied"}
Codes == {"none", "ok", "INVALID", "CONFLICT", "NOT_FOUND", "OWNER", "REFERENCE", "MONEY",
          "DATABASE", "FAULT"}

NoReply == [code |-> "none", row |-> NoRow, balance |-> 0, replay |-> FALSE]
Replies == [code : Codes, row : Rows \cup {NoRow}, balance : 0 .. MaxInt64, replay : BOOLEAN]

\* row: the WagerTransaction being built.  found: the stored one a replay answers
\* with.  before, after: the wallet as locked, and as Debit or Credit left it.
Sessions == [pc : PCs, op : {"none", "wager", "resolve", "open"},
             req : Requests \cup {NoRequest}, msg : Msgs \cup {NoMsg},
             claim : BOOLEAN, aborted : BOOLEAN,
             row : Rows \cup {NoRow}, found : Rows \cup {NoRow},
             before : Wallets \cup {NoWallet}, after : Wallets \cup {NoWallet},
             reply : Replies]

IdleSession == [pc |-> "idle", op |-> "none", req |-> NoRequest, msg |-> NoMsg,
                claim |-> FALSE, aborted |-> FALSE, row |-> NoRow, found |-> NoRow,
                before |-> NoWallet, after |-> NoWallet, reply |-> NoReply]

\* p is about to execute the statement named pc, in a transaction that still accepts it.
At(p, pc) == session[p].pc = pc /\ ~session[p].aborted

Become(p, s) == session' = [session EXCEPT ![p] = s]

Started(op, req, msg, pc) ==
  [IdleSession EXCEPT !.pc = pc, !.op = op, !.req = req, !.msg = msg]

Ended(s, reply) == [Started(s.op, s.req, s.msg, "replied") EXCEPT !.reply = reply]
Failed(s, code) == Ended(s, [NoReply EXCEPT !.code = code])

Freed(lock, p) == [x \in DOMAIN lock |-> IF lock[x] = p THEN NoProc ELSE lock[x]]
ReleaseLocks(p) == walletLock' = Freed(walletLock, p) /\ rowLock' = Freed(rowLock, p)

\* Mutant: an error leaves the transaction open, and with it its locks.
RollbackForgotten(p, code) == /\ Become(p, Failed(session[p], code))
                              /\ UNCHANGED <<db, locks>>

\* ExecuteInTransaction when the closure returns an error: nothing p wrote remains.
Rollback(p, code) == /\ Become(p, Failed(session[p], code))
                     /\ ReleaseLocks(p)
                     /\ UNCHANGED db

Init == /\ wallets = [w \in WalletIds |-> NoWallet]
        /\ txs = [t \in TxIds |-> NoRow]
        /\ ledger = [w \in WalletIds |-> << >>]
        /\ inbox = {}
        /\ outbox = {}
        /\ walletLock = [w \in WalletIds |-> NoProc]
        /\ rowLock = [t \in TxIds |-> NoProc]
        /\ session = [p \in Procs |-> IdleSession]

-----------------------------------------------------------------------------
(* Reading the committed tables *)

Stored  == {t \in TxIds : txs[t] # NoRow}

TheRow(found) == IF found = {} THEN NoRow ELSE txs[CHOOSE t \in found : TRUE]
FindByExternalID(ext)      == TheRow({t \in Stored : txs[t].req.ext = ext})
FindByIdempotencyKey(key)  == TheRow({t \in Stored : txs[t].req.key = key})

\* Mutants: two creations of one wallet do not wait for each other; the index on player
\* and currency is not there.
CreatingUnseen(q, o) == FALSE
OpenedById(o)        == wallets[o.wallet] # NoWallet

Opened(o) == \E w \in WalletIds : wallets[w] # NoWallet /\ (w = o.wallet \/ IsFor(wallets[w], o))

\* What an INSERT of another open transaction makes this one wait for.
Claiming(q, m)   == session[q].claim /\ session[q].msg = m
Inserted(q)      == session[q].pc = "commit" /\ session[q].op # "resolve"
                      /\ session[q].row # NoRow /\ session[q].found = NoRow
Creates(s)       == s.op = "open" /\ s.pc \in {"save", "commit"}
Creating(q, o)   == Creates(session[q]) /\ SameWallet(session[q].req, o)

\* Mutants: the SELECT has lost its FOR UPDATE.
WalletFreeUnlocked(p, w) == TRUE
RowFreeUnlocked(p, t)    == TRUE

WalletFree(p, w) == walletLock[w] \in {NoProc, p}
RowFree(p, t)    == rowLock[t] \in {NoProc, p}

-----------------------------------------------------------------------------
(* ProcessTransactionWithInbox *)

BeginWager(p, r, m) ==
  /\ session[p].pc = "idle"
  /\ Valid(r)
  /\ Become(p, Started("wager", r, m, IF m = NoMsg THEN "findExternal" ELSE "saveInbox"))
  /\ UNCHANGED <<db, locks>>

RefuseInput(p, r, m) ==
  /\ session[p].pc = "idle"
  /\ ~Valid(r)
  /\ Become(p, Failed(Started("wager", r, m, "idle"), "INVALID"))
  /\ UNCHANGED <<db, locks>>

\* Mutant: the claim is committed on its own, before the wager it stands for.
SaveInboxAhead(p) ==
  LET s == session[p] IN
  /\ At(p, "saveInbox")
  /\ inbox' = inbox \cup {s.msg}
  /\ \E aborts \in FailedStatementAborts :
       Become(p, IF s.msg \in inbox
                 THEN [s EXCEPT !.pc = "findConsumed", !.aborted = aborts]
                 ELSE [s EXCEPT !.pc = "findExternal"])
  /\ UNCHANGED <<wallets, txs, ledger, outbox, locks>>

\* SaveInbox: INSERT INTO inbox_messages waits for another open claim of the message.
SaveInbox(p) ==
  LET s == session[p] IN
  /\ At(p, "saveInbox")
  /\ \A q \in Procs \ {p} : ~Claiming(q, s.msg)
  /\ \/ /\ s.msg \notin inbox
        /\ Become(p, [s EXCEPT !.pc = "findExternal", !.claim = TRUE])
     \/ /\ s.msg \in inbox
        /\ \E aborts \in FailedStatementAborts :
             Become(p, [s EXCEPT !.pc = "findConsumed", !.aborted = aborts])
  /\ UNCHANGED <<db, locks>>

\* Mutant: a duplicate message is always answered with the transaction just built.
FindConsumedBuilt(p) ==
  /\ At(p, "findConsumed")
  /\ Become(p, [session[p] EXCEPT !.pc = "lockExisting",
                                  !.found = [req |-> session[p].req, status |-> "PENDING"]])
  /\ UNCHANGED <<db, locks>>

\* The branch for a duplicate message: answer with the stored transaction; without
\* one, with the transaction just built, which is PENDING and is not saved.
FindConsumed(p) ==
  LET s        == session[p]
      existing == FindByExternalID(s.req.ext)
      built    == [req |-> s.req, status |-> "PENDING"]
  IN  /\ At(p, "findConsumed")
      /\ Become(p, [s EXCEPT !.pc = "lockExisting",
                             !.found = IF existing = NoRow THEN built ELSE existing])
      /\ UNCHANGED <<db, locks>>

\* lookupExisting, by external id and then by key, first before any write and again
\* (the row is built by then) after the INSERT met a duplicate.
Replay(p, existing) ==
  /\ existing # NoRow
  /\ PayloadHash(existing.req) = PayloadHash(session[p].req)
  /\ Become(p, [session[p] EXCEPT !.pc = "lockExisting", !.found = existing])
  /\ UNCHANGED <<db, locks>>

Conflict(p, existing) ==
  /\ existing # NoRow
  /\ PayloadHash(existing.req) # PayloadHash(session[p].req)
  /\ Rollback(p, "CONFLICT")

FindExternal(p) ==
  LET existing == FindByExternalID(session[p].req.ext) IN
  /\ At(p, "findExternal")
  /\ \/ Replay(p, existing)
     \/ Conflict(p, existing)
     \/ /\ existing = NoRow
        /\ Become(p, [session[p] EXCEPT !.pc = "findKey"])
        /\ UNCHANGED <<db, locks>>

FindKey(p) ==
  LET existing == FindByIdempotencyKey(session[p].req.key) IN
  /\ At(p, "findKey")
  /\ \/ Replay(p, existing)
     \/ Conflict(p, existing)
     \/ /\ existing = NoRow /\ session[p].row # NoRow      \* handleSaveConflict found nothing
        /\ Rollback(p, "CONFLICT")
     \/ /\ existing = NoRow /\ session[p].row = NoRow
        /\ Become(p, [session[p] EXCEPT !.pc = "lockWallet"])
        /\ UNCHANGED <<db, locks>>

\* FindByIDWithLock: SELECT ... FOR UPDATE; a wallet that does not exist is not waited for.
Lockable(p, w) == wallets[w] # NoWallet /\ WalletFree(p, w)
LockRow(p, w)  == /\ walletLock' = [walletLock EXCEPT ![w] = p]
                  /\ UNCHANGED <<db, rowLock>>

LockExisting(p) ==
  LET w == session[p].found.req.wallet IN
  /\ At(p, "lockExisting")
  /\ Lockable(p, w)
  /\ LockRow(p, w)
  /\ Become(p, [session[p] EXCEPT !.pc = "commit", !.before = wallets[w], !.after = NoWallet])

\* Mutant: anybody may play on any wallet.
OwnsAny(w, r) == TRUE
Owns(w, r)    == w.player = r.player

\* The transaction leaves PENDING for status; after is the wallet to store, if it moved.
Decide(p, before, after, status) ==
  Become(p, [session[p] EXCEPT !.pc = "save", !.before = before, !.after = after,
                               !.row = [req |-> session[p].req, status |-> status]])

LockWallet(p) ==
  LET r    == session[p].req
      w    == r.wallet
      move == Moves(r, wallets[w])
  IN
  /\ At(p, "lockWallet")
  /\ \/ /\ wallets[w] = NoWallet
        /\ Rollback(p, "NOT_FOUND")
     \/ /\ Lockable(p, w)
        /\ ~Owns(wallets[w], r)
        /\ Rollback(p, "OWNER")
     \/ /\ Lockable(p, w)
        /\ Owns(wallets[w], r)
        /\ r.kind \in {"BET", "WIN"}
        /\ move.err \notin IF r.kind = "BET" THEN {"none", "insufficient"} ELSE {"none"}
        /\ Rollback(p, "MONEY")
     \/ /\ Lockable(p, w)
        /\ Owns(wallets[w], r)
        /\ LockRow(p, w)
        /\ \/ /\ r.kind \in {"BET", "WIN"} /\ move.err = "none"
              /\ Decide(p, wallets[w], move.wallet, "PROCESSED")
           \/ /\ r.kind = "BET" /\ move.err = "insufficient"
              /\ Decide(p, wallets[w], NoWallet, "REJECTED")
           \/ /\ r.kind = "LOSS"
              /\ Decide(p, wallets[w], NoWallet, "PROCESSED")
           \/ /\ r.kind \in {"REFUND", "ROLLBACK"}
              /\ Become(p, [session[p] EXCEPT !.pc = "findReference", !.before = wallets[w]])

\* Mutant: a reference that has not been decided will do.
UsableUndecided(ref) == ref.status # "FAILED"
Usable(ref) == ref.status = "PROCESSED"

\* The reference of a REFUND or ROLLBACK is read without a lock on its row.
FindReference(p) ==
  LET s      == session[p]
      ref    == FindByExternalID(s.req.ref)
      credit == Credit(s.before, s.req.money)
  IN
  /\ At(p, "findReference")
  /\ \/ /\ ref = NoRow
        /\ Decide(p, s.before, NoWallet, "PENDING_REFERENCE")
        /\ UNCHANGED <<db, locks>>
     \/ /\ ref # NoRow /\ ~Usable(ref)
        /\ Rollback(p, "REFERENCE")
     \/ /\ ref # NoRow /\ Usable(ref) /\ credit.err # "none"
        /\ Rollback(p, "MONEY")
     \/ /\ ref # NoRow /\ Usable(ref) /\ credit.err = "none"
        /\ Decide(p, s.before, credit.wallet, "PROCESSED")
        /\ UNCHANGED <<db, locks>>

\* Save: INSERT INTO wager_transactions, waiting for open inserts it would clash with.
\* A duplicate leads a wager to handleSaveConflict and ends the creation of a wallet.
Duplicate(r) == \E t \in Stored : Clash(txs[t].req, r)

SaveTransaction(p) ==
  LET s == session[p] IN
  /\ At(p, "save")
  /\ \/ /\ ~Duplicate(s.req)
        /\ \A q \in Procs \ {p} : Inserted(q) => ~Clash(session[q].req, s.req)
        /\ Become(p, [s EXCEPT !.pc = "commit"])
        /\ UNCHANGED <<db, locks>>
     \/ /\ Duplicate(s.req) /\ s.op = "wager"
        /\ \E aborts \in FailedStatementAborts :
             Become(p, [s EXCEPT !.pc = "findExternal", !.aborted = aborts])
        /\ UNCHANGED <<db, locks>>
     \/ /\ Duplicate(s.req) /\ s.op = "open"
        /\ Rollback(p, "CONFLICT")

-----------------------------------------------------------------------------
(* ResolvePendingReference *)

\* The worker's FindPendingReferences read t as pending; that is no longer certain
\* when LockPending runs.
BeginResolve(p, t) ==
  /\ session[p].pc = "idle"
  /\ txs[t] # NoRow /\ txs[t].status = "PENDING_REFERENCE"
  /\ Become(p, Started("resolve", txs[t].req, NoMsg, "lockPending"))
  /\ UNCHANGED <<db, locks>>

\* FindByIDForUpdate.
LockPending(p) ==
  LET s == session[p]
      t == TxId(s.req)
  IN
  /\ At(p, "lockPending")
  /\ RowFree(p, t)
  /\ UNCHANGED <<db, walletLock>>
  /\ \/ /\ txs[t] = NoRow \/ txs[t].status # "PENDING_REFERENCE"
        /\ Become(p, Ended(s, [NoReply EXCEPT !.code = "ok"]))
        /\ UNCHANGED rowLock
     \/ /\ txs[t] # NoRow /\ txs[t].status = "PENDING_REFERENCE"
        /\ Become(p, [s EXCEPT !.pc = "findPendingReference", !.row = txs[t]])
        /\ rowLock' = [rowLock EXCEPT ![t] = p]

\* No reference yet: the row is rewritten as it is, with a later next_retry_at.
FindPendingReference(p) ==
  LET s   == session[p]
      ref == FindByExternalID(s.req.ref)
  IN
  /\ At(p, "findPendingReference")
  /\ UNCHANGED <<db, locks>>
  /\ \/ /\ ref = NoRow
        /\ Become(p, [s EXCEPT !.pc = "commit"])
     \/ /\ ref # NoRow /\ ~Usable(ref)
        /\ Become(p, [s EXCEPT !.pc = "commit", !.row.status = "REJECTED"])
     \/ /\ ref # NoRow /\ Usable(ref)
        /\ Become(p, [s EXCEPT !.pc = "lockPendingWallet"])

LockPendingWallet(p) ==
  LET s      == session[p]
      w      == s.req.wallet
      credit == Credit(wallets[w], s.req.money)
  IN
  /\ At(p, "lockPendingWallet")
  /\ Lockable(p, w)
  /\ \/ /\ credit.err # "none"
        /\ Rollback(p, "MONEY")
     \/ /\ credit.err = "none"
        /\ LockRow(p, w)
        /\ Become(p, [s EXCEPT !.pc = "commit", !.row.status = "PROCESSED",
                               !.before = wallets[w], !.after = credit.wallet])

-----------------------------------------------------------------------------
(* OpenWallet.Execute *)

BeginOpen(p, o) ==
  /\ session[p].pc = "idle"
  /\ Become(p, Started("open", o, NoMsg, "insertWallet"))
  /\ UNCHANGED <<db, locks>>

\* INSERT INTO wallets waits for an open creation of a wallet of this id or of this player
\* and currency.  A wallet opened with nothing gets no OPENING transaction.
InsertWallet(p) ==
  LET s == session[p]
      o == s.req
      opened == NewWallet(o.player, o.money).wallet
  IN
  /\ At(p, "insertWallet")
  /\ \/ /\ Opened(o)
        /\ Rollback(p, "CONFLICT")
     \/ /\ ~Opened(o)
        /\ \A q \in Procs \ {p} : ~Creating(q, o)
        /\ Become(p, IF IsZero(o.money)
                     THEN [s EXCEPT !.pc = "commit", !.after = opened]
                     ELSE [s EXCEPT !.pc = "save", !.after = opened,
                                    !.row = [req |-> o, status |-> "PROCESSED"]])
        /\ UNCHANGED <<db, locks>>

-----------------------------------------------------------------------------
(* The remaining writes and the commit *)

\* The row p inserts or updates, if it answers no replay.
Writes(s) == s.found = NoRow /\ s.row # NoRow
HasMovement(s) == Writes(s) /\ s.after # NoWallet

StatusEvent == [PROCESSED         |-> "WagerTransactionProcessed",
                REJECTED          |-> "WagerTransactionRejected",
                PENDING_REFERENCE |-> "WagerTransactionPendingReference"]

\* saveOutboxEvent: the events a call adds.  The resolver's rejection adds none.
\* Mutant: the resolver forgets the balance event.
BalanceEventsOfWagers(s) ==
  IF HasMovement(s) /\ s.op # "resolve"
  THEN {Event("WalletBalanceChanged", s.req, s.after.version)} ELSE {}
BalanceEvents(s) ==
  IF HasMovement(s) THEN {Event("WalletBalanceChanged", s.req, s.after.version)} ELSE {}

OutcomeEvents(s) ==
  CASE ~Writes(s) -> {}
    [] Writes(s) /\ s.op = "open"  -> {Event("WALLET_OPENED", s.req, s.after.version)}
    [] Writes(s) /\ s.op = "wager" -> {Event(StatusEvent[s.row.status], s.req, 0)}
    [] Writes(s) /\ s.op = "resolve" ->
         IF s.row.status = "PROCESSED" THEN {Event("WagerTransactionProcessed", s.req, 0)}
         ELSE {}

\* Mutant: the balance told is the one before the movement.
AnswerBefore(s) ==
  [code    |-> "ok",
   row     |-> IF s.found # NoRow THEN s.found ELSE s.row,
   balance |-> IF s.before # NoWallet THEN s.before.balance.amount ELSE 0,
   replay  |-> s.found # NoRow]

\* OutputTransactionDTO: the stored or built transaction and the wallet as this call left it.
Answer(s) ==
  [code    |-> "ok",
   row     |-> IF s.found # NoRow THEN s.found ELSE s.row,
   balance |-> IF s.after # NoWallet THEN s.after.balance.amount
               ELSE IF s.before # NoWallet THEN s.before.balance.amount ELSE 0,
   replay  |-> s.found # NoRow]

\* UPDATE wallets ... WHERE version = expected matches no row.
Stale(s) == /\ s.before # NoWallet /\ s.after # NoWallet
            /\ wallets[s.req.wallet].version # s.before.version

\* The commit may succeed although its acknowledgement never arrives.
Commit(p) ==
  LET s == session[p]
      w == s.req.wallet
  IN
  /\ At(p, "commit")
  /\ IF Stale(s)
     THEN Rollback(p, "NOT_FOUND")
     ELSE /\ txs'     = IF Writes(s) THEN [txs EXCEPT ![TxId(s.req)] = s.row] ELSE txs
          /\ wallets' = IF s.after # NoWallet THEN [wallets EXCEPT ![w] = s.after] ELSE wallets
          /\ ledger'  = IF HasMovement(s) THEN [ledger EXCEPT ![w] = Append(@, Entry(s.req, s.before, s.after))]
                        ELSE ledger
          /\ inbox'   = IF s.claim THEN inbox \cup {s.msg} ELSE inbox
          /\ outbox'  = outbox \cup BalanceEvents(s) \cup OutcomeEvents(s)
          /\ ReleaseLocks(p)
          /\ \/ Become(p, Ended(s, Answer(s)))
             \/ Become(p, Failed(s, "FAULT"))

\* A statement of a transaction that has already failed.
StatementFails(p) == session[p].aborted /\ Rollback(p, "DATABASE")

\* The connection, the context or the whole instance fails before the commit.
Fault(p) == /\ session[p].pc \notin {"idle", "replied"}
            /\ Rollback(p, "FAULT")

Return(p) == /\ session[p].pc = "replied"
             /\ Become(p, IdleSession)
             /\ UNCHANGED <<db, locks>>

-----------------------------------------------------------------------------

Begin(p) == \/ \E r \in HttpRequests : BeginWager(p, r, NoMsg) \/ RefuseInput(p, r, NoMsg)
            \/ \E m \in Msgs : BeginWager(p, Body[m], m) \/ RefuseInput(p, Body[m], m)
            \/ \E t \in TxIds : BeginResolve(p, t)
            \/ \E o \in Openings : BeginOpen(p, o)

Step(p) == \/ SaveInbox(p) \/ FindConsumed(p) \/ FindExternal(p) \/ FindKey(p)
           \/ LockExisting(p) \/ LockWallet(p) \/ FindReference(p) \/ SaveTransaction(p)
           \/ LockPending(p) \/ FindPendingReference(p) \/ LockPendingWallet(p)
           \/ InsertWallet(p) \/ Commit(p) \/ StatementFails(p) \/ Return(p)

Next == \E p \in Procs : Begin(p) \/ Step(p) \/ Fault(p)

Spec == Init /\ [][Next]_vars

-----------------------------------------------------------------------------
(* Properties *)

\* Every table, lock and session holds values of its columns' types and within the
\* CHECK constraints of migrations/000001_init_schema.up.sql.
TypeOK ==
  /\ wallets \in [WalletIds -> Wallets \cup {NoWallet}]
  /\ txs \in [TxIds -> Rows \cup {NoRow}]
  /\ ledger \in [WalletIds -> Seq(Entries)]
  /\ inbox \subseteq Msgs
  /\ outbox \subseteq Events
  /\ walletLock \in [WalletIds -> Procs \cup {NoProc}]
  /\ rowLock \in [TxIds -> Procs \cup {NoProc}]
  /\ session \in [Procs -> Sessions]

\* A call that has read a wallet under its lock holds that lock, alone, and the wallet
\* is still as it was read: UPDATE ... WHERE version never finds a newer version.
WalletOf(s) == IF s.found # NoRow THEN s.found.req.wallet ELSE s.req.wallet
SnapshotIsCurrent ==
  \A p \in Procs :
    LET s == session[p]
    IN  s.before # NoWallet => /\ walletLock[WalletOf(s)] = p
                              /\ wallets[WalletOf(s)] = s.before

Settles(e) == e.after = IF e.direction = "CREDIT" THEN e.before + e.amount
                        ELSE e.before - e.amount
Chained(entries, balance) ==
  /\ \A i \in 1 .. Len(entries) :
       /\ Settles(entries[i])
       /\ entries[i].before = IF i = 1 THEN 0 ELSE entries[i - 1].after
  /\ balance = IF Len(entries) = 0 THEN 0 ELSE entries[Len(entries)].after
BalanceOf(w) == IF w = NoWallet THEN 0 ELSE w.balance.amount

\* The ledger of a wallet is one unbroken account of its balance: it starts from zero,
\* each entry starts where the previous one ended, and the last ends at the balance.
LedgerChain == \A w \in WalletIds : Chained(ledger[w], BalanceOf(wallets[w]))

SameHolder(v, w) == v.player = w.player /\ v.balance.currency = w.balance.currency

\* A movement in the making has exactly the request's effect on the locked wallet.
MovementIsExact(s) ==
  s.after # NoWallet =>
    /\ s.op = "open" =>
         /\ IsFor(s.after, s.req) /\ s.after.balance.amount = s.req.money.amount
         /\ s.row = NoRow <=> s.req.money.amount = 0
    /\ s.op # "open" =>
         /\ s.before # NoWallet /\ s.row # NoRow /\ s.req.money.amount > 0
         /\ SameHolder(s.before, s.after)
         /\ s.after.balance.amount = IF s.req.kind = "BET"
                                     THEN s.before.balance.amount - s.req.money.amount
                                     ELSE s.before.balance.amount + s.req.money.amount

\* What a call has read and built by the time it reaches a statement.
SessionIsSound(s) ==
  /\ s.pc # "idle" => s.req \in Requests
  /\ s.claim \/ s.pc = "saveInbox" => s.msg \in Msgs
  /\ CASE s.op = "none"    -> s.pc = "idle" /\ s.before = NoWallet /\ ~s.aborted
       [] s.op = "open"    -> /\ s.pc \in {"insertWallet", "save", "commit", "replied"}
                              /\ s.req \in Openings /\ s.before = NoWallet
                              /\ s.found = NoRow
                              /\ s.pc \in {"save", "commit"} => s.after # NoWallet
       [] s.op = "resolve" -> /\ s.pc \in {"lockPending", "findPendingReference",
                                           "lockPendingWallet", "commit", "replied"}
                              /\ s.found = NoRow
                              /\ s.req.kind \in {"REFUND", "ROLLBACK"}
       [] s.op = "wager"   -> /\ s.pc \in PCs \ {"idle", "insertWallet", "lockPending",
                                                 "findPendingReference", "lockPendingWallet"}
                              /\ s.row # NoRow => s.row.status \in DOMAIN StatusEvent
  /\ s.pc \in {"saveInbox", "findConsumed", "lockWallet", "findReference", "insertWallet"} =>
       s.row = NoRow /\ s.after = NoWallet
  /\ s.pc \in {"saveInbox", "findConsumed", "lockPending"} => s.before = NoWallet
  /\ s.pc \in {"lockPending", "findPendingReference", "lockPendingWallet"} => s.after = NoWallet
  /\ s.pc = "findReference" => s.before # NoWallet /\ s.req.kind \in {"REFUND", "ROLLBACK"}
  /\ s.pc \in {"save", "findPendingReference", "lockPendingWallet"} => s.row # NoRow
  /\ s.pc = "lockExisting" => s.found # NoRow
  /\ s.row # NoRow /\ s.row.status = "PENDING_REFERENCE" =>
       s.row.req.kind \in {"REFUND", "ROLLBACK"}
  /\ s.found # NoRow => s.pc = "lockExisting" \/ (s.pc = "commit" /\ s.after = NoWallet)
  /\ MovementIsExact(s)
SessionsAreSound == \A p \in Procs : SessionIsSound(session[p])

\* The wallet a call is creating exists for nobody yet, and no other call creates it.
OpeningIsFresh ==
  \A p \in Procs : Creates(session[p]) =>
    /\ ~Opened(session[p].req)
    /\ \A q \in Procs : Creating(q, session[p].req) => p = q

\* A player has one wallet in a currency, whichever ids the creations that raced for it
\* derived from the currency as it was written.
OneWalletPerCurrency ==
  \A v, w \in WalletIds :
    wallets[v] # NoWallet /\ wallets[w] # NoWallet /\ SameHolder(wallets[v], wallets[w]) => v = w

\* Only a refund or a rollback waits for a reference.
PendingIsRefund ==
  \A t \in Stored : txs[t].status = "PENDING_REFERENCE" =>
                      txs[t].req.kind \in {"REFUND", "ROLLBACK"}

\* The inductive invariant under LedgerChain and SnapshotIsCurrent.
IInv == /\ TypeOK /\ SessionsAreSound /\ SnapshotIsCurrent
        /\ OpeningIsFresh /\ OneWalletPerCurrency /\ PendingIsRefund /\ LedgerChain

\* A wallet's version counts its movements: calls that were refused, rejected, replayed
\* or rolled back leave no trace in it.
VersionCountsMovements ==
  \A w \in WalletIds : wallets[w] # NoWallet =>
    LET opened == \E t \in Stored : txs[t].req.kind = "OPENING" /\ txs[t].req.wallet = w
    IN  wallets[w].version = Len(ledger[w]) + IF opened THEN 0 ELSE 1

\* Exactly once: a transaction moved its wallet, by its own amount and direction, once
\* if it is PROCESSED and not a LOSS, and never otherwise, however often it was sent.
OneMovementPerTransaction ==
  \A w \in WalletIds, t \in TxIds :
    LET entries == {i \in DOMAIN ledger[w] : ledger[w][i].tx = t}
        moved   == /\ txs[t] # NoRow /\ txs[t].status = "PROCESSED"
                   /\ txs[t].req.kind # "LOSS" /\ txs[t].req.wallet = w
    IN  IF moved
        THEN \E i \in entries :
               /\ entries = {i}
               /\ ledger[w][i].amount = txs[t].req.money.amount
               /\ ledger[w][i].direction = "DEBIT" <=> txs[t].req.kind = "BET"
        ELSE entries = {}

\* No two stored transactions share a provider's external id or an idempotency key.
UniqueTransactions ==
  \A t, u \in Stored : t # u => /\ txs[t].req.ext # txs[u].req.ext
                                /\ txs[t].req.key # txs[u].req.key

\* The outbox tells what the tables tell: one balance event per ledger entry, under the
\* version the wallet had then, a PROCESSED event exactly for the wagers processed,
\* and an event for each wager left waiting or refused for lack of balance.
EventsMatchState ==
  LET sent(type) == {e.tx : e \in {x \in outbox : x.type = type}}
      wagers     == {t \in Stored : txs[t].req.kind # "OPENING"}
      with(status) == {t \in wagers : txs[t].status = status}
  IN  /\ {<<e.tx, e.version>> : e \in {x \in outbox : x.type = "WalletBalanceChanged"}}
           = UNION {{<<ledger[w][i].tx, wallets[w].version - (Len(ledger[w]) - i)>> :
                       i \in DOMAIN ledger[w]} : w \in WalletIds}
      /\ sent("WagerTransactionProcessed") = with("PROCESSED")
      /\ with("PENDING_REFERENCE") \subseteq sent("WagerTransactionPendingReference")
      /\ sent("WagerTransactionRejected") \subseteq with("REJECTED")
      /\ \A t \in with("REJECTED") : txs[t].req.kind = "BET" => t \in sent("WagerTransactionRejected")

\* A message is recorded as consumed only together with the transaction it asks for,
\* so the inbox never swallows a wager.
ConsumedIsStored ==
  \A m \in inbox : \E t \in Stored : PayloadHash(txs[t].req) = PayloadHash(Body[m])

\* A refund or rollback is paid only on a reference that is itself processed.
PaidRefundHasReference ==
  \A t \in Stored :
    txs[t].req.kind \in {"REFUND", "ROLLBACK"} /\ txs[t].status = "PROCESSED" =>
      \E u \in Stored : txs[u].req.ext = txs[t].req.ref /\ txs[u].status = "PROCESSED"

\* A stored transaction never disappears or changes what it asks for, and one that has
\* reached a terminal status keeps it, whichever calls raced for it.
StatusIsFinal ==
  [][\A t \in Stored : /\ txs'[t] # NoRow
                       /\ txs'[t].req = txs[t].req
                       /\ txs[t].status \in Terminal => txs'[t] = txs[t]]_vars

\* A successful answer is true when it is given: the transaction it names is stored and
\* asks for what the caller asked, with the status told (a replay may tell the pending
\* status its lookup read), and the balance told is the wallet's.
AnswersAreTrue ==
  [][\A p \in Procs :
       LET s == session[p]
           a == session'[p].reply
       IN  s.pc = "commit" /\ a.code = "ok" /\ s.op # "resolve" =>
             /\ a.balance = wallets'[s.req.wallet].balance.amount
             /\ a.row # NoRow =>
                  LET stored == txs'[TxId(s.req)]
                  IN  /\ PayloadHash(stored.req) = PayloadHash(s.req)
                      /\ stored.req = a.row.req
                      /\ \/ stored.status = a.row.status
                         \/ a.replay /\ a.row.status = "PENDING_REFERENCE"]_vars

\* However the calls interleave, fail and are repeated, the tables change as if each
\* call that commits had run alone, in the one step of its commit.
Atomic == INSTANCE AtomicLedger WITH
  wallets <- wallets, txs <- txs, ledger <- ledger, inbox <- inbox, outbox <- outbox
ImplementsAtomicLedger == Atomic!Spec

\* What the next statement of p has to wait for is not there: another open claim of its
\* message, another creation of its wallet, a row lock, an open insert it would clash with.
Ready(p) ==
  LET s      == session[p]
      others == Procs \ {p}
  IN  \/ s.aborted
      \/ CASE s.pc = "saveInbox"    -> \A q \in others : ~Claiming(q, s.msg)
           [] s.pc = "insertWallet" -> Opened(s.req) \/ \A q \in others : ~Creating(q, s.req)
           [] s.pc = "lockExisting" -> Lockable(p, s.found.req.wallet)
           [] s.pc = "lockWallet"   -> wallets[s.req.wallet] = NoWallet \/ Lockable(p, s.req.wallet)
           [] s.pc = "lockPending"  -> RowFree(p, TxId(s.req))
           [] s.pc = "lockPendingWallet" -> Lockable(p, s.req.wallet)
           [] s.pc = "save" -> \/ Duplicate(s.req)
                               \/ \A q \in others : Inserted(q) => ~Clash(session[q].req, s.req)
           [] OTHER -> TRUE

\* Never do all open calls wait for each other: the claims, unique indexes and row locks of
\* the three use cases, taken in whatever order they are reached, form no cycle, and no
\* lock outlives its call.
NoDeadlock ==
  (\E p \in Procs : session[p].pc # "idle") =>
    \E q \in Procs : session[q].pc # "idle" /\ Ready(q)

\* Every call returns: the locks a call waits for are always released.
EveryCallReturns ==
  \A p \in Procs : session[p].pc # "idle" ~> session[p].pc = "idle"

\* A refund is rejected for its reference only when the reference cannot be paid back:
\* README.md 19 keeps the pendency while the reference is not available yet.
RejectedReferenceStaysUnpaid ==
  \A t \in Stored :
    txs[t].req.kind \in {"REFUND", "ROLLBACK"} /\ txs[t].status = "REJECTED" =>
      ~\E u \in Stored : txs[u].req.ext = txs[t].req.ref /\ txs[u].status = "PROCESSED"

\* What is ever asked for, and that no refund or rollback among it is of another one.
Requested == HttpRequests \cup {Body[m] : m \in Msgs} \cup Openings
NoChains  == \A r, u \in Requested :
               r.kind \in {"REFUND", "ROLLBACK"} /\ u.ext = r.ref => u.kind \notin {"REFUND", "ROLLBACK"}

\* A message redelivered after its commit is answered, as the test "redelivery must be
\* idempotent replay" expects, and not refused by the database.
RedeliveryIsAnswered ==
  \A p \in Procs : session[p].reply.code = "DATABASE" => session[p].msg \notin inbox
=============================================================================
