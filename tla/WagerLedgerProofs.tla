------------------------- MODULE WagerLedgerProofs -------------------------
(***************************************************************************)
(* The inductive invariant of WagerLedger and the theorems it gives, for   *)
(* every number of calls, wallets, requests and messages, every integer    *)
(* width, and either behaviour of a failed statement.                      *)
(*                                                                         *)
(* Types come first.  Until its commit a call changes its own session and  *)
(* lock entries only, so the lemmas then say what such a change must       *)
(* respect (a quiet step, a rollback, a row lock taken), and each action   *)
(* is brought under one of them; the commit is proved by itself.           *)
(*                                                                         *)
(* Then exactly once, and last the refinement of AtomicLedger, each with   *)
(* the invariant it needs.                                                 *)
(***************************************************************************)
EXTENDS WagerLedger, MoneyProofs

-----------------------------------------------------------------------------
(* Wallets and movements *)

\* A stored wallet's balance is money.
LEMMA BalanceIsMoney ==
  ASSUME NEW w \in Wallets
  PROVE  w.balance \in Monies /\ w.balance.amount \in 0 .. MaxInt64
BY MoneyAssumption DEF Wallets, Balances, Monies, Int64, MinInt64

\* The wallet a movement leaves is a wallet the table accepts.
LEMMA AfterMovementIsWallet ==
  ASSUME NEW w \in Wallets, NEW n \in 0 .. MaxInt64
  PROVE  AfterMovement(w, n) \in Wallets
BY DEF AfterMovement, Wallets, Balances
-----------------------------------------------------------------------------
(* Every step keeps the types of tables, locks and sessions *)

\* A session of the declared shape keeps the function of sessions typed.
LEMMA BecomeTyped ==
  ASSUME TypeOK, NEW p \in Procs, NEW s \in Sessions, Become(p, s)
  PROVE  session' \in [Procs -> Sessions]
BY DEF TypeOK, Become

LEMMA IdleTyped == IdleSession \in Sessions /\ NoReply \in Replies
BY MoneyAssumption DEF IdleSession, NoReply, Sessions, Replies, PCs, Codes

\* The types of one session, for use where Sessions would be expanded.
LEMMA SessionFields ==
  ASSUME NEW s \in Sessions
  PROVE  /\ s.pc \in PCs /\ s.op \in {"none", "wager", "resolve", "open"}
         /\ s.req \in Requests \cup {NoRequest} /\ s.msg \in Msgs \cup {NoMsg}
         /\ s.claim \in BOOLEAN /\ s.aborted \in BOOLEAN
         /\ s.row \in Rows \cup {NoRow} /\ s.found \in Rows \cup {NoRow}
         /\ s.before \in Wallets \cup {NoWallet} /\ s.after \in Wallets \cup {NoWallet}
         /\ s.reply \in Replies
BY DEF Sessions

LEMMA StartedTyped ==
  ASSUME NEW op \in {"none", "wager", "resolve", "open"}, NEW r \in Requests \cup {NoRequest},
         NEW m \in Msgs \cup {NoMsg}, NEW pc \in PCs
  PROVE  Started(op, r, m, pc) \in Sessions
BY IdleTyped DEF Started, IdleSession, Sessions

LEMMA EndedTyped ==
  ASSUME NEW s \in Sessions, NEW reply \in Replies
  PROVE  Ended(s, reply) \in Sessions
<1>1. Started(s.op, s.req, s.msg, "replied") \in Sessions
  BY StartedTyped, SessionFields DEF PCs
<1>2. QED
  BY <1>1 DEF Ended, Sessions

LEMMA FailedTyped ==
  ASSUME NEW s \in Sessions, NEW code \in Codes
  PROVE  Failed(s, code) \in Sessions
<1>1. [NoReply EXCEPT !.code = code] \in Replies
  BY IdleTyped DEF NoReply, Replies
<1>2. QED
  BY <1>1, EndedTyped DEF Failed

LEMMA FreedTyped ==
  ASSUME NEW D, NEW lock \in [D -> Procs \cup {NoProc}], NEW p \in Procs
  PROVE  Freed(lock, p) \in [D -> Procs \cup {NoProc}]
BY DEF Freed

LEMMA RollbackTyped ==
  ASSUME TypeOK, NEW p \in Procs, NEW code \in Codes, Rollback(p, code)
  PROVE  TypeOK'
<1>1. session[p] \in Sessions
  BY DEF TypeOK
<1>2. session' \in [Procs -> Sessions]
  BY <1>1, FailedTyped, BecomeTyped DEF Rollback
<1>3. walletLock' \in [WalletIds -> Procs \cup {NoProc}] /\ rowLock' \in [TxIds -> Procs \cup {NoProc}]
  BY FreedTyped DEF Rollback, ReleaseLocks, TypeOK
<1>4. QED
  BY <1>2, <1>3 DEF Rollback, db, TypeOK

LEMMA QuietTyped ==
  ASSUME TypeOK, NEW p \in Procs, NEW s \in Sessions, Become(p, s), UNCHANGED <<db, locks>>
  PROVE  TypeOK'
BY BecomeTyped DEF TypeOK, db, locks

LEMMA LookupTyped ==
  ASSUME TypeOK
  PROVE  /\ \A ext : FindByExternalID(ext) \in Rows \cup {NoRow}
         /\ \A key : FindByIdempotencyKey(key) \in Rows \cup {NoRow}
BY DEF FindByExternalID, FindByIdempotencyKey, TheRow, Stored, TypeOK

LEMMA RequestTyped ==
  ASSUME NEW r \in Requests
  PROVE  /\ TxId(r) \in TxIds /\ r.wallet \in WalletIds /\ r.money \in Monies
         /\ r.kind \in Kinds /\ r.player \in Players
BY LedgerAssumption DEF Requests, TxId

-----------------------------------------------------------------------------
(* Type correctness *)

\* The facts about the acting session that every case below starts from.
LEMMA ActorSound ==
  ASSUME TypeOK, SessionsAreSound, NEW p \in Procs
  PROVE  session[p] \in Sessions /\ SessionIsSound(session[p])
BY DEF TypeOK, SessionsAreSound

LEMMA BeginTyped ==
  ASSUME TypeOK, NEW p \in Procs, Begin(p)
  PROVE  TypeOK'
<1>1. CASE \E r \in HttpRequests : BeginWager(p, r, NoMsg) \/ RefuseInput(p, r, NoMsg)
  <2> PICK r \in HttpRequests : BeginWager(p, r, NoMsg) \/ RefuseInput(p, r, NoMsg)
    BY <1>1
  <2>1. r \in Requests
    BY LedgerAssumption
  <2>2. /\ Started("wager", r, NoMsg, "findExternal") \in Sessions
        /\ Failed(Started("wager", r, NoMsg, "idle"), "INVALID") \in Sessions
    BY <2>1, StartedTyped, FailedTyped DEF PCs, Codes
  <2>3. QED
    BY <2>2, QuietTyped DEF BeginWager, RefuseInput
<1>2. CASE \E m \in Msgs : BeginWager(p, Body[m], m) \/ RefuseInput(p, Body[m], m)
  <2> PICK m \in Msgs : BeginWager(p, Body[m], m) \/ RefuseInput(p, Body[m], m)
    BY <1>2
  <2>1. Body[m] \in Requests /\ m # NoMsg
    BY LedgerAssumption, SessionAssumption
  <2>2. /\ Started("wager", Body[m], m, "saveInbox") \in Sessions
        /\ Failed(Started("wager", Body[m], m, "idle"), "INVALID") \in Sessions
    BY <2>1, StartedTyped, FailedTyped DEF PCs, Codes
  <2>3. QED
    BY <2>1, <2>2, QuietTyped DEF BeginWager, RefuseInput
<1>3. CASE \E t \in TxIds : BeginResolve(p, t)
  <2> PICK t \in TxIds : BeginResolve(p, t)
    BY <1>3
  <2>1. txs[t].req \in Requests
    BY DEF BeginResolve, TypeOK, Rows
  <2>2. Started("resolve", txs[t].req, NoMsg, "lockPending") \in Sessions
    BY <2>1, StartedTyped DEF PCs
  <2>3. QED
    BY <2>2, QuietTyped DEF BeginResolve
<1>4. CASE \E o \in Openings : BeginOpen(p, o)
  <2> PICK o \in Openings : BeginOpen(p, o)
    BY <1>4
  <2>1. Started("open", o, NoMsg, "insertWallet") \in Sessions
    BY LedgerAssumption, StartedTyped DEF PCs
  <2>2. QED
    BY <2>1, QuietTyped DEF BeginOpen
<1>5. QED
  BY <1>1, <1>2, <1>3, <1>4 DEF Begin

LEMMA ReplayTyped ==
  ASSUME TypeOK, NEW p \in Procs, NEW e \in Rows \cup {NoRow}, Replay(p, e)
  PROVE  TypeOK'
<1>1. session[p] \in Sessions
  BY DEF TypeOK
<1>2. [session[p] EXCEPT !.pc = "lockExisting", !.found = e] \in Sessions
  BY <1>1 DEF Sessions, PCs
<1>3. QED
  BY <1>2, QuietTyped DEF Replay

\* The statements that only read: the inbox, the two lookups, the references.
LEMMA ReadTyped ==
  ASSUME TypeOK, SessionsAreSound, NEW p \in Procs,
         \/ SaveInbox(p) \/ FindConsumed(p) \/ FindExternal(p) \/ FindKey(p)
         \/ FindPendingReference(p) \/ SaveTransaction(p) \/ StatementFails(p) \/ Fault(p)
         \/ Return(p)
  PROVE  TypeOK'
<1> DEFINE s == session[p]
<1>a. s \in Sessions /\ SessionIsSound(s)
  BY ActorSound
<1>1. CASE SaveInbox(p)
  <2>1. /\ [s EXCEPT !.pc = "findExternal", !.claim = TRUE] \in Sessions
        /\ \A aborts \in FailedStatementAborts :
             [s EXCEPT !.pc = "findConsumed", !.aborted = aborts] \in Sessions
    BY <1>a, SessionAssumption DEF Sessions, PCs
  <2>2. QED
    BY <1>1, <2>1, QuietTyped DEF SaveInbox
<1>2. CASE FindConsumed(p)
  <2> DEFINE e == FindByExternalID(s.req.ext)
             b == [req |-> s.req, status |-> "PENDING"]
             f == IF e = NoRow THEN b ELSE e
  <2>0. s.req \in Requests
    BY <1>2, <1>a DEF FindConsumed, At, SessionIsSound
  <2>1. b \in Rows /\ e \in Rows \cup {NoRow}
    BY <2>0, LookupTyped DEF Rows, Statuses
  <2> HIDE DEF b, e
  <2>a. f \in Rows
    BY <2>1
  <2> HIDE DEF f
  <2>2. [s EXCEPT !.pc = "lockExisting", !.found = f] \in Sessions
    BY <1>a, <2>a DEF Sessions, PCs
  <2> USE DEF b, e, f
  <2>3. QED
    BY <1>2, <2>2, QuietTyped DEF FindConsumed
<1>3. CASE FindExternal(p)
  <2>1. [s EXCEPT !.pc = "findKey"] \in Sessions
    BY <1>a DEF Sessions, PCs
  <2>2. QED
    BY <1>3, <2>1, ReplayTyped, RollbackTyped, LookupTyped, QuietTyped
       DEF FindExternal, Conflict, Codes
<1>4. CASE FindKey(p)
  <2>1. [s EXCEPT !.pc = "lockWallet"] \in Sessions
    BY <1>a DEF Sessions, PCs
  <2>2. QED
    BY <1>4, <2>1, ReplayTyped, RollbackTyped, LookupTyped, QuietTyped
       DEF FindKey, Conflict, Codes
<1>5. CASE FindPendingReference(p)
  <2>1. s.row \in Rows
    BY <1>5, <1>a DEF FindPendingReference, At, SessionIsSound, Sessions
  <2>2. /\ [s EXCEPT !.pc = "commit"] \in Sessions
        /\ [s EXCEPT !.pc = "commit", !.row.status = "REJECTED"] \in Sessions
        /\ [s EXCEPT !.pc = "lockPendingWallet"] \in Sessions
    BY <1>a, <2>1 DEF Sessions, PCs, Rows, Statuses
  <2>3. QED
    BY <1>5, <2>2, QuietTyped DEF FindPendingReference
<1>6. CASE SaveTransaction(p)
  <2>1. /\ [s EXCEPT !.pc = "commit"] \in Sessions
        /\ \A aborts \in FailedStatementAborts :
             [s EXCEPT !.pc = "findExternal", !.aborted = aborts] \in Sessions
    BY <1>a, SessionAssumption DEF Sessions, PCs
  <2>2. QED
    BY <1>6, <2>1, QuietTyped, RollbackTyped DEF SaveTransaction, Codes
<1>7. CASE StatementFails(p) \/ Fault(p)
  BY <1>7, RollbackTyped DEF StatementFails, Fault, Codes
<1>8. CASE Return(p)
  BY <1>8, IdleTyped, QuietTyped DEF Return
<1>9. QED
  BY <1>1, <1>2, <1>3, <1>4, <1>5, <1>6, <1>7, <1>8

\* A row lock taken for p keeps the table of locks typed.
LEMMA LockRowTyped ==
  ASSUME TypeOK, NEW p \in Procs, NEW w \in WalletIds, NEW s \in Sessions,
         LockRow(p, w), Become(p, s)
  PROVE  TypeOK'
<1>1. walletLock' \in [WalletIds -> Procs \cup {NoProc}]
  BY DEF LockRow, TypeOK
<1>2. QED
  BY <1>1, BecomeTyped DEF LockRow, TypeOK, db

\* What Decide makes of a session at a wallet it has locked.
LEMMA DecidedTyped ==
  ASSUME NEW s \in Sessions, s.req \in Requests, NEW before \in Wallets,
         NEW after \in Wallets \cup {NoWallet}, NEW status \in Statuses
  PROVE  [s EXCEPT !.pc = "save", !.before = before, !.after = after,
                   !.row = [req |-> s.req, status |-> status]] \in Sessions
<1>1. [req |-> s.req, status |-> status] \in Rows
  BY DEF Rows
<1> DEFINE r == [req |-> s.req, status |-> status]
<1> HIDE DEF r
<1>2. [s EXCEPT !.pc = "save", !.before = before, !.after = after, !.row = r] \in Sessions
  BY <1>1 DEF Sessions, PCs, r
<1>3. QED
  BY <1>2 DEF r

\* Debit and Credit leave wallets the table accepts.
LEMMA MovedTyped ==
  ASSUME NEW w \in Wallets, NEW m \in Monies
  PROVE  /\ Debit(w, m).err = "none" => Debit(w, m).wallet \in Wallets
         /\ Credit(w, m).err = "none" => Credit(w, m).wallet \in Wallets
<1>1. ASSUME Debit(w, m).err = "none"
      PROVE  Debit(w, m).wallet \in Wallets
  <2>1. w.balance.amount - m.amount \in 0 .. MaxInt64
    BY <1>1, DebitGives, BalanceIsMoney, MoneyAssumption
  <2>2. QED
    BY <1>1, <2>1, DebitGives, BalanceIsMoney, AfterMovementIsWallet
<1>2. ASSUME Credit(w, m).err = "none"
      PROVE  Credit(w, m).wallet \in Wallets
  BY <1>2, CreditGives, BalanceIsMoney, AfterMovementIsWallet
<1>3. QED
  BY <1>1, <1>2

\* The statements that lock a row.
LEMMA LockTyped ==
  ASSUME TypeOK, SessionsAreSound, NEW p \in Procs,
         \/ LockExisting(p) \/ LockWallet(p) \/ FindReference(p) \/ LockPending(p)
         \/ LockPendingWallet(p) \/ InsertWallet(p)
  PROVE  TypeOK'
<1> DEFINE s == session[p]
<1>a. s \in Sessions /\ SessionIsSound(s)
  BY ActorSound
<1>b. s.req \in Requests
  BY <1>a DEF LockExisting, LockWallet, FindReference, LockPending, LockPendingWallet,
              InsertWallet, At, SessionIsSound
<1>c. s.req.wallet \in WalletIds /\ s.req.money \in Monies /\ TxId(s.req) \in TxIds
  BY <1>b, RequestTyped
<1>1. CASE LockExisting(p)
  <2> DEFINE w == s.found.req.wallet
  <2>1. s.found \in Rows
    BY <1>1, <1>a DEF LockExisting, At, SessionIsSound, Sessions
  <2>2. w \in WalletIds
    BY <2>1, RequestTyped DEF Rows
  <2>3. wallets[w] \in Wallets
    BY <1>1, <2>2 DEF LockExisting, Lockable, TypeOK
  <2>4. [s EXCEPT !.pc = "commit", !.before = wallets[w], !.after = NoWallet] \in Sessions
    BY <1>a, <2>3 DEF Sessions, PCs
  <2>5. QED
    BY <1>1, <2>2, <2>4, LockRowTyped DEF LockExisting
<1>2. CASE LockWallet(p)
  <2> DEFINE w == s.req.wallet
             move == Moves(s.req, wallets[w])
  <2>1. CASE \E code \in Codes : Rollback(p, code)
    BY <2>1, RollbackTyped
  <2>2. CASE /\ Lockable(p, w) /\ LockRow(p, w)
             /\ \/ move.err = "none" /\ Decide(p, wallets[w], move.wallet, "PROCESSED")
                \/ Decide(p, wallets[w], NoWallet, "REJECTED")
                \/ Decide(p, wallets[w], NoWallet, "PROCESSED")
                \/ Become(p, [s EXCEPT !.pc = "findReference", !.before = wallets[w]])
    <3>1. wallets[w] \in Wallets
      BY <1>c, <2>2 DEF Lockable, TypeOK
    <3>2. move.err = "none" => move.wallet \in Wallets
      BY <3>1, <1>c, MovedTyped DEF Moves
    <3>3. [s EXCEPT !.pc = "findReference", !.before = wallets[w]] \in Sessions
      BY <1>a, <3>1 DEF Sessions, PCs
    <3> HIDE DEF move
    <3>4. PICK n \in Sessions : Become(p, n)
      BY <1>a, <1>b, <2>2, <3>1, <3>2, <3>3, DecidedTyped DEF Decide, Statuses
    <3>5. QED
      BY <1>c, <2>2, <3>4, LockRowTyped
  <2>3. QED
    BY <1>2, <2>1, <2>2 DEF LockWallet, Codes
<1>3. CASE FindReference(p)
  <2> DEFINE credit == Credit(s.before, s.req.money)
  <2>1. s.before \in Wallets
    BY <1>3, <1>a DEF FindReference, At, SessionIsSound, Sessions
  <2>2. credit.err = "none" => credit.wallet \in Wallets
    BY <2>1, <1>c, MovedTyped
  <2> HIDE DEF credit
  <2>3. CASE \E code \in Codes : Rollback(p, code)
    BY <2>3, RollbackTyped
  <2>4. CASE /\ UNCHANGED <<db, locks>>
             /\ \/ Decide(p, s.before, NoWallet, "PENDING_REFERENCE")
                \/ credit.err = "none" /\ Decide(p, s.before, credit.wallet, "PROCESSED")
    <3>1. PICK n \in Sessions : Become(p, n)
      BY <1>a, <1>b, <2>1, <2>2, <2>4, DecidedTyped DEF Decide, Statuses
    <3>2. QED
      BY <2>4, <3>1, QuietTyped
  <2>5. QED
    BY <1>3, <2>3, <2>4 DEF FindReference, Codes, credit
<1>4. CASE LockPending(p)
  <2> DEFINE t == TxId(s.req)
  <2>1. CASE /\ Become(p, Ended(s, [NoReply EXCEPT !.code = "ok"]))
             /\ UNCHANGED <<db, walletLock, rowLock>>
    <3>1. [NoReply EXCEPT !.code = "ok"] \in Replies
      BY IdleTyped DEF NoReply, Replies, Codes
    <3>2. QED
      BY <2>1, <1>a, <3>1, EndedTyped, QuietTyped DEF locks
  <2>2. CASE /\ txs[t] # NoRow
             /\ Become(p, [s EXCEPT !.pc = "findPendingReference", !.row = txs[t]])
             /\ rowLock' = [rowLock EXCEPT ![t] = p]
             /\ UNCHANGED <<db, walletLock>>
    <3>1. [s EXCEPT !.pc = "findPendingReference", !.row = txs[t]] \in Sessions
      BY <1>a, <1>c DEF TypeOK, Sessions, PCs
    <3>2. rowLock' \in [TxIds -> Procs \cup {NoProc}]
      BY <2>2 DEF TypeOK
    <3>3. session' \in [Procs -> Sessions]
      BY <2>2, <3>1, BecomeTyped
    <3>4. QED
      BY <2>2, <3>2, <3>3 DEF TypeOK, db
  <2>3. QED
    BY <1>4, <2>1, <2>2 DEF LockPending
<1>5. CASE LockPendingWallet(p)
  <2> DEFINE w == s.req.wallet
             credit == Credit(wallets[w], s.req.money)
  <2>1. s.row \in Rows /\ wallets[w] \in Wallets
    BY <1>5, <1>a, <1>c DEF LockPendingWallet, At, SessionIsSound, Sessions, Lockable, TypeOK
  <2>2. credit.err = "none" => credit.wallet \in Wallets
    BY <2>1, <1>c, MovedTyped
  <2> HIDE DEF credit
  <2>3. credit.err = "none" =>
          [s EXCEPT !.pc = "commit", !.row.status = "PROCESSED",
                    !.before = wallets[w], !.after = credit.wallet] \in Sessions
    BY <1>a, <2>1, <2>2 DEF Sessions, PCs, Rows, Statuses
  <2>4. QED
    BY <1>5, <1>c, <2>3, LockRowTyped, RollbackTyped DEF LockPendingWallet, Codes, credit
<1>6. CASE InsertWallet(p)
  <2> DEFINE opened == NewWallet(s.req.player, s.req.money).wallet
             row == [req |-> s.req, status |-> "PROCESSED"]
  <2>0. s.pc = "insertWallet" /\ s.op \in {"none", "wager", "resolve", "open"}
    BY <1>6, <1>a, SessionFields DEF InsertWallet, At
  <2>1. s.req \in Openings
    <3>1. s.op = "open"
      BY <2>0, <1>a DEF SessionIsSound, IdleSession
    <3>2. QED
      BY <3>1, <1>a DEF SessionIsSound
  <2>2. s.req.money.amount \in 0 .. MaxInt64
    BY <2>1, <1>c, LedgerAssumption, MoneyAssumption DEF Monies, Int64, MinInt64
  <2>3. opened \in Wallets
    BY <2>2, <1>b, <1>c, RequestTyped
       DEF NewWallet, IsNegative, Changed, WalletRecord, Wallets, Balances, Monies
  <2>4. row \in Rows
    BY <1>b DEF Rows, Statuses
  <2> HIDE DEF opened, row
  <2>5. /\ [s EXCEPT !.pc = "commit", !.after = opened] \in Sessions
        /\ [s EXCEPT !.pc = "save", !.after = opened, !.row = row] \in Sessions
    BY <1>a, <2>3, <2>4 DEF Sessions, PCs
  <2>6. QED
    BY <1>6, <2>5, QuietTyped, RollbackTyped DEF InsertWallet, Codes, opened, row
<1>7. QED
  BY <1>1, <1>2, <1>3, <1>4, <1>5, <1>6

\* What a commit adds to the tables and tells the caller has the declared types.
LEMMA WritesTyped ==
  ASSUME NEW s \in Sessions, SessionIsSound(s), s.pc = "commit"
  PROVE  /\ s.req \in Requests
         /\ HasMovement(s) => Entry(s.req, s.before, s.after) \in Entries
         /\ BalanceEvents(s) \subseteq Events /\ OutcomeEvents(s) \subseteq Events
         /\ Answer(s) \in Replies
<1>0. /\ s.req \in Requests /\ s.op \in {"open", "resolve", "wager"}
      /\ s.row \in Rows \cup {NoRow} /\ s.found \in Rows \cup {NoRow}
      /\ s.before \in Wallets \cup {NoWallet} /\ s.after \in Wallets \cup {NoWallet}
  BY SessionFields DEF SessionIsSound, IdleSession
<1>1. /\ TxId(s.req) \in TxIds /\ s.req.money \in Monies
      /\ s.before # NoWallet => s.before.balance.amount \in 0 .. MaxInt64
      /\ s.after # NoWallet => s.after.balance.amount \in 0 .. MaxInt64 /\ s.after.version \in Nat
  BY <1>0, RequestTyped, BalanceIsMoney DEF Wallets
<1>2. ASSUME HasMovement(s)
      PROVE  s.req.money.amount \in 1 .. MaxInt64
  <2>1. s.req.money.amount \in Int64
    BY <1>1 DEF Monies
  <2>2. CASE s.op = "open"
    BY <1>0, <1>1, <1>2, <2>1, <2>2, MoneyAssumption
       DEF HasMovement, Writes, SessionIsSound, MovementIsExact, Int64, MinInt64
  <2>3. CASE s.op # "open"
    BY <1>2, <2>1, <2>3, MoneyAssumption
       DEF HasMovement, Writes, SessionIsSound, MovementIsExact, Int64, MinInt64
  <2>4. QED
    BY <2>2, <2>3
<1>3. ASSUME HasMovement(s)
      PROVE  Entry(s.req, s.before, s.after) \in Entries
  BY <1>1, <1>2, <1>3, MoneyAssumption DEF Entry, Entries, HasMovement
<1>4. BalanceEvents(s) \subseteq Events
  BY <1>1 DEF BalanceEvents, HasMovement, Event, Events, EventTypes
<1>5. OutcomeEvents(s) \subseteq Events
  <2>1. CASE ~Writes(s)
    BY <2>1 DEF OutcomeEvents
  <2>2. CASE Writes(s) /\ s.op = "open"
    <3>1. s.after # NoWallet
      BY <2>2, <1>0 DEF Writes, SessionIsSound
    <3>2. QED
      BY <2>2, <3>1, <1>1 DEF OutcomeEvents, Event, Events, EventTypes
  <2>3. CASE Writes(s) /\ s.op = "wager"
    <3>1. StatusEvent[s.row.status] \in EventTypes
      BY <2>3 DEF Writes, SessionIsSound, StatusEvent, EventTypes
    <3>2. OutcomeEvents(s) = {Event(StatusEvent[s.row.status], s.req, 0)}
      BY <2>3 DEF OutcomeEvents
    <3>3. QED
      BY <3>1, <3>2, <1>1 DEF Event, Events
  <2>4. CASE Writes(s) /\ s.op = "resolve"
    BY <2>4, <1>1 DEF OutcomeEvents, Event, Events, EventTypes
  <2>5. QED
    BY <1>0, <2>1, <2>2, <2>3, <2>4
<1>6. Answer(s) \in Replies
  BY <1>0, <1>1, MoneyAssumption DEF Answer, Replies, Codes
<1>7. QED
  BY <1>0, <1>3, <1>4, <1>5, <1>6

LEMMA CommitTyped ==
  ASSUME TypeOK, SessionsAreSound, NEW p \in Procs, Commit(p)
  PROVE  TypeOK'
<1> DEFINE s == session[p]
           w == s.req.wallet
<1>a. s \in Sessions /\ SessionIsSound(s) /\ s.pc = "commit"
  BY ActorSound DEF Commit, At
<1>1. CASE Stale(s)
  BY <1>1, RollbackTyped DEF Commit, Codes
<1>2. CASE ~Stale(s)
  <2>0. /\ s.req \in Requests /\ w \in WalletIds /\ TxId(s.req) \in TxIds
        /\ HasMovement(s) => Entry(s.req, s.before, s.after) \in Entries
        /\ BalanceEvents(s) \subseteq Events /\ OutcomeEvents(s) \subseteq Events
        /\ Answer(s) \in Replies
    BY <1>a, WritesTyped, RequestTyped
  <2>1. txs' \in [TxIds -> Rows \cup {NoRow}]
    BY <1>2, <1>a, SessionFields DEF Commit, TypeOK
  <2>2. wallets' \in [WalletIds -> Wallets \cup {NoWallet}]
    BY <1>2, <1>a, SessionFields DEF Commit, TypeOK
  <2>3. ledger' \in [WalletIds -> Seq(Entries)]
    <3>1. CASE HasMovement(s)
      <4>1. ledger' = [ledger EXCEPT ![w] = Append(ledger[w], Entry(s.req, s.before, s.after))]
        BY <1>2, <3>1 DEF Commit
      <4>2. Append(ledger[w], Entry(s.req, s.before, s.after)) \in Seq(Entries)
        BY <2>0, <3>1 DEF TypeOK
      <4>3. QED
        BY <4>1, <4>2 DEF TypeOK
    <3>2. CASE ~HasMovement(s)
      BY <1>2, <3>2 DEF Commit, TypeOK
    <3>3. QED
      BY <3>1, <3>2
  <2>4. inbox' \subseteq Msgs
    BY <1>2, <1>a DEF Commit, TypeOK, SessionIsSound
  <2>5. outbox' \subseteq Events
    BY <1>2, <2>0 DEF Commit, TypeOK
  <2>6. walletLock' \in [WalletIds -> Procs \cup {NoProc}] /\ rowLock' \in [TxIds -> Procs \cup {NoProc}]
    BY <1>2, FreedTyped DEF Commit, ReleaseLocks, TypeOK
  <2>7. session' \in [Procs -> Sessions]
    <3>1. Ended(s, Answer(s)) \in Sessions /\ Failed(s, "FAULT") \in Sessions
      BY <1>a, <2>0, EndedTyped, FailedTyped DEF Codes
    <3>2. QED
      BY <1>2, <3>1, BecomeTyped DEF Commit
  <2>8. QED
    BY <2>1, <2>2, <2>3, <2>4, <2>5, <2>6, <2>7 DEF TypeOK
<1>3. QED
  BY <1>1, <1>2

LEMMA StepTyped ==
  ASSUME TypeOK, SessionsAreSound, [Next]_vars
  PROVE  TypeOK'
<1>1. CASE UNCHANGED vars
  BY <1>1 DEF vars, TypeOK
<1>2. ASSUME NEW p \in Procs, Begin(p) \/ Step(p) \/ Fault(p)
      PROVE  TypeOK'
  BY <1>2, BeginTyped, ReadTyped, LockTyped, CommitTyped DEF Step
<1>3. QED
  BY <1>1, <1>2 DEF Next

-----------------------------------------------------------------------------
(* What each kind of step must respect *)

\* All of the invariant but the types.
Rest == /\ SessionsAreSound /\ SnapshotIsCurrent
        /\ OpeningIsFresh /\ OneWalletPerCurrency /\ PendingIsRefund /\ LedgerChain

\* A session that creates nothing new may replace the one p had.
FreshFor(p, n) == Creates(n) => Creates(session[p]) /\ n.req = session[p].req

LEMMA TablesKept ==
  ASSUME OneWalletPerCurrency, PendingIsRefund, LedgerChain, UNCHANGED db
  PROVE  OneWalletPerCurrency' /\ PendingIsRefund' /\ LedgerChain'
BY DEF OneWalletPerCurrency, PendingIsRefund, LedgerChain, Stored, db

LEMMA SoundKept ==
  ASSUME TypeOK, SessionsAreSound, NEW p \in Procs, NEW n, Become(p, n), SessionIsSound(n)
  PROVE  SessionsAreSound'
<1>1. \A q \in Procs : session'[q] = IF q = p THEN n ELSE session[q]
  BY DEF Become, TypeOK
<1>2. SUFFICES ASSUME NEW q \in Procs PROVE SessionIsSound(session[q])'
  BY DEF SessionsAreSound
<1>3. SessionIsSound(session'[q])
  BY <1>1 DEF SessionsAreSound
<1>4. QED
  BY <1>3

LEMMA FreshKept ==
  ASSUME TypeOK, OpeningIsFresh, NEW p \in Procs, NEW n, Become(p, n), FreshFor(p, n),
         UNCHANGED db
  PROVE  OpeningIsFresh'
<1>1. \A q \in Procs : session'[q] = IF q = p THEN n ELSE session[q]
  BY DEF Become, TypeOK
<1>2. \A q \in Procs : Creates(session'[q]) => /\ Creates(session[q])
                                              /\ session'[q].req = session[q].req
  BY <1>1 DEF FreshFor
<1>3. \A o : Opened(o)' <=> Opened(o)
  BY DEF Opened, db
<1>4. QED
  BY <1>2, <1>3 DEF OpeningIsFresh, Creating, Creates

\* Other calls' snapshots stay current when neither their locks nor their wallets change.
LEMMA SnapshotKept ==
  ASSUME TypeOK, SnapshotIsCurrent, NEW p \in Procs, NEW n, Become(p, n),
         n.before # NoWallet => /\ walletLock'[WalletOf(n)] = p
                                /\ wallets'[WalletOf(n)] = n.before,
         \A q \in Procs \ {p} : session[q].before # NoWallet =>
           LET w == WalletOf(session[q])
           IN  walletLock[w] = q => walletLock'[w] = q /\ wallets'[w] = wallets[w]
  PROVE  SnapshotIsCurrent'
<1>1. \A q \in Procs : session'[q] = IF q = p THEN n ELSE session[q]
  BY DEF Become, TypeOK
<1>2. SUFFICES ASSUME NEW q \in Procs, session'[q].before # NoWallet
               PROVE  /\ walletLock'[WalletOf(session'[q])] = q
                      /\ wallets'[WalletOf(session'[q])] = session'[q].before
  BY DEF SnapshotIsCurrent, WalletOf
<1>3. QED
  BY <1>1, <1>2 DEF SnapshotIsCurrent

\* A step that changes the session only (or takes a row lock on a transaction too).
LEMMA QuietKeeps ==
  ASSUME TypeOK, Rest, NEW p \in Procs, NEW n, Become(p, n), UNCHANGED <<db, walletLock>>,
         SessionIsSound(n), FreshFor(p, n),
         n.before # NoWallet => /\ n.before = session[p].before
                                /\ WalletOf(n) = WalletOf(session[p])
  PROVE  Rest'
<1>1. SnapshotIsCurrent'
  <2>1. n.before # NoWallet => /\ walletLock'[WalletOf(n)] = p
                               /\ wallets'[WalletOf(n)] = n.before
    BY DEF Rest, SnapshotIsCurrent, db
  <2>2. walletLock' = walletLock /\ wallets' = wallets
    BY DEF db
  <2>3. QED
    BY <2>1, <2>2, SnapshotKept DEF Rest
<1>2. QED
  BY <1>1, SoundKept, FreshKept, TablesKept DEF Rest, db

\* A session that has ended is sound and holds nothing.
LEMMA EndedIsSound ==
  ASSUME NEW s \in Sessions, SessionIsSound(s), s.req \in Requests, s.op # "none", NEW reply
  PROVE  /\ SessionIsSound(Ended(s, reply))
         /\ Ended(s, reply).before = NoWallet /\ Ended(s, reply).pc = "replied"
<1>1. /\ Ended(s, reply).pc = "replied" /\ Ended(s, reply).op = s.op
      /\ Ended(s, reply).req = s.req /\ Ended(s, reply).msg = s.msg
      /\ ~Ended(s, reply).claim
      /\ Ended(s, reply).row = NoRow /\ Ended(s, reply).found = NoRow
      /\ Ended(s, reply).before = NoWallet /\ Ended(s, reply).after = NoWallet
  BY DEF Ended, Started, IdleSession
<1>2. s.op \in {"wager", "resolve", "open"}
  BY SessionFields
<1> HIDE DEF Ended
<1>3. QED
  BY <1>1, <1>2 DEF SessionIsSound, MovementIsExact, PCs

LEMMA RollbackKeeps ==
  ASSUME TypeOK, Rest, NEW p \in Procs, NEW code, session[p].pc # "idle", Rollback(p, code)
  PROVE  Rest'
<1> DEFINE s == session[p]
           n == Failed(s, code)
<1>a. s \in Sessions /\ SessionIsSound(s) /\ s.req \in Requests /\ s.op # "none"
  <2>1. s \in Sessions /\ SessionIsSound(s)
    BY DEF TypeOK, Rest, SessionsAreSound
  <2>2. QED
    BY <2>1 DEF SessionIsSound, IdleSession
<1>b. SessionIsSound(n) /\ n.before = NoWallet /\ n.pc = "replied"
  BY <1>a, EndedIsSound DEF Failed
<1>c. Become(p, n) /\ UNCHANGED db /\ walletLock' = Freed(walletLock, p)
  BY DEF Rollback, ReleaseLocks
<1> HIDE DEF n
<1>1. SnapshotIsCurrent'
  <2>1. ASSUME NEW q \in Procs \ {p}, session[q].before # NoWallet,
               walletLock[WalletOf(session[q])] = q
        PROVE  walletLock'[WalletOf(session[q])] = q
    <3>1. WalletOf(session[q]) \in WalletIds
      <4>1. session[q] \in Sessions /\ session[q].req \in Requests
        <5>1. session[q] \in Sessions /\ SessionIsSound(session[q])
          BY DEF TypeOK, Rest, SessionsAreSound
        <5>2. session[q].pc # "idle"
          BY <2>1, <5>1, SessionFields DEF SessionIsSound, IdleSession, PCs
        <5>3. QED
          BY <5>1, <5>2 DEF SessionIsSound
      <4>2. QED
        BY <4>1, RequestTyped, SessionFields DEF WalletOf, Rows
    <3>2. QED
      BY <2>1, <3>1, <1>c DEF Freed, TypeOK
  <2>2. QED
    BY <1>b, <1>c, <2>1, SnapshotKept DEF Rest, db
<1>2. QED
  BY <1>1, <1>b, <1>c, SoundKept, FreshKept, TablesKept DEF Rest, FreshFor, Creates

\* A step that reads a wallet under its row lock.
LEMMA LockKeeps ==
  ASSUME TypeOK, Rest, NEW p \in Procs, NEW n, NEW w \in WalletIds, Become(p, n),
         LockRow(p, w), WalletFree(p, w), SessionIsSound(n), FreshFor(p, n),
         n.before = wallets[w], WalletOf(n) = w
  PROVE  Rest'
<1>1. walletLock' = [walletLock EXCEPT ![w] = p] /\ UNCHANGED db
  BY DEF LockRow
<1>2. SnapshotIsCurrent'
  <2>1. walletLock'[w] = p /\ wallets' = wallets
    BY <1>1 DEF TypeOK, db
  <2>2. ASSUME NEW q \in Procs \ {p}, NEW v, walletLock[v] = q
        PROVE  walletLock'[v] = q
    BY <1>1, <2>2, SessionAssumption DEF WalletFree, TypeOK
  <2>3. QED
    BY <2>1, <2>2, SnapshotKept DEF Rest
<1>3. QED
  BY <1>1, <1>2, SoundKept, FreshKept, TablesKept DEF Rest

-----------------------------------------------------------------------------
(* The actions before the commit *)

LEMMA StartedIsSound ==
  ASSUME NEW r \in Requests, NEW m \in Msgs \cup {NoMsg}
  PROVE  /\ \A pc \in {"findExternal", "replied"} : SessionIsSound(Started("wager", r, m, pc))
         /\ m # NoMsg => SessionIsSound(Started("wager", r, m, "saveInbox"))
         /\ r.kind \in {"REFUND", "ROLLBACK"} =>
              SessionIsSound(Started("resolve", r, m, "lockPending"))
         /\ r \in Openings => SessionIsSound(Started("open", r, m, "insertWallet"))
         /\ \A op, pc : /\ Started(op, r, m, pc).before = NoWallet
                        /\ Started(op, r, m, pc).pc = pc /\ Started(op, r, m, pc).op = op
BY DEF Started, IdleSession, SessionIsSound, MovementIsExact, PCs

LEMMA FailedStartIsSound ==
  ASSUME NEW r \in Requests, NEW m \in Msgs \cup {NoMsg}, NEW code
  PROVE  LET n == Failed(Started("wager", r, m, "idle"), code)
         IN  SessionIsSound(n) /\ n.before = NoWallet /\ n.pc = "replied"
BY DEF Failed, Ended, Started, IdleSession, SessionIsSound, MovementIsExact, PCs

LEMMA BeginKeeps ==
  ASSUME TypeOK, Rest, NEW p \in Procs, Begin(p)
  PROVE  Rest'
<1>1. ASSUME NEW r \in Requests, NEW m \in Msgs \cup {NoMsg}, BeginWager(p, r, m)
      PROVE  Rest'
  <2> DEFINE n == Started("wager", r, m, IF m = NoMsg THEN "findExternal" ELSE "saveInbox")
  <2>1. SessionIsSound(n) /\ n.before = NoWallet /\ n.pc \notin {"save", "commit"}
    BY StartedIsSound
  <2>2. Become(p, n) /\ UNCHANGED <<db, walletLock>>
    BY <1>1 DEF BeginWager, locks
  <2> HIDE DEF n
  <2>3. QED
    BY <2>1, <2>2, QuietKeeps DEF FreshFor, Creates
<1>2. ASSUME NEW r \in Requests, NEW m \in Msgs \cup {NoMsg}, RefuseInput(p, r, m)
      PROVE  Rest'
  <2> DEFINE n == Failed(Started("wager", r, m, "idle"), "INVALID")
  <2>1. SessionIsSound(n) /\ n.before = NoWallet /\ n.pc = "replied"
    BY FailedStartIsSound
  <2>2. Become(p, n) /\ UNCHANGED <<db, walletLock>>
    BY <1>2 DEF RefuseInput, locks
  <2> HIDE DEF n
  <2>3. QED
    BY <2>1, <2>2, QuietKeeps DEF FreshFor, Creates
<1>3. ASSUME NEW t \in TxIds, BeginResolve(p, t)
      PROVE  Rest'
  <2> DEFINE n == Started("resolve", txs[t].req, NoMsg, "lockPending")
  <2>1. txs[t].req \in Requests /\ txs[t].req.kind \in {"REFUND", "ROLLBACK"}
    BY <1>3 DEF BeginResolve, TypeOK, Rows, Rest, PendingIsRefund, Stored
  <2>2. SessionIsSound(n) /\ n.before = NoWallet /\ n.pc = "lockPending"
    BY <2>1, StartedIsSound
  <2>3. Become(p, n) /\ UNCHANGED <<db, walletLock>>
    BY <1>3 DEF BeginResolve, locks
  <2> HIDE DEF n
  <2>4. QED
    BY <2>2, <2>3, QuietKeeps DEF FreshFor, Creates
<1>4. ASSUME NEW o \in Openings, BeginOpen(p, o)
      PROVE  Rest'
  <2> DEFINE n == Started("open", o, NoMsg, "insertWallet")
  <2>1. SessionIsSound(n) /\ n.before = NoWallet /\ n.pc = "insertWallet"
    BY LedgerAssumption, StartedIsSound
  <2>2. Become(p, n) /\ UNCHANGED <<db, walletLock>>
    BY <1>4 DEF BeginOpen, locks
  <2> HIDE DEF n
  <2>3. QED
    BY <2>1, <2>2, QuietKeeps DEF FreshFor, Creates
<1>5. QED
  BY <1>1, <1>2, <1>3, <1>4, LedgerAssumption DEF Begin

\* A session between its statements: what the lemmas on actions start from.
LEMMA Acting ==
  ASSUME TypeOK, Rest, NEW p \in Procs
  PROVE  /\ session[p] \in Sessions /\ SessionIsSound(session[p])
         /\ session[p].before # NoWallet =>
              /\ walletLock[WalletOf(session[p])] = p
              /\ wallets[WalletOf(session[p])] = session[p].before
         /\ session[p].op = "none" <=> session[p].pc = "idle"
<1>1. session[p] \in Sessions /\ SessionIsSound(session[p])
  BY DEF TypeOK, Rest, SessionsAreSound
<1>2. session[p].op = "none" <=> session[p].pc = "idle"
  BY <1>1, SessionFields DEF SessionIsSound
<1>3. QED
  BY <1>1, <1>2 DEF Rest, SnapshotIsCurrent

\* A statement that fails, a crash, and every refusal end in a rollback.
LEMMA ErrorKeeps ==
  ASSUME TypeOK, Rest, NEW p \in Procs, NEW code, NEW pc \in PCs \ {"idle"},
         session[p].pc = pc, Rollback(p, code)
  PROVE  Rest'
BY RollbackKeeps

\* lookupExisting finds the transaction the request asks for.
LEMMA ReplayKeeps ==
  ASSUME TypeOK, Rest, NEW p \in Procs, NEW e \in Rows \cup {NoRow},
         session[p].pc \in {"findExternal", "findKey"}, Replay(p, e)
  PROVE  Rest'
<1> DEFINE s == session[p]
           n == [s EXCEPT !.pc = "lockExisting", !.found = e]
<1>a. s \in Sessions /\ SessionIsSound(s) /\ s.op = "wager" /\ s.found = NoRow
  BY Acting, SessionFields DEF SessionIsSound
<1>b. /\ n.pc = "lockExisting" /\ n.found = e /\ n.op = s.op /\ n.req = s.req
      /\ n.msg = s.msg /\ n.claim = s.claim /\ n.row = s.row
      /\ n.before = s.before /\ n.after = s.after
  BY <1>a DEF Sessions
<1>c. e # NoRow /\ e.req.wallet = s.req.wallet
  BY DEF Replay, PayloadHash
<1>d. Become(p, n) /\ UNCHANGED <<db, walletLock>>
  BY DEF Replay, locks
<1> HIDE DEF n
<1>1. SessionIsSound(n)
  BY <1>a, <1>b, <1>c DEF SessionIsSound, MovementIsExact, PCs
<1>2. WalletOf(n) = WalletOf(s)
  BY <1>a, <1>b, <1>c DEF WalletOf
<1>3. QED
  BY <1>1, <1>2, <1>b, <1>d, QuietKeeps DEF FreshFor, Creates

\* The inbox claim and the lookups.
LEMMA LookupKeeps ==
  ASSUME TypeOK, Rest, NEW p \in Procs,
         SaveInbox(p) \/ FindConsumed(p) \/ FindExternal(p) \/ FindKey(p)
  PROVE  Rest'
<1> DEFINE s == session[p]
<1>a. s \in Sessions /\ SessionIsSound(s)
  BY Acting
<1>b. s.op = "wager" /\ s.found = NoRow /\ s.req \in Requests
  BY <1>a, SessionFields DEF SessionIsSound, SaveInbox, FindConsumed, FindExternal, FindKey, At
<1>1. ASSUME NEW n, Become(p, n), UNCHANGED <<db, locks>>, SessionIsSound(n),
             n.before = s.before, n.found = s.found, n.req = s.req, n.op = "wager"
      PROVE  Rest'
  <2>1. WalletOf(n) = WalletOf(s) /\ FreshFor(p, n)
    BY <1>1 DEF WalletOf, FreshFor, Creates
  <2>2. QED
    BY <1>1, <2>1, QuietKeeps DEF locks
<1>2. CASE SaveInbox(p)
  <2> DEFINE n1 == [s EXCEPT !.pc = "findExternal", !.claim = TRUE]
             n2(aborts) == [s EXCEPT !.pc = "findConsumed", !.aborted = aborts]
  <2>1. /\ SessionIsSound(n1)
        /\ \A aborts \in FailedStatementAborts : SessionIsSound(n2(aborts))
    BY <1>2, <1>a, <1>b DEF SaveInbox, At, Sessions, SessionIsSound, MovementIsExact, PCs
  <2>2. /\ n1.before = s.before /\ n1.found = s.found /\ n1.req = s.req /\ n1.op = s.op
        /\ \A aborts \in FailedStatementAborts :
             /\ n2(aborts).before = s.before /\ n2(aborts).found = s.found
             /\ n2(aborts).req = s.req /\ n2(aborts).op = s.op
    BY <1>a DEF Sessions
  <2>3. /\ \/ Become(p, n1)
           \/ \E aborts \in FailedStatementAborts : Become(p, n2(aborts))
        /\ UNCHANGED <<db, locks>>
    BY <1>2 DEF SaveInbox
  <2> HIDE DEF n1, n2
  <2>4. QED
    BY <2>1, <2>2, <2>3, <1>b, <1>1
<1>3. CASE FindConsumed(p)
  <2> DEFINE e == FindByExternalID(s.req.ext)
             f == IF e = NoRow THEN [req |-> s.req, status |-> "PENDING"] ELSE e
             n == [s EXCEPT !.pc = "lockExisting", !.found = f]
  <2>1. f # NoRow
    <3>1. [req |-> s.req, status |-> "PENDING"] \in Rows
      BY <1>b DEF Rows, Statuses
    <3>2. QED
      BY <3>1, LedgerAssumption
  <2>2. Become(p, n) /\ UNCHANGED <<db, walletLock>>
    BY <1>3 DEF FindConsumed, locks
  <2> HIDE DEF f
  <2>3. SessionIsSound(n) /\ n.before = NoWallet /\ n.pc = "lockExisting"
    BY <1>3, <1>a, <1>b, <2>1
       DEF FindConsumed, At, Sessions, SessionIsSound, MovementIsExact, PCs
  <2> HIDE DEF n
  <2>4. QED
    BY <2>2, <2>3, QuietKeeps DEF FreshFor, Creates
<1>4. CASE FindExternal(p)
  <2> DEFINE e == FindByExternalID(s.req.ext)
             n == [s EXCEPT !.pc = "findKey"]
  <2>1. /\ SessionIsSound(n) /\ n.before = s.before /\ n.found = s.found
        /\ n.req = s.req /\ n.op = s.op
    BY <1>4, <1>a, <1>b DEF FindExternal, At, Sessions, SessionIsSound, MovementIsExact, PCs
  <2>2. e \in Rows \cup {NoRow} /\ s.pc = "findExternal"
    BY <1>4, LookupTyped DEF FindExternal, At
  <2>3. \/ Replay(p, e)
        \/ Rollback(p, "CONFLICT")
        \/ Become(p, n) /\ UNCHANGED <<db, locks>>
    BY <1>4 DEF FindExternal, Conflict
  <2> HIDE DEF n, e
  <2>4. QED
    BY <2>1, <2>2, <2>3, <1>1, <1>b, ReplayKeeps, ErrorKeeps DEF PCs
<1>5. CASE FindKey(p)
  <2> DEFINE e == FindByIdempotencyKey(s.req.key)
             n == [s EXCEPT !.pc = "lockWallet"]
  <2>1. e \in Rows \cup {NoRow} /\ s.pc = "findKey"
    BY <1>5, LookupTyped DEF FindKey, At
  <2>2. \/ Replay(p, e)
        \/ Rollback(p, "CONFLICT")
        \/ s.row = NoRow /\ Become(p, n) /\ UNCHANGED <<db, locks>>
    BY <1>5 DEF FindKey, Conflict
  <2>3. ASSUME s.row = NoRow
        PROVE  /\ SessionIsSound(n) /\ n.before = s.before /\ n.found = s.found
               /\ n.req = s.req /\ n.op = s.op
    BY <2>1, <2>3, <1>a, <1>b DEF Sessions, SessionIsSound, MovementIsExact, PCs
  <2> HIDE DEF n, e
  <2>4. QED
    BY <2>1, <2>2, <2>3, <1>1, <1>b, ReplayKeeps, ErrorKeeps DEF PCs
<1>6. QED
  BY <1>2, <1>3, <1>4, <1>5

\* The decision of a wager under its wallet's lock.
LEMMA LockExistingKeeps ==
  ASSUME TypeOK, Rest, NEW p \in Procs, LockExisting(p)
  PROVE  Rest'
<1> DEFINE s == session[p]
           w == s.found.req.wallet
           n == [s EXCEPT !.pc = "commit", !.before = wallets[w], !.after = NoWallet]
<1>a. s \in Sessions /\ SessionIsSound(s) /\ s.pc = "lockExisting" /\ s.found # NoRow
  BY Acting DEF LockExisting, At, SessionIsSound
<1>b. w \in WalletIds
  BY <1>a, RequestTyped DEF Sessions, Rows
<1>c. s.op = "wager"
  BY <1>a, SessionFields DEF SessionIsSound
<1>1. /\ n.pc = "commit" /\ n.op = s.op /\ n.req = s.req /\ n.msg = s.msg
      /\ n.claim = s.claim /\ n.row = s.row /\ n.found = s.found
      /\ n.before = wallets[w] /\ n.after = NoWallet
  BY <1>a DEF Sessions
<1>2. Become(p, n) /\ LockRow(p, w) /\ WalletFree(p, w)
  BY DEF LockExisting, Lockable
<1> HIDE DEF n
<1>3. SessionIsSound(n)
  BY <1>a, <1>c, <1>1 DEF SessionIsSound, MovementIsExact, PCs
<1>4. FreshFor(p, n) /\ WalletOf(n) = w
  BY <1>a, <1>c, <1>1 DEF FreshFor, Creates, WalletOf
<1>5. QED
  BY <1>b, <1>1, <1>2, <1>3, <1>4, LockKeeps

\* The session Decide leaves.
Decided(s, before, after, status) ==
  [s EXCEPT !.pc = "save", !.before = before, !.after = after,
            !.row = [req |-> s.req, status |-> status]]

\* A decided session is sound if the wallet to store has exactly the request's movement.
LEMMA DecidedIsSound ==
  ASSUME NEW s \in Sessions, SessionIsSound(s), s.op = "wager", s.found = NoRow,
         s.req \in Requests, NEW before, NEW after, NEW status \in DOMAIN StatusEvent,
         status = "PENDING_REFERENCE" => s.req.kind \in {"REFUND", "ROLLBACK"},
         after # NoWallet =>
           /\ before # NoWallet /\ s.req.money.amount > 0 /\ SameHolder(before, after)
           /\ after.balance.amount = IF s.req.kind = "BET"
                                     THEN before.balance.amount - s.req.money.amount
                                     ELSE before.balance.amount + s.req.money.amount
  PROVE  /\ SessionIsSound(Decided(s, before, after, status))
         /\ Decided(s, before, after, status).before = before
         /\ Decided(s, before, after, status).op = "wager"
         /\ Decided(s, before, after, status).found = NoRow
         /\ Decided(s, before, after, status).req = s.req
<1> DEFINE r == [req |-> s.req, status |-> status]
           n == [s EXCEPT !.pc = "save", !.before = before, !.after = after, !.row = r]
<1>1. r # NoRow /\ r.req = s.req /\ r.status = status
  <2>1. r \in Rows
    BY DEF Rows, Statuses, StatusEvent
  <2>2. QED
    BY <2>1, LedgerAssumption
<1> HIDE DEF r
<1>2. /\ n.pc = "save" /\ n.op = "wager" /\ n.req = s.req /\ n.msg = s.msg
      /\ n.claim = s.claim /\ n.row = r /\ n.found = NoRow
      /\ n.before = before /\ n.after = after
  BY DEF Sessions
<1> HIDE DEF n
<1>3. SessionIsSound(n)
  BY <1>1, <1>2 DEF SessionIsSound, MovementIsExact, PCs
<1>4. QED
  BY <1>2, <1>3 DEF n, r, Decided

\* Debit and Credit move exactly the amount asked for.
LEMMA MovesExactly ==
  ASSUME NEW w \in Wallets, NEW m \in Monies
  PROVE  /\ Debit(w, m).err = "none" =>
              /\ m.amount > 0 /\ SameHolder(w, Debit(w, m).wallet)
              /\ Debit(w, m).wallet.balance.amount = w.balance.amount - m.amount
         /\ Credit(w, m).err = "none" =>
              /\ m.amount > 0 /\ SameHolder(w, Credit(w, m).wallet)
              /\ Credit(w, m).wallet.balance.amount = w.balance.amount + m.amount
<1>1. w.balance.amount \in 0 .. MaxInt64 /\ m.amount \in Int64
  BY BalanceIsMoney DEF Monies
<1>a. \A n : AfterMovement(w, n).balance.amount = n /\ SameHolder(w, AfterMovement(w, n))
  BY DEF AfterMovement, SameHolder
<1>2. ASSUME Debit(w, m).err = "none"
      PROVE  /\ m.amount > 0 /\ SameHolder(w, Debit(w, m).wallet)
             /\ Debit(w, m).wallet.balance.amount = w.balance.amount - m.amount
  <2>1. /\ m.amount \in 1 .. w.balance.amount
        /\ Debit(w, m).wallet = AfterMovement(w, w.balance.amount - m.amount)
    BY <1>2, DebitGives, BalanceIsMoney
  <2>2. QED
    BY <1>1, <1>a, <2>1, MoneyAssumption DEF Int64, MinInt64
<1>3. ASSUME Credit(w, m).err = "none"
      PROVE  /\ m.amount > 0 /\ SameHolder(w, Credit(w, m).wallet)
             /\ Credit(w, m).wallet.balance.amount = w.balance.amount + m.amount
  <2>1. /\ m.amount \in 1 .. MaxInt64
        /\ Credit(w, m).wallet = AfterMovement(w, w.balance.amount + m.amount)
    BY <1>3, CreditGives, BalanceIsMoney
  <2>2. QED
    BY <1>1, <1>a, <2>1, MoneyAssumption DEF Int64, MinInt64
<1>4. QED
  BY <1>2, <1>3

LEMMA LockWalletKeeps ==
  ASSUME TypeOK, Rest, NEW p \in Procs, LockWallet(p)
  PROVE  Rest'
<1> DEFINE s == session[p]
           w == s.req.wallet
           move == Moves(s.req, wallets[w])
           waiting == [s EXCEPT !.pc = "findReference", !.before = wallets[w]]
<1>a. s \in Sessions /\ SessionIsSound(s) /\ s.pc = "lockWallet"
  BY Acting DEF LockWallet, At
<1>b. s.op = "wager" /\ s.found = NoRow /\ s.req \in Requests
  BY <1>a, SessionFields DEF SessionIsSound
<1>c. w \in WalletIds /\ s.req.money \in Monies
  BY <1>b, RequestTyped
<1>1. CASE \E code \in Codes : Rollback(p, code)
  BY <1>1, <1>a, ErrorKeeps DEF PCs
<1>2. ASSUME Lockable(p, w), LockRow(p, w), NEW n, Become(p, n), SessionIsSound(n),
             n.before = wallets[w], n.op = "wager", n.found = NoRow, n.req = s.req
      PROVE  Rest'
  <2>1. FreshFor(p, n) /\ WalletOf(n) = w
    BY <1>2 DEF FreshFor, Creates, WalletOf
  <2>2. QED
    BY <1>c, <1>2, <2>1, LockKeeps DEF Lockable
<1>3. ASSUME Lockable(p, w), LockRow(p, w), s.req.kind \in {"BET", "WIN"}, move.err = "none",
             Decide(p, wallets[w], move.wallet, "PROCESSED")
      PROVE  Rest'
  <2> DEFINE n == Decided(s, wallets[w], move.wallet, "PROCESSED")
  <2>1. wallets[w] \in Wallets
    BY <1>c, <1>3 DEF Lockable, TypeOK
  <2>2. /\ s.req.money.amount > 0 /\ SameHolder(wallets[w], move.wallet)
        /\ move.wallet.balance.amount =
             IF s.req.kind = "BET" THEN wallets[w].balance.amount - s.req.money.amount
             ELSE wallets[w].balance.amount + s.req.money.amount
    BY <1>c, <1>3, <2>1, MovesExactly DEF Moves
  <2> HIDE DEF move
  <2>3. /\ SessionIsSound(n) /\ n.before = wallets[w] /\ n.op = "wager"
        /\ n.found = NoRow /\ n.req = s.req
    BY <1>a, <1>b, <2>1, <2>2, LedgerAssumption, DecidedIsSound DEF StatusEvent
  <2>4. Become(p, n)
    BY <1>3 DEF Decide, Decided
  <2> HIDE DEF n
  <2>5. QED
    BY <1>2, <1>3, <2>3, <2>4
<1>4. ASSUME Lockable(p, w), LockRow(p, w), NEW status \in {"REJECTED", "PROCESSED"},
             Decide(p, wallets[w], NoWallet, status)
      PROVE  Rest'
  <2> DEFINE n == Decided(s, wallets[w], NoWallet, status)
  <2>1. /\ SessionIsSound(n) /\ n.before = wallets[w] /\ n.op = "wager"
        /\ n.found = NoRow /\ n.req = s.req
    BY <1>a, <1>b, DecidedIsSound DEF StatusEvent
  <2>2. Become(p, n)
    BY <1>4 DEF Decide, Decided
  <2> HIDE DEF n
  <2>3. QED
    BY <1>2, <1>4, <2>1, <2>2
<1>5. ASSUME Lockable(p, w), LockRow(p, w), Become(p, waiting),
             s.req.kind \in {"REFUND", "ROLLBACK"}
      PROVE  Rest'
  <2>1. /\ waiting.pc = "findReference" /\ waiting.op = "wager" /\ waiting.req = s.req
        /\ waiting.msg = s.msg /\ waiting.claim = s.claim /\ waiting.row = s.row
        /\ waiting.found = NoRow /\ waiting.before = wallets[w] /\ waiting.after = s.after
    BY <1>a, <1>b DEF Sessions
  <2> HIDE DEF waiting
  <2>2. SessionIsSound(waiting)
    BY <1>a, <1>b, <1>5, <2>1 DEF Lockable, SessionIsSound, MovementIsExact, PCs
  <2>3. QED
    BY <1>2, <1>5, <2>1, <2>2
<1>6. QED
  <2> HIDE DEF move
  <2>1. \/ \E code \in Codes : Rollback(p, code)
        \/ /\ Lockable(p, w) /\ LockRow(p, w)
           /\ \/ /\ s.req.kind \in {"BET", "WIN"} /\ move.err = "none"
                 /\ Decide(p, wallets[w], move.wallet, "PROCESSED")
              \/ Decide(p, wallets[w], NoWallet, "REJECTED")
              \/ Decide(p, wallets[w], NoWallet, "PROCESSED")
              \/ s.req.kind \in {"REFUND", "ROLLBACK"} /\ Become(p, waiting)
    BY DEF LockWallet, Codes, move
  <2>2. QED
    BY <2>1, <1>1, <1>3, <1>4, <1>5

LEMMA FindReferenceKeeps ==
  ASSUME TypeOK, Rest, NEW p \in Procs, FindReference(p)
  PROVE  Rest'
<1> DEFINE s == session[p]
           credit == Credit(s.before, s.req.money)
           pending == Decided(s, s.before, NoWallet, "PENDING_REFERENCE")
           paid == Decided(s, s.before, credit.wallet, "PROCESSED")
<1>a. s \in Sessions /\ SessionIsSound(s) /\ s.pc = "findReference"
  BY Acting DEF FindReference, At
<1>b. /\ s.op = "wager" /\ s.found = NoRow /\ s.req \in Requests
      /\ s.before \in Wallets /\ s.req.kind \in {"REFUND", "ROLLBACK"}
  <2>1. s.op = "wager" /\ s.found = NoRow /\ s.req \in Requests /\ s.before \in Wallets
    BY <1>a, SessionFields DEF SessionIsSound
  <2>2. s.req.kind \in {"REFUND", "ROLLBACK"}
    BY <1>a DEF SessionIsSound
  <2>3. QED
    BY <2>1, <2>2
<1>1. ASSUME NEW n, Become(p, n), UNCHANGED <<db, locks>>, SessionIsSound(n),
             n.before = s.before, n.found = NoRow, n.req = s.req, n.op = "wager"
      PROVE  Rest'
  <2>1. WalletOf(n) = WalletOf(s) /\ FreshFor(p, n)
    BY <1>b, <1>1 DEF WalletOf, FreshFor, Creates
  <2>2. QED
    BY <1>1, <2>1, QuietKeeps DEF locks
<1>2. CASE \E code \in Codes : Rollback(p, code)
  BY <1>2, <1>a, ErrorKeeps DEF PCs
<1>3. CASE Become(p, pending) /\ UNCHANGED <<db, locks>>
  <2>1. /\ SessionIsSound(pending) /\ pending.before = s.before /\ pending.found = NoRow
        /\ pending.req = s.req /\ pending.op = "wager"
    BY <1>a, <1>b, DecidedIsSound DEF StatusEvent
  <2> HIDE DEF pending
  <2>2. QED
    BY <1>1, <1>3, <2>1
<1>4. CASE credit.err = "none" /\ Become(p, paid) /\ UNCHANGED <<db, locks>>
  <2>1. /\ s.req.money.amount > 0 /\ SameHolder(s.before, credit.wallet)
        /\ credit.wallet.balance.amount = s.before.balance.amount + s.req.money.amount
    BY <1>b, <1>4, RequestTyped, MovesExactly
  <2> HIDE DEF credit
  <2>2. /\ SessionIsSound(paid) /\ paid.before = s.before /\ paid.found = NoRow
        /\ paid.req = s.req /\ paid.op = "wager"
    BY <1>a, <1>b, <2>1, LedgerAssumption, DecidedIsSound DEF StatusEvent
  <2> HIDE DEF paid
  <2>3. QED
    BY <1>1, <1>4, <2>2
<1>5. QED
  <2> HIDE DEF credit
  <2>1. \/ \E code \in Codes : Rollback(p, code)
        \/ Become(p, pending) /\ UNCHANGED <<db, locks>>
        \/ credit.err = "none" /\ Become(p, paid) /\ UNCHANGED <<db, locks>>
    BY DEF FindReference, Codes, Decide, Decided, credit
  <2>2. QED
    BY <2>1, <1>2, <1>3, <1>4

LEMMA SaveKeeps ==
  ASSUME TypeOK, Rest, NEW p \in Procs, SaveTransaction(p)
  PROVE  Rest'
<1> DEFINE s == session[p]
           saved == [s EXCEPT !.pc = "commit"]
           again(aborts) == [s EXCEPT !.pc = "findExternal", !.aborted = aborts]
<1>a. s \in Sessions /\ SessionIsSound(s) /\ s.pc = "save"
  BY Acting DEF SaveTransaction, At
<1>b. s.op \in {"wager", "open"} /\ s.found = NoRow /\ s.req \in Requests
  BY <1>a, SessionFields DEF SessionIsSound
<1>1. CASE Rollback(p, "CONFLICT")
  BY <1>1, <1>a, ErrorKeeps DEF PCs
<1>2. CASE Become(p, saved) /\ UNCHANGED <<db, locks>>
  <2>1. /\ saved.pc = "commit" /\ saved.op = s.op /\ saved.req = s.req /\ saved.msg = s.msg
        /\ saved.claim = s.claim /\ saved.row = s.row /\ saved.found = s.found
        /\ saved.before = s.before /\ saved.after = s.after
    BY <1>a DEF Sessions
  <2> HIDE DEF saved
  <2>2. SessionIsSound(saved)
    BY <1>a, <1>b, <2>1 DEF SessionIsSound, MovementIsExact, PCs
  <2>3. WalletOf(saved) = WalletOf(s) /\ FreshFor(p, saved)
    BY <1>a, <2>1 DEF WalletOf, FreshFor, Creates
  <2>4. QED
    BY <1>2, <2>1, <2>2, <2>3, QuietKeeps DEF locks
<1>3. ASSUME NEW aborts \in FailedStatementAborts,
             s.op = "wager", Become(p, again(aborts)), UNCHANGED <<db, locks>>
      PROVE  Rest'
  <2> DEFINE n == again(aborts)
  <2>1. /\ n.pc = "findExternal" /\ n.op = s.op /\ n.req = s.req /\ n.msg = s.msg
        /\ n.claim = s.claim /\ n.row = s.row /\ n.found = s.found
        /\ n.before = s.before /\ n.after = s.after
    BY <1>a DEF Sessions
  <2>0. Become(p, n)
    BY <1>3
  <2> HIDE DEF n
  <2>2. SessionIsSound(n)
    BY <1>a, <1>b, <1>3, <2>1 DEF SessionIsSound, MovementIsExact, PCs
  <2>3. WalletOf(n) = WalletOf(s) /\ FreshFor(p, n)
    BY <2>1 DEF WalletOf, FreshFor, Creates
  <2>4. QED
    BY <1>3, <2>0, <2>1, <2>2, <2>3, QuietKeeps DEF locks
<1>4. QED
  BY <1>1, <1>2, <1>3 DEF SaveTransaction

\* The statements of ResolvePendingReference.
LEMMA ResolveKeeps ==
  ASSUME TypeOK, Rest, NEW p \in Procs,
         LockPending(p) \/ FindPendingReference(p) \/ LockPendingWallet(p)
  PROVE  Rest'
<1> DEFINE s == session[p]
           w == s.req.wallet
<1>a. s \in Sessions /\ SessionIsSound(s)
  BY Acting
<1>b. /\ s.op = "resolve" /\ s.found = NoRow /\ s.req \in Requests
      /\ s.req.kind \in {"REFUND", "ROLLBACK"} /\ s.op # "none"
  <2>1. s.op = "resolve"
    BY <1>a, SessionFields DEF SessionIsSound, LockPending, FindPendingReference,
                               LockPendingWallet, At
  <2>2. s.req \in Requests
    BY <1>a DEF SessionIsSound, LockPending, FindPendingReference, LockPendingWallet, At
  <2>3. QED
    BY <1>a, <2>1, <2>2 DEF SessionIsSound
<1>1. CASE LockPending(p)
  <2> DEFINE t == TxId(s.req)
             done == Ended(s, [NoReply EXCEPT !.code = "ok"])
             n == [s EXCEPT !.pc = "findPendingReference", !.row = txs[t]]
  <2>0. s.pc = "lockPending" /\ UNCHANGED <<db, walletLock>>
    BY <1>1 DEF LockPending, At
  <2>1. CASE Become(p, done)
    <3>1. SessionIsSound(done) /\ done.before = NoWallet /\ done.pc = "replied"
      BY <1>a, <1>b, EndedIsSound
    <3> HIDE DEF done
    <3>2. QED
      BY <2>0, <2>1, <3>1, QuietKeeps DEF FreshFor, Creates
  <2>2. CASE txs[t] # NoRow /\ txs[t].status = "PENDING_REFERENCE" /\ Become(p, n)
    <3>1. txs[t].req.kind \in {"REFUND", "ROLLBACK"}
      BY <2>2, <1>b, RequestTyped DEF Rest, PendingIsRefund, Stored
    <3>2. /\ n.pc = "findPendingReference" /\ n.op = s.op /\ n.req = s.req /\ n.msg = s.msg
          /\ n.claim = s.claim /\ n.row = txs[t] /\ n.found = s.found
          /\ n.before = s.before /\ n.after = s.after
      BY <1>a DEF Sessions
    <3> HIDE DEF n
    <3>3. SessionIsSound(n) /\ n.before = NoWallet
      BY <1>a, <1>b, <2>0, <2>2, <3>1, <3>2 DEF SessionIsSound, MovementIsExact, PCs
    <3>4. QED
      BY <2>0, <2>2, <3>2, <3>3, QuietKeeps DEF FreshFor, Creates
  <2>3. QED
    BY <1>1, <2>1, <2>2 DEF LockPending
<1>2. CASE FindPendingReference(p)
  <2> DEFINE later == [s EXCEPT !.pc = "commit"]
             rejected == [s EXCEPT !.pc = "commit", !.row.status = "REJECTED"]
             usable == [s EXCEPT !.pc = "lockPendingWallet"]
  <2>0. /\ s.pc = "findPendingReference" /\ UNCHANGED <<db, walletLock>>
        /\ \E n \in {later, rejected, usable} : Become(p, n)
    BY <1>2 DEF FindPendingReference, At, locks
  <2>1. s.row \in Rows /\ s.after = NoWallet
    BY <1>a, <2>0 DEF SessionIsSound, Sessions
  <2>a. /\ later.row = s.row /\ usable.row = s.row
        /\ rejected.row = [s.row EXCEPT !.status = "REJECTED"]
    BY <1>a DEF Sessions
  <2>b. rejected.row \in Rows /\ rejected.row.status = "REJECTED"
    BY <2>1, <2>a DEF Rows, Statuses
  <2>2. ASSUME NEW n \in {later, rejected, usable}
        PROVE  /\ n.pc \in {"commit", "lockPendingWallet"} /\ n.op = s.op /\ n.req = s.req
               /\ n.msg = s.msg /\ n.claim = s.claim /\ n.found = s.found
               /\ n.before = s.before /\ n.after = s.after /\ n.row \in Rows
               /\ n.row = s.row \/ n.row.status = "REJECTED"
    <3>1. CASE n = later
      BY <1>a, <2>1, <2>a, <3>1 DEF Sessions
    <3>2. CASE n = rejected
      BY <1>a, <2>b, <3>2 DEF Sessions
    <3>3. CASE n = usable
      BY <1>a, <2>1, <2>a, <3>3 DEF Sessions
    <3>4. QED
      BY <2>2, <3>1, <3>2, <3>3
  <2> HIDE DEF later, rejected, usable
  <2>3. ASSUME NEW n \in {later, rejected, usable}
        PROVE  SessionIsSound(n) /\ WalletOf(n) = WalletOf(s) /\ FreshFor(p, n)
    <3>1. /\ n.row # NoRow
          /\ n.row.status = "PENDING_REFERENCE" => n.row.req.kind \in {"REFUND", "ROLLBACK"}
      <4>1. n.row # NoRow /\ s.row # NoRow
        BY <2>1, <2>2, LedgerAssumption
      <4>2. s.row.status = "PENDING_REFERENCE" => s.row.req.kind \in {"REFUND", "ROLLBACK"}
        BY <4>1, <1>a DEF SessionIsSound
      <4>3. QED
        BY <4>1, <4>2, <2>2
    <3>a. /\ n.pc \in {"commit", "lockPendingWallet"} /\ n.op = "resolve" /\ n.req = s.req
          /\ n.msg = s.msg /\ n.claim = s.claim /\ n.found = NoRow
          /\ n.before = s.before /\ n.after = NoWallet
      BY <1>b, <2>1, <2>2
    <3>2. SessionIsSound(n)
      BY <1>a, <1>b, <2>0, <3>1, <3>a DEF SessionIsSound, MovementIsExact, PCs
    <3>3. QED
      BY <1>b, <2>2, <3>2 DEF WalletOf, FreshFor, Creates
  <2>4. QED
    BY <2>0, <2>2, <2>3, QuietKeeps
<1>3. CASE LockPendingWallet(p)
  <2> DEFINE credit == Credit(wallets[w], s.req.money)
             n == [s EXCEPT !.pc = "commit", !.row.status = "PROCESSED",
                            !.before = wallets[w], !.after = credit.wallet]
  <2>0. s.pc = "lockPendingWallet" /\ w \in WalletIds /\ s.req.money \in Monies
    BY <1>3, <1>b, RequestTyped DEF LockPendingWallet, At
  <2>1. CASE Rollback(p, "MONEY")
    BY <2>0, <2>1, ErrorKeeps DEF PCs
  <2>2. CASE credit.err = "none" /\ Lockable(p, w) /\ LockRow(p, w) /\ Become(p, n)
    <3>1. s.row \in Rows /\ wallets[w] \in Wallets
      BY <1>a, <2>0, <2>2 DEF SessionIsSound, Sessions, Lockable, TypeOK
    <3>2. /\ s.req.money.amount > 0 /\ SameHolder(wallets[w], credit.wallet)
          /\ credit.wallet.balance.amount = wallets[w].balance.amount + s.req.money.amount
      BY <2>0, <2>2, <3>1, MovesExactly
    <3> HIDE DEF credit
    <3>3. /\ n.pc = "commit" /\ n.op = s.op /\ n.req = s.req /\ n.msg = s.msg
          /\ n.claim = s.claim /\ n.found = s.found /\ n.before = wallets[w]
          /\ n.after = credit.wallet /\ n.row \in Rows /\ n.row.status = "PROCESSED"
      BY <1>a, <3>1 DEF Sessions, Rows, Statuses
    <3> HIDE DEF n
    <3>4. n.row # NoRow /\ wallets[w] # NoWallet
      BY <3>1, <3>3, LedgerAssumption
    <3>5. SessionIsSound(n)
      BY <1>a, <1>b, <2>0, <3>2, <3>3, <3>4 DEF SessionIsSound, MovementIsExact, PCs
    <3>6. WalletOf(n) = w /\ FreshFor(p, n)
      BY <1>b, <3>3 DEF WalletOf, FreshFor, Creates
    <3>7. QED
      BY <2>0, <2>2, <3>3, <3>5, <3>6, LockKeeps DEF Lockable
  <2>3. QED
    <3> HIDE DEF credit
    <3>1. \/ Rollback(p, "MONEY")
          \/ credit.err = "none" /\ Lockable(p, w) /\ LockRow(p, w) /\ Become(p, n)
      BY <1>3 DEF LockPendingWallet, credit
    <3>2. QED
      BY <2>1, <2>2, <3>1
<1>4. QED
  BY <1>1, <1>2, <1>3

LEMMA InsertWalletKeeps ==
  ASSUME TypeOK, Rest, NEW p \in Procs, InsertWallet(p)
  PROVE  Rest'
<1> DEFINE s == session[p]
           w == s.req.wallet
           opened == NewWallet(s.req.player, s.req.money).wallet
           r == [req |-> s.req, status |-> "PROCESSED"]
           empty == [s EXCEPT !.pc = "commit", !.after = opened]
           funded == [s EXCEPT !.pc = "save", !.after = opened, !.row = r]
<1>a. s \in Sessions /\ SessionIsSound(s) /\ s.pc = "insertWallet"
  BY Acting DEF InsertWallet, At
<1>b. s.op = "open" /\ s.found = NoRow /\ s.req \in Requests
  BY <1>a, SessionFields DEF SessionIsSound
<1>c. s.req \in Openings /\ s.before = NoWallet /\ s.row = NoRow
  BY <1>a, <1>b DEF SessionIsSound
<1>1. CASE Rollback(p, "CONFLICT")
  BY <1>1, <1>a, ErrorKeeps DEF PCs
<1>2. ASSUME NEW n, Become(p, n), UNCHANGED <<db, locks>>, ~Opened(s.req),
             \A q \in Procs \ {p} : ~Creating(q, s.req),
             SessionIsSound(n), n.before = NoWallet, n.op = "open", n.req = s.req
      PROVE  Rest'
  <2>1. SnapshotIsCurrent'
    <3>1. walletLock' = walletLock /\ wallets' = wallets
      BY <1>2 DEF db, locks
    <3>2. QED
      BY <1>2, <3>1, SnapshotKept DEF Rest
  <2>2. OpeningIsFresh'
    <3>1. \A q \in Procs : session'[q] = IF q = p THEN n ELSE session[q]
      BY <1>2 DEF Become, TypeOK
    <3>2. \A q \in Procs : /\ session'[q].req = session[q].req
                           /\ q # p => Creates(session'[q]) = Creates(session[q])
      BY <1>2, <3>1 DEF Creates
    <3>3. \A o : Opened(o)' <=> Opened(o)
      BY <1>2 DEF Opened, db
    <3>4. ASSUME NEW q \in Procs, Creates(session'[q])
          PROVE  /\ ~Opened(session[q].req)
                 /\ \A x \in Procs : Creates(session'[x]) /\ SameWallet(session[x].req, session[q].req)
                                      => q = x
      <4>1. CASE q = p
        BY <1>2, <3>2, <4>1 DEF Creating
      <4>2. CASE q # p
        BY <1>2, <3>2, <3>4, <4>2 DEF Rest, OpeningIsFresh, Creating, SameWallet
      <4>3. QED
        BY <4>1, <4>2
    <3>5. QED
      BY <3>2, <3>3, <3>4 DEF OpeningIsFresh, Creating
  <2>3. QED
    BY <1>2, <2>1, <2>2, SoundKept, TablesKept DEF Rest
<1>3. s.req.money.amount \in Int64 /\ s.req.money.amount >= 0
  BY <1>b, <1>c, LedgerAssumption, RequestTyped DEF Monies
<1>4. /\ opened \in Wallets /\ opened.balance.amount = s.req.money.amount
      /\ IsFor(opened, s.req)
  BY <1>b, <1>3, RequestTyped, MoneyAssumption
     DEF NewWallet, IsNegative, Changed, WalletRecord, Wallets, Balances, Monies, Int64, MinInt64,
         IsFor
<1>5. opened # NoWallet /\ r # NoRow
  <2>1. r \in Rows
    BY <1>b DEF Rows, Statuses
  <2>2. QED
    BY <1>4, <2>1, LedgerAssumption
<1>r. r.status = "PROCESSED"
  OBVIOUS
<1> HIDE DEF opened, r
<1>6. ASSUME IsZero(s.req.money)
      PROVE  SessionIsSound(empty) /\ empty.before = NoWallet /\ empty.op = "open" /\ empty.req = s.req
  <2>1. /\ empty.pc = "commit" /\ empty.op = s.op /\ empty.req = s.req /\ empty.msg = s.msg
        /\ empty.claim = s.claim /\ empty.row = NoRow /\ empty.found = s.found
        /\ empty.before = s.before /\ empty.after = opened
    BY <1>a, <1>c DEF Sessions
  <2> HIDE DEF empty
  <2>2. QED
    BY <1>a, <1>b, <1>c, <1>4, <1>5, <1>6, <2>1 DEF SessionIsSound, MovementIsExact, IsZero, PCs
<1>7. ASSUME ~IsZero(s.req.money)
      PROVE  SessionIsSound(funded) /\ funded.before = NoWallet /\ funded.op = "open" /\ funded.req = s.req
  <2>1. /\ funded.pc = "save" /\ funded.op = s.op /\ funded.req = s.req /\ funded.msg = s.msg
        /\ funded.claim = s.claim /\ funded.row = r /\ funded.found = s.found
        /\ funded.before = s.before /\ funded.after = opened
    BY <1>a, <1>c DEF Sessions
  <2> HIDE DEF funded
  <2>2. QED
    BY <1>a, <1>b, <1>c, <1>r, <1>4, <1>5, <1>7, <2>1
       DEF SessionIsSound, MovementIsExact, IsZero, PCs
<1>8. QED
  <2>1. \/ Rollback(p, "CONFLICT")
        \/ /\ ~Opened(s.req) /\ \A q \in Procs \ {p} : ~Creating(q, s.req)
           /\ UNCHANGED <<db, locks>>
           /\ \/ IsZero(s.req.money) /\ Become(p, empty)
              \/ ~IsZero(s.req.money) /\ Become(p, funded)
    BY DEF InsertWallet, opened, r
  <2> HIDE DEF empty, funded
  <2>2. QED
    BY <2>1, <1>1, <1>2, <1>6, <1>7

\* A failed statement, a crash, and the return of a call.
LEMMA EndKeeps ==
  ASSUME TypeOK, Rest, NEW p \in Procs,
         StatementFails(p) \/ Fault(p) \/ Return(p)
  PROVE  Rest'
<1>1. CASE StatementFails(p)
  <2>1. session[p].pc # "idle"
    BY <1>1, Acting DEF StatementFails, SessionIsSound
  <2>2. QED
    BY <1>1, <2>1, RollbackKeeps DEF StatementFails
<1>2. CASE Fault(p)
  BY <1>2, RollbackKeeps DEF Fault
<1>3. CASE Return(p)
  <2>1. Become(p, IdleSession) /\ UNCHANGED <<db, walletLock>>
    BY <1>3 DEF Return, locks
  <2>2. SessionIsSound(IdleSession) /\ IdleSession.before = NoWallet /\ IdleSession.op = "none"
    BY DEF IdleSession, SessionIsSound, MovementIsExact
  <2>3. QED
    BY <2>1, <2>2, QuietKeeps DEF FreshFor, Creates
<1>4. QED
  BY <1>1, <1>2, <1>3

-----------------------------------------------------------------------------
(* The commit *)

\* One more entry, taken up where the last one ended, continues the chain.
LEMMA ChainExtends ==
  ASSUME NEW entries \in Seq(Entries), NEW balance, Chained(entries, balance),
         NEW e \in Entries, e.before = balance, Settles(e)
  PROVE  Chained(Append(entries, e), e.after)
<1> DEFINE n == Len(entries)
           longer == Append(entries, e)
<1>1. /\ n \in Nat /\ Len(longer) = n + 1 /\ longer[n + 1] = e
      /\ \A i \in 1 .. n : longer[i] = entries[i]
  OBVIOUS
<1> HIDE DEF longer
<1>2. ASSUME NEW i \in 1 .. n + 1
      PROVE  /\ Settles(longer[i])
             /\ longer[i].before = IF i = 1 THEN 0 ELSE longer[i - 1].after
  <2>1. CASE i \in 1 .. n
    BY <1>1, <2>1 DEF Chained
  <2>2. CASE i = n + 1
    BY <1>1, <2>2 DEF Chained
  <2>3. QED
    BY <1>1, <2>1, <2>2
<1>3. QED
  BY <1>1, <1>2 DEF Chained, longer

LEMMA CommitKeeps ==
  ASSUME TypeOK, Rest, NEW p \in Procs, Commit(p)
  PROVE  Rest'
<1> DEFINE s == session[p]
           w == s.req.wallet
<1>a. /\ s \in Sessions /\ SessionIsSound(s) /\ s.pc = "commit" /\ s.req \in Requests
      /\ s.op \in {"wager", "resolve", "open"}
  <2>1. s \in Sessions /\ SessionIsSound(s) /\ s.pc = "commit"
    BY Acting DEF Commit, At
  <2>2. QED
    BY <2>1, SessionFields DEF SessionIsSound
<1>b. w \in WalletIds /\ TxId(s.req) \in TxIds
  BY <1>a, RequestTyped
\* The wallet p is about to store is the one it locked, or one that does not exist yet.
<1>c. ASSUME s.after # NoWallet
      PROVE  /\ s.found = NoRow
             /\ wallets[w] = s.before
             /\ s.op = "open" => /\ wallets[w] = NoWallet /\ ~Opened(s.req) /\ Creates(s)
                                 /\ IsFor(s.after, s.req)
             /\ s.op # "open" => /\ s.before # NoWallet /\ walletLock[w] = p
                                 /\ SameHolder(s.before, s.after)
  <2>1. s.found = NoRow
    BY <1>a, <1>c DEF SessionIsSound
  <2>2. CASE s.op = "open"
    <3>1. Creates(s) /\ s.before = NoWallet /\ IsFor(s.after, s.req)
      BY <1>a, <1>c, <2>2 DEF Creates, SessionIsSound, MovementIsExact
    <3>2. ~Opened(s.req)
      BY <3>1 DEF Rest, OpeningIsFresh
    <3>3. wallets[w] = NoWallet
      BY <1>b, <3>2 DEF Opened
    <3>4. QED
      BY <2>1, <2>2, <3>1, <3>2, <3>3
  <2>3. CASE s.op # "open"
    <3>1. s.before # NoWallet /\ SameHolder(s.before, s.after)
      BY <1>a, <1>c, <2>3 DEF SessionIsSound, MovementIsExact
    <3>2. QED
      BY <2>1, <2>3, <3>1, Acting DEF WalletOf
  <2>4. QED
    BY <2>1, <2>2, <2>3
<1>d. ~Stale(s)
  BY <1>c DEF Stale
<1>e. PICK n \in {Ended(s, Answer(s)), Failed(s, "FAULT")} : Become(p, n)
  BY <1>d DEF Commit
<1>f. SessionIsSound(n) /\ n.before = NoWallet /\ n.pc = "replied"
  BY <1>a, EndedIsSound DEF Failed
<1>g. /\ txs' = IF Writes(s) THEN [txs EXCEPT ![TxId(s.req)] = s.row] ELSE txs
      /\ wallets' = IF s.after # NoWallet THEN [wallets EXCEPT ![w] = s.after] ELSE wallets
      /\ ledger' = IF HasMovement(s)
                   THEN [ledger EXCEPT ![w] = Append(ledger[w], Entry(s.req, s.before, s.after))]
                   ELSE ledger
      /\ walletLock' = Freed(walletLock, p)
  BY <1>d DEF Commit, ReleaseLocks
<1>h. \A q \in Procs : session'[q] = IF q = p THEN n ELSE session[q]
  BY <1>e DEF Become, TypeOK
<1>1. SessionsAreSound'
  BY <1>e, <1>f, SoundKept DEF Rest
<1>2. SnapshotIsCurrent'
  <2>1. ASSUME NEW q \in Procs \ {p}, session[q].before # NoWallet
        PROVE  LET v == WalletOf(session[q])
               IN  walletLock[v] = q => walletLock'[v] = q /\ wallets'[v] = wallets[v]
    <3> DEFINE v == WalletOf(session[q])
    <3>1. v \in WalletIds
      <4>1. session[q] \in Sessions /\ SessionIsSound(session[q])
        BY Acting
      <4>2. session[q].req \in Requests
        BY <2>1, <4>1, SessionFields DEF SessionIsSound
      <4>3. QED
        BY <4>1, <4>2, RequestTyped, SessionFields DEF WalletOf, Rows
    <3>2. wallets[v] # NoWallet /\ walletLock[v] = q
      BY <2>1 DEF Rest, SnapshotIsCurrent
    <3> HIDE DEF v
    <3>3. walletLock'[v] = q
      BY <1>g, <3>1, <3>2 DEF Freed, TypeOK
    <3>4. s.after # NoWallet => v # w
      BY <1>a, <1>c, <3>2
    <3>5. wallets'[v] = wallets[v]
      BY <1>g, <3>1, <3>4 DEF TypeOK
    <3>6. QED
      BY <3>3, <3>5 DEF v
  <2>2. QED
    BY <1>e, <1>f, <2>1, SnapshotKept DEF Rest
<1>3. OpeningIsFresh'
  <2>1. ASSUME NEW q \in Procs, Creates(session'[q])
        PROVE  /\ q # p /\ Creates(session[q]) /\ session'[q] = session[q]
               /\ ~Opened(session[q].req)'
    <3>1. q # p /\ Creates(session[q]) /\ session'[q] = session[q]
      BY <1>f, <1>h, <2>1 DEF Creates
    <3>2. ~Opened(session[q].req) /\ ~Creating(p, session[q].req)
      BY <3>1 DEF Rest, OpeningIsFresh
    <3>3. ASSUME NEW v \in WalletIds, wallets'[v] # NoWallet
          PROVE  v # session[q].req.wallet /\ ~IsFor(wallets'[v], session[q].req)
      <4>1. CASE v # w \/ s.after = NoWallet
        BY <1>g, <3>2, <3>3, <4>1 DEF Opened, TypeOK
      <4>2. CASE v = w /\ s.after # NoWallet
        <5>1. wallets'[v] = s.after
          BY <1>g, <4>2 DEF TypeOK
        <5>2. CASE s.op = "open"
          BY <1>c, <3>2, <4>2, <5>1, <5>2 DEF Creating, SameWallet, IsFor
        <5>3. CASE s.op # "open"
          BY <1>b, <1>c, <3>2, <4>2, <5>1, <5>3 DEF Opened, IsFor, SameHolder
        <5>4. QED
          BY <5>2, <5>3
      <4>3. QED
        BY <4>1, <4>2
    <3>4. QED
      BY <3>1, <3>3 DEF Opened
  <2>2. QED
    BY <2>1 DEF Rest, OpeningIsFresh, Creating
<1>6. OneWalletPerCurrency'
  <2>1. SUFFICES ASSUME NEW u \in WalletIds, NEW v \in WalletIds, u # v,
                        wallets'[u] # NoWallet, wallets'[v] # NoWallet
                 PROVE  ~SameHolder(wallets'[u], wallets'[v])
    BY DEF OneWalletPerCurrency, SameHolder
  <2>2. ASSUME NEW x \in WalletIds, x # w \/ s.after = NoWallet PROVE wallets'[x] = wallets[x]
    BY <1>g, <2>2 DEF TypeOK
  <2>3. CASE s.after = NoWallet
    BY <2>1, <2>2, <2>3 DEF Rest, OneWalletPerCurrency
  <2>4. ASSUME s.after # NoWallet, NEW x \in WalletIds, x # w, wallets[x] # NoWallet
        PROVE  ~SameHolder(s.after, wallets[x]) /\ ~SameHolder(wallets[x], s.after)
    <3>1. CASE s.op = "open"
      BY <1>c, <2>4, <3>1 DEF Opened, IsFor, SameHolder
    <3>2. CASE s.op # "open"
      BY <1>b, <1>c, <2>4, <3>2 DEF Rest, OneWalletPerCurrency, SameHolder
    <3>3. QED
      BY <3>1, <3>2
  <2>5. s.after # NoWallet => wallets'[w] = s.after
    BY <1>g, <1>b DEF TypeOK
  <2>6. QED
    BY <2>1, <2>2, <2>3, <2>4, <2>5 DEF Rest, OneWalletPerCurrency
<1>4. PendingIsRefund'
  <2>1. Writes(s) /\ s.row.status = "PENDING_REFERENCE" => s.row.req.kind \in {"REFUND", "ROLLBACK"}
    BY <1>a DEF Writes, SessionIsSound
  <2>2. \A t \in TxIds : txs'[t] = IF Writes(s) /\ t = TxId(s.req) THEN s.row ELSE txs[t]
    BY <1>g, <1>b DEF TypeOK
  <2>3. QED
    BY <2>1, <2>2 DEF Rest, PendingIsRefund, Stored
<1>5. LedgerChain'
  <2>1. SUFFICES ASSUME NEW v \in WalletIds
                 PROVE  Chained(ledger'[v], BalanceOf(wallets'[v]))
    BY DEF LedgerChain, Chained, BalanceOf
  <2>2. Chained(ledger[v], BalanceOf(wallets[v])) /\ ledger[v] \in Seq(Entries)
    BY DEF Rest, LedgerChain, TypeOK
  <2>3. CASE v # w \/ s.after = NoWallet
    BY <1>g, <2>2, <2>3 DEF TypeOK, HasMovement
  <2>4. CASE v = w /\ s.after # NoWallet /\ HasMovement(s)
    <3> DEFINE e == Entry(s.req, s.before, s.after)
    <3>1. e \in Entries
      BY <1>a, <2>4, WritesTyped
    <3>2. e.before = BalanceOf(wallets[w]) /\ e.after = s.after.balance.amount
      BY <1>c, <2>4 DEF Entry, BalanceOf
    <3>3. Settles(e)
      <4>1. s.req.money.amount \in Int /\ s.after.balance.amount \in Int
        <5>1. s.req.money.amount \in Int
          BY <1>a, RequestTyped, MoneyAssumption DEF Monies, Int64, MinInt64
        <5>2. s.after \in Wallets
          BY <1>a, <2>4, SessionFields
        <5>3. QED
          BY <5>1, <5>2, BalanceIsMoney
      <4>2. CASE s.op = "open"
        <5>1. s.req.kind = "OPENING" /\ s.before = NoWallet
          BY <1>a, <4>2, LedgerAssumption DEF SessionIsSound
        <5>2. s.after.balance.amount = s.req.money.amount
          BY <1>a, <2>4, <4>2 DEF SessionIsSound, MovementIsExact
        <5>3. QED
          BY <4>1, <5>1, <5>2 DEF Entry, Settles
      <4>3. CASE s.op # "open"
        <5>1. /\ s.before # NoWallet
              /\ s.after.balance.amount = IF s.req.kind = "BET"
                                          THEN s.before.balance.amount - s.req.money.amount
                                          ELSE s.before.balance.amount + s.req.money.amount
          BY <1>a, <2>4, <4>3 DEF SessionIsSound, MovementIsExact
        <5>2. QED
          BY <5>1 DEF Entry, Settles
      <4>4. QED
        BY <4>2, <4>3
    <3>4. ledger'[v] = Append(ledger[v], e) /\ wallets'[v] = s.after
      BY <1>g, <2>4 DEF TypeOK
    <3> HIDE DEF e
    <3>5. Chained(Append(ledger[v], e), e.after)
      BY <2>2, <2>4, <3>1, <3>2, <3>3, ChainExtends
    <3>6. QED
      BY <2>4, <3>2, <3>4, <3>5 DEF BalanceOf
  <2>5. CASE v = w /\ s.after # NoWallet /\ ~HasMovement(s)
    <3>1. s.row = NoRow
      BY <1>c, <2>5 DEF HasMovement, Writes
    <3>2. s.after.balance.amount = 0 /\ wallets[w] = NoWallet
      BY <1>a, <1>c, <2>5, <3>1 DEF SessionIsSound, MovementIsExact
    <3>3. ledger'[v] = ledger[v] /\ wallets'[v] = s.after
      BY <1>g, <2>5 DEF TypeOK
    <3>4. QED
      BY <2>2, <2>5, <3>2, <3>3 DEF BalanceOf
  <2>6. QED
    BY <2>3, <2>4, <2>5
<1>7. QED
  BY <1>1, <1>2, <1>3, <1>4, <1>5, <1>6 DEF Rest

-----------------------------------------------------------------------------
(* The theorems *)

LEMMA InitKeeps == Init => IInv
<1> SUFFICES ASSUME Init PROVE IInv
  OBVIOUS
<1>1. TypeOK
  BY IdleTyped DEF Init, TypeOK
<1>2. SessionIsSound(IdleSession) /\ IdleSession.before = NoWallet /\ IdleSession.op = "none"
  BY DEF IdleSession, SessionIsSound, MovementIsExact
<1>3. SessionsAreSound /\ SnapshotIsCurrent /\ OpeningIsFresh
  BY <1>2 DEF Init, SessionsAreSound, SnapshotIsCurrent, OpeningIsFresh, Creates
<1>4. OneWalletPerCurrency /\ PendingIsRefund /\ LedgerChain
  BY DEF Init, OneWalletPerCurrency, PendingIsRefund, Stored, LedgerChain, Chained, BalanceOf
<1>5. QED
  BY <1>1, <1>3, <1>4 DEF IInv

LEMMA StepKeeps == IInv /\ [Next]_vars => IInv'
<1> SUFFICES ASSUME IInv, [Next]_vars PROVE IInv'
  OBVIOUS
<1>1. TypeOK /\ Rest
  BY DEF IInv, Rest
<1>2. TypeOK'
  BY <1>1, StepTyped DEF Rest
<1>3. Rest'
  <2>1. CASE UNCHANGED vars
    BY <1>1, <2>1 DEF Rest, vars, SessionsAreSound, SnapshotIsCurrent, OpeningIsFresh, Creates,
       Creating, Opened, OneWalletPerCurrency, PendingIsRefund, Stored, LedgerChain
  <2>2. ASSUME NEW p \in Procs, Begin(p) \/ Step(p) \/ Fault(p)
        PROVE  Rest'
    BY <1>1, <2>2, BeginKeeps, LookupKeeps, LockExistingKeeps, LockWalletKeeps, FindReferenceKeeps,
       SaveKeeps, ResolveKeeps, InsertWalletKeeps, CommitKeeps, EndKeeps DEF Step
  <2>3. QED
    BY <2>1, <2>2 DEF Next
<1>4. QED
  BY <1>2, <1>3 DEF IInv, Rest

\* The inductive invariant: what a call knows between its statements stays true until it
\* commits, and the ledgers account for the balances.
THEOREM InvariantHolds == Spec => []IInv
BY InitKeeps, StepKeeps, PTL DEF Spec

\* Whatever calls run, fail and repeat, the tables keep their columns' types and the
\* CHECK constraints of the migration: no balance is ever negative.
THEOREM TypesHold == Spec => []TypeOK
<1>1. IInv => TypeOK
  BY DEF IInv
<1>2. QED
  BY <1>1, InvariantHolds, PTL

\* SELECT ... FOR UPDATE is enough: the wallet ProcessTransactionWithInbox decides on is
\* the committed one until its commit, so no update is lost and no version ever stale.
THEOREM SnapshotsAreCurrent == Spec => []SnapshotIsCurrent
<1>1. IInv => SnapshotIsCurrent
  BY DEF IInv
<1>2. QED
  BY <1>1, InvariantHolds, PTL

\* The unique index on player and currency, with the creations that wait at it, leaves a
\* player one wallet in a currency whatever ids and order the creations come in.
THEOREM WalletsAreUnique == Spec => []OneWalletPerCurrency
<1>1. IInv => OneWalletPerCurrency
  BY DEF IInv
<1>2. QED
  BY <1>1, InvariantHolds, PTL

\* Every balance is what its ledger entries add up to, entry after entry.
THEOREM LedgerAccounts == Spec => []LedgerChain
<1>1. IInv => LedgerChain
  BY DEF IInv
<1>2. QED
  BY <1>1, InvariantHolds, PTL

-----------------------------------------------------------------------------
(***************************************************************************)
(* Exactly once: each transaction is stored under its own id, external id  *)
(* and key, keeps its terminal status, and moves its wallet once.          *)
(*                                                                         *)
(* The invariant says of every call what ties it to its row: an INSERT not *)
(* yet committed clashes with no other, stored or open, and a resolver     *)
(* holds the lock of a row that is still pending.                          *)
(***************************************************************************)
(* The invariant *)

\* The row s has inserted and not committed.
Inserting(s) == s.pc = "commit" /\ s.op # "resolve" /\ s.row # NoRow /\ s.found = NoRow

\* A call that resolves, between its statements and under the lock of its row.
Resolving(s) == s.op = "resolve" /\ s.pc # "replied"
HoldsRow(s)  == Resolving(s) /\ s.pc # "lockPending"

\* A row being written is the request's, and it moves the wallet if it says so.
RowIsRight(s) ==
  s.row # NoRow => /\ s.row.req = s.req
                   /\ s.found = NoRow =>
                        (s.after # NoWallet <=> /\ s.row.status = "PROCESSED"
                                                /\ s.req.kind # "LOSS")

\* What ties the session s of call p to the tables, with the row locks in lock.
Linked(p, s, lock) ==
  /\ RowIsRight(s)
  /\ Inserting(s) => ~Duplicate(s.req)
  /\ Resolving(s) => txs[TxId(s.req)] # NoRow /\ txs[TxId(s.req)].req = s.req
  /\ HoldsRow(s)  => /\ s.row # NoRow
                     /\ lock[TxId(s.req)] = p
                     /\ txs[TxId(s.req)].status = "PENDING_REFERENCE"
AllLinked == \A p \in Procs : Linked(p, session[p], rowLock)

InsertsAreExclusive ==
  \A p, q \in Procs :
    p # q /\ Inserting(session[p]) /\ Inserting(session[q]) =>
      ~Clash(session[p].req, session[q].req)

RowsAreKeyed == \A t \in Stored : TxId(txs[t].req) = t
RowsAreApart == \A t, u \in Stored : t # u => ~Clash(txs[t].req, txs[u].req)

Once == /\ AllLinked /\ InsertsAreExclusive /\ RowsAreKeyed /\ RowsAreApart
        /\ OneMovementPerTransaction

-----------------------------------------------------------------------------
(* Steps before the commit *)

LEMMA ClashSymmetric == \A a, b : Clash(a, b) <=> Clash(b, a)
BY DEF Clash

LEMMA TablesUntouched ==
  ASSUME RowsAreKeyed, RowsAreApart, OneMovementPerTransaction, UNCHANGED db
  PROVE  RowsAreKeyed' /\ RowsAreApart' /\ OneMovementPerTransaction'
BY DEF RowsAreKeyed, RowsAreApart, OneMovementPerTransaction, Stored, db

\* Before its commit a call changes its own session and takes or leaves its own locks.
LEMMA LinkKeeps ==
  ASSUME TypeOK, Rest, Once, NEW p \in Procs, NEW n, Become(p, n), UNCHANGED db,
         Linked(p, n, rowLock'),
         Inserting(n) => \A q \in Procs \ {p} :
                           Inserting(session[q]) => ~Clash(session[q].req, n.req),
         \A q \in Procs \ {p}, t \in TxIds : rowLock[t] = q => rowLock'[t] = q
  PROVE  Once'
<1>1. \A q \in Procs : session'[q] = IF q = p THEN n ELSE session[q]
  BY DEF Become, TypeOK
<1>2. txs' = txs
  BY DEF db
<1>3. AllLinked'
  <2>1. SUFFICES ASSUME NEW q \in Procs PROVE Linked(q, session[q], rowLock)'
    BY DEF AllLinked
  <2>2. Linked(q, session'[q], rowLock')
    <3>1. CASE q = p
      BY <1>1, <3>1
    <3>2. CASE q # p
      <4>1. HoldsRow(session[q]) => TxId(session[q].req) \in TxIds
        BY Acting, RequestTyped DEF HoldsRow, Resolving, SessionIsSound
      <4>2. QED
        BY <1>1, <3>2, <4>1 DEF Once, AllLinked, Linked
    <3>3. QED
      BY <3>1, <3>2
  <2>3. QED
    BY <1>2, <2>2 DEF Linked, Duplicate, Stored, RowIsRight, Inserting, Resolving, HoldsRow
<1>4. InsertsAreExclusive'
  BY <1>1, ClashSymmetric DEF Once, InsertsAreExclusive, Inserting
<1>5. QED
  BY <1>3, <1>4, TablesUntouched DEF Once

\* A step after which the call has nothing in the tables to answer for.
LEMMA QuietLinks ==
  ASSUME TypeOK, Rest, Once, NEW p \in Procs, NEW n, Become(p, n), UNCHANGED <<db, rowLock>>,
         RowIsRight(n), ~Inserting(n), ~Resolving(n)
  PROVE  Once'
<1>1. Linked(p, n, rowLock')
  BY DEF Linked, HoldsRow
<1>2. QED
  BY <1>1, LinkKeeps

\* The same when the call keeps its row, and answers a replay or goes on.
LEMMA WagerLinks ==
  ASSUME TypeOK, Rest, Once, NEW p \in Procs, NEW n, Become(p, n), UNCHANGED <<db, rowLock>>,
         n.op # "resolve", n.row = session[p].row, n.req = session[p].req,
         \/ n.found # NoRow
         \/ n.found = session[p].found /\ n.after = session[p].after /\ n.pc # "commit"
  PROVE  Once'
<1>1. RowIsRight(session[p])
  BY DEF Once, AllLinked, Linked
<1>2. RowIsRight(n) /\ ~Inserting(n) /\ ~Resolving(n)
  BY <1>1 DEF RowIsRight, Inserting, Resolving
<1>3. QED
  BY <1>2, QuietLinks

LEMMA RollbackLinks ==
  ASSUME TypeOK, Rest, Once, NEW p \in Procs, NEW code, Rollback(p, code)
  PROVE  Once'
<1> DEFINE n == Failed(session[p], code)
<1>1. n.row = NoRow /\ n.pc = "replied"
  BY DEF Failed, Ended, Started, IdleSession
<1>2. Become(p, n) /\ UNCHANGED db /\ rowLock' = Freed(rowLock, p)
  BY DEF Rollback, ReleaseLocks
<1> HIDE DEF n
<1>3. Linked(p, n, rowLock') /\ ~Inserting(n)
  BY <1>1 DEF Linked, RowIsRight, Inserting, Resolving, HoldsRow
<1>4. \A q \in Procs \ {p}, t \in TxIds : rowLock[t] = q => rowLock'[t] = q
  <2>1. SUFFICES ASSUME NEW q \in Procs \ {p}, NEW t \in TxIds, rowLock[t] = q
                 PROVE  rowLock'[t] = q
    OBVIOUS
  <2>2. QED
    BY <1>2, <2>1 DEF Freed, TypeOK
<1>5. QED
  BY <1>2, <1>3, <1>4, LinkKeeps

LEMMA BeginLinks ==
  ASSUME TypeOK, Rest, Once, NEW p \in Procs, Begin(p)
  PROVE  Once'
<1>1. ASSUME NEW r, NEW m, BeginWager(p, r, m)
      PROVE  Once'
  <2> DEFINE n == Started("wager", r, m, IF m = NoMsg THEN "findExternal" ELSE "saveInbox")
  <2>1. n.row = NoRow /\ n.op = "wager"
    BY DEF Started, IdleSession
  <2>2. Become(p, n) /\ UNCHANGED <<db, rowLock>>
    BY <1>1 DEF BeginWager, locks
  <2> HIDE DEF n
  <2>3. QED
    BY <2>1, <2>2, QuietLinks DEF RowIsRight, Inserting, Resolving
<1>2. ASSUME NEW r, NEW m, RefuseInput(p, r, m)
      PROVE  Once'
  <2> DEFINE n == Failed(Started("wager", r, m, "idle"), "INVALID")
  <2>1. n.row = NoRow /\ n.pc = "replied"
    BY DEF Failed, Ended, Started, IdleSession
  <2>2. Become(p, n) /\ UNCHANGED <<db, rowLock>>
    BY <1>2 DEF RefuseInput, locks
  <2> HIDE DEF n
  <2>3. QED
    BY <2>1, <2>2, QuietLinks DEF RowIsRight, Inserting, Resolving
<1>3. ASSUME NEW t \in TxIds, BeginResolve(p, t)
      PROVE  Once'
  <2> DEFINE n == Started("resolve", txs[t].req, NoMsg, "lockPending")
  <2>1. n.row = NoRow /\ n.pc = "lockPending" /\ n.req = txs[t].req
    BY DEF Started, IdleSession
  <2>2. Become(p, n) /\ UNCHANGED <<db, rowLock>>
    BY <1>3 DEF BeginResolve, locks
  <2>3. TxId(txs[t].req) = t /\ txs[t] # NoRow
    BY <1>3 DEF BeginResolve, Once, RowsAreKeyed, Stored
  <2> HIDE DEF n
  <2>4. Linked(p, n, rowLock') /\ ~Inserting(n)
    BY <2>1, <2>3 DEF Linked, RowIsRight, Inserting, HoldsRow
  <2>5. QED
    BY <2>2, <2>4, LinkKeeps
<1>4. ASSUME NEW o, BeginOpen(p, o)
      PROVE  Once'
  <2> DEFINE n == Started("open", o, NoMsg, "insertWallet")
  <2>1. n.row = NoRow /\ n.op = "open"
    BY DEF Started, IdleSession
  <2>2. Become(p, n) /\ UNCHANGED <<db, rowLock>>
    BY <1>4 DEF BeginOpen, locks
  <2> HIDE DEF n
  <2>3. QED
    BY <2>1, <2>2, QuietLinks DEF RowIsRight, Inserting, Resolving
<1>5. QED
  BY <1>1, <1>2, <1>3, <1>4 DEF Begin

LEMMA ReplayLinks ==
  ASSUME TypeOK, Rest, Once, NEW p \in Procs, session[p].op = "wager",
         NEW found, found # NoRow,
         Become(p, [session[p] EXCEPT !.pc = "lockExisting", !.found = found]),
         UNCHANGED <<db, rowLock>>
  PROVE  Once'
<1> DEFINE n == [session[p] EXCEPT !.pc = "lockExisting", !.found = found]
<1>1. n.found = found /\ n.row = session[p].row /\ n.req = session[p].req /\ n.op = "wager"
  BY Acting DEF Sessions
<1> HIDE DEF n
<1>2. QED
  BY <1>1, WagerLinks DEF n

\* The inbox claim and the lookups.
LEMMA LookupLinks ==
  ASSUME TypeOK, Rest, Once, NEW p \in Procs,
         SaveInbox(p) \/ FindConsumed(p) \/ FindExternal(p) \/ FindKey(p)
  PROVE  Once'
<1> DEFINE s == session[p]
<1>a. s \in Sessions /\ SessionIsSound(s)
  BY Acting
<1>b. s.op = "wager" /\ s.req \in Requests
  BY <1>a, SessionFields DEF SessionIsSound, SaveInbox, FindConsumed, FindExternal, FindKey, At
<1>0. ASSUME NEW n, Become(p, n), UNCHANGED <<db, locks>>, n.pc # "commit", n.op = s.op,
             n.row = s.row, n.req = s.req, n.found = s.found, n.after = s.after
      PROVE  Once'
  BY <1>0, <1>b, WagerLinks DEF locks
<1>1. CASE SaveInbox(p)
  <2> DEFINE n1 == [s EXCEPT !.pc = "findExternal", !.claim = TRUE]
             n2(aborts) == [s EXCEPT !.pc = "findConsumed", !.aborted = aborts]
  <2>1. /\ n1.pc # "commit" /\ n1.op = s.op /\ n1.row = s.row /\ n1.req = s.req
        /\ n1.found = s.found /\ n1.after = s.after
    BY <1>a DEF Sessions
  <2>2. ASSUME NEW aborts
        PROVE  /\ n2(aborts).pc # "commit" /\ n2(aborts).op = s.op /\ n2(aborts).row = s.row
               /\ n2(aborts).req = s.req /\ n2(aborts).found = s.found
               /\ n2(aborts).after = s.after
    BY <1>a DEF Sessions
  <2>3. /\ \/ Become(p, n1)
           \/ \E aborts \in FailedStatementAborts : Become(p, n2(aborts))
        /\ UNCHANGED <<db, locks>>
    BY <1>1 DEF SaveInbox
  <2> HIDE DEF n1, n2
  <2>4. QED
    BY <1>0, <2>1, <2>2, <2>3
<1>2. CASE FindConsumed(p)
  <2>1. [req |-> s.req, status |-> "PENDING"] # NoRow
    BY <1>b, LedgerAssumption DEF Rows, Statuses
  <2>2. QED
    BY <1>2, <1>b, <2>1, ReplayLinks DEF FindConsumed, locks
<1>3. ASSUME NEW e, Replay(p, e) \/ Conflict(p, e)
      PROVE  Once'
  BY <1>3, <1>b, ReplayLinks, RollbackLinks DEF Replay, Conflict, locks
<1>4. CASE FindExternal(p)
  <2> DEFINE n == [s EXCEPT !.pc = "findKey"]
  <2>1. /\ n.pc # "commit" /\ n.op = s.op /\ n.row = s.row /\ n.req = s.req
        /\ n.found = s.found /\ n.after = s.after
    BY <1>a DEF Sessions
  <2> HIDE DEF n
  <2>2. QED
    BY <1>0, <1>3, <1>4, <2>1 DEF FindExternal, n
<1>5. CASE FindKey(p)
  <2> DEFINE n == [s EXCEPT !.pc = "lockWallet"]
  <2>1. /\ n.pc # "commit" /\ n.op = s.op /\ n.row = s.row /\ n.req = s.req
        /\ n.found = s.found /\ n.after = s.after
    BY <1>a DEF Sessions
  <2> HIDE DEF n
  <2>2. QED
    BY <1>0, <1>3, <1>5, <2>1, RollbackLinks DEF FindKey, n
<1>6. QED
  BY <1>1, <1>2, <1>4, <1>5

LEMMA LockExistingLinks ==
  ASSUME TypeOK, Rest, Once, NEW p \in Procs, LockExisting(p)
  PROVE  Once'
<1> DEFINE s == session[p]
           w == s.found.req.wallet
           n == [s EXCEPT !.pc = "commit", !.before = wallets[w], !.after = NoWallet]
<1>a. s \in Sessions /\ SessionIsSound(s) /\ s.pc = "lockExisting"
  BY Acting DEF LockExisting, At
<1>b. s.op = "wager" /\ s.found # NoRow
  BY <1>a, SessionFields DEF SessionIsSound
<1>1. n.op = "wager" /\ n.row = s.row /\ n.req = s.req /\ n.found # NoRow
  BY <1>a, <1>b DEF Sessions
<1>2. Become(p, n) /\ UNCHANGED <<db, rowLock>>
  BY DEF LockExisting, LockRow
<1> HIDE DEF n
<1>3. QED
  BY <1>1, <1>2, WagerLinks

\* A decision writes the request's row, and moves the wallet exactly if it says so.
LEMMA DecidedLinks ==
  ASSUME TypeOK, Rest, Once, NEW p \in Procs, session[p].op = "wager",
         session[p].req \in Requests,
         NEW before, NEW after, NEW status \in Statuses,
         after # NoWallet <=> status = "PROCESSED" /\ session[p].req.kind # "LOSS",
         Decide(p, before, after, status), UNCHANGED <<db, rowLock>>
  PROVE  Once'
<1> DEFINE s == session[p]
           r == [req |-> s.req, status |-> status]
           n == [s EXCEPT !.pc = "save", !.before = before, !.after = after, !.row = r]
<1>0. s \in Sessions
  BY Acting
<1>1. r.req = s.req /\ r.status = status
  OBVIOUS
<1>2. Become(p, n)
  BY DEF Decide
<1> HIDE DEF r
<1>3. n.pc = "save" /\ n.op = "wager" /\ n.req = s.req /\ n.row = r /\ n.after = after
  BY <1>0 DEF Sessions
<1> HIDE DEF n
<1>4. RowIsRight(n) /\ ~Inserting(n) /\ ~Resolving(n)
  BY <1>1, <1>3 DEF RowIsRight, Inserting, Resolving
<1>5. QED
  BY <1>2, <1>4, QuietLinks

LEMMA LockWalletLinks ==
  ASSUME TypeOK, Rest, Once, NEW p \in Procs, LockWallet(p)
  PROVE  Once'
<1> DEFINE s == session[p]
           w == s.req.wallet
           move == Moves(s.req, wallets[w])
           waiting == [s EXCEPT !.pc = "findReference", !.before = wallets[w]]
<1>a. s \in Sessions /\ SessionIsSound(s) /\ s.pc = "lockWallet"
  BY Acting DEF LockWallet, At
<1>b. s.op = "wager" /\ s.req \in Requests /\ w \in WalletIds /\ s.req.money \in Monies
  BY <1>a, SessionFields, RequestTyped DEF SessionIsSound
<1>1. ASSUME Lockable(p, w), move.err = "none"
      PROVE  move.wallet # NoWallet
  <2>1. wallets[w] \in Wallets
    BY <1>1, <1>b DEF Lockable, TypeOK
  <2>2. move.wallet \in Wallets
    BY <1>1, <1>b, <2>1, MovedTyped DEF Moves
  <2>3. QED
    BY <2>2, LedgerAssumption
<1>2. CASE Become(p, waiting) /\ UNCHANGED <<db, rowLock>>
  <2>1. /\ waiting.pc # "commit" /\ waiting.op = s.op /\ waiting.row = s.row
        /\ waiting.req = s.req /\ waiting.found = s.found /\ waiting.after = s.after
    BY <1>a DEF Sessions
  <2> HIDE DEF waiting
  <2>2. QED
    BY <1>2, <1>b, <2>1, WagerLinks
<1> HIDE DEF move, waiting
<1>3. \/ \E code : Rollback(p, code)
      \/ /\ UNCHANGED <<db, rowLock>> /\ Lockable(p, w)
         /\ \/ /\ s.req.kind \in {"BET", "WIN"} /\ move.err = "none"
               /\ Decide(p, wallets[w], move.wallet, "PROCESSED")
            \/ Decide(p, wallets[w], NoWallet, "REJECTED")
            \/ s.req.kind = "LOSS" /\ Decide(p, wallets[w], NoWallet, "PROCESSED")
            \/ Become(p, waiting)
  BY DEF LockWallet, LockRow, move, waiting
<1>4. QED
  BY <1>1, <1>2, <1>3, <1>b, RollbackLinks, DecidedLinks DEF Statuses

LEMMA FindReferenceLinks ==
  ASSUME TypeOK, Rest, Once, NEW p \in Procs, FindReference(p)
  PROVE  Once'
<1> DEFINE s == session[p]
           credit == Credit(s.before, s.req.money)
<1>a. s \in Sessions /\ SessionIsSound(s) /\ s.pc = "findReference"
  BY Acting DEF FindReference, At
<1>b. s.op = "wager" /\ s.req \in Requests /\ s.req.money \in Monies
  BY <1>a, SessionFields, RequestTyped DEF SessionIsSound
<1>c. s.req.kind \in {"REFUND", "ROLLBACK"} /\ s.before \in Wallets
  BY <1>a, SessionFields DEF SessionIsSound
<1>1. credit.err = "none" => credit.wallet # NoWallet
  BY <1>b, <1>c, MovedTyped, LedgerAssumption
<1> HIDE DEF credit
<1>2. \/ \E code : Rollback(p, code)
      \/ /\ UNCHANGED <<db, rowLock>>
         /\ \/ Decide(p, s.before, NoWallet, "PENDING_REFERENCE")
            \/ credit.err = "none" /\ Decide(p, s.before, credit.wallet, "PROCESSED")
  BY DEF FindReference, locks, credit
<1>3. QED
  BY <1>1, <1>2, <1>b, <1>c, RollbackLinks, DecidedLinks DEF Statuses

\* The INSERT: its unique indexes leave no two rows that clash, stored or open.
LEMMA SaveLinks ==
  ASSUME TypeOK, Rest, Once, NEW p \in Procs, SaveTransaction(p)
  PROVE  Once'
<1> DEFINE s == session[p]
           saved == [s EXCEPT !.pc = "commit"]
           again(aborts) == [s EXCEPT !.pc = "findExternal", !.aborted = aborts]
<1>a. s \in Sessions /\ SessionIsSound(s) /\ s.pc = "save"
  BY Acting DEF SaveTransaction, At
<1>b. s.op \in {"wager", "open"} /\ s.found = NoRow
  BY <1>a, SessionFields DEF SessionIsSound
<1>1. ASSUME Become(p, saved), UNCHANGED <<db, locks>>, ~Duplicate(s.req),
             \A q \in Procs \ {p} : Inserted(q) => ~Clash(session[q].req, s.req)
      PROVE  Once'
  <2>1. /\ saved.op = s.op /\ saved.req = s.req /\ saved.row = s.row
        /\ saved.found = s.found /\ saved.after = s.after
    BY <1>a DEF Sessions
  <2>2. RowIsRight(s)
    BY DEF Once, AllLinked, Linked
  <2> HIDE DEF saved
  <2>3. Linked(p, saved, rowLock')
    BY <1>b, <1>1, <2>1, <2>2 DEF Linked, RowIsRight, Resolving, HoldsRow
  <2>4. \A q \in Procs \ {p} : Inserting(session[q]) => ~Clash(session[q].req, saved.req)
    BY <1>1, <2>1 DEF Inserting, Inserted
  <2>5. QED
    BY <1>1, <2>3, <2>4, LinkKeeps DEF locks
<1>2. ASSUME NEW aborts, s.op = "wager", Become(p, again(aborts)), UNCHANGED <<db, locks>>
      PROVE  Once'
  <2> DEFINE n == again(aborts)
  <2>1. /\ n.pc # "commit" /\ n.op = s.op /\ n.req = s.req /\ n.row = s.row
        /\ n.found = s.found /\ n.after = s.after
    BY <1>a DEF Sessions
  <2>2. Become(p, n)
    BY <1>2
  <2> HIDE DEF n
  <2>3. QED
    BY <1>2, <2>1, <2>2, WagerLinks DEF locks
<1>3. QED
  BY <1>1, <1>2, RollbackLinks DEF SaveTransaction

\* The statements of ResolvePendingReference, from the row lock on.
LEMMA ResolveLinks ==
  ASSUME TypeOK, Rest, Once, NEW p \in Procs,
         LockPending(p) \/ FindPendingReference(p) \/ LockPendingWallet(p)
  PROVE  Once'
<1> DEFINE s == session[p]
           t == TxId(s.req)
           w == s.req.wallet
<1>a. s \in Sessions /\ SessionIsSound(s)
  BY Acting
<1>b. s.op = "resolve" /\ s.pc # "replied" /\ s.req \in Requests /\ s.found = NoRow
  BY <1>a, SessionFields DEF SessionIsSound, LockPending, FindPendingReference,
                             LockPendingWallet, At
<1>c. /\ t \in TxIds /\ w \in WalletIds /\ s.req.money \in Monies
      /\ s.req.kind \in {"REFUND", "ROLLBACK"}
  BY <1>a, <1>b, RequestTyped DEF SessionIsSound
<1>d. Resolving(s) /\ RowIsRight(s) /\ txs[t] # NoRow /\ txs[t].req = s.req
  BY <1>b DEF Once, AllLinked, Linked, Resolving
<1>e. \A r \in Rows, status \in Statuses :
        /\ [r EXCEPT !.status = status].req = r.req
        /\ [r EXCEPT !.status = status].status = status
  BY DEF Rows
<1>f. \A r \in Rows, status \in Statuses : [r EXCEPT !.status = status] # NoRow
  <2>1. \A r \in Rows, status \in Statuses : [r EXCEPT !.status = status] \in Rows
    BY DEF Rows
  <2>2. QED
    BY <2>1, LedgerAssumption
<1>0. ASSUME NEW n, Become(p, n), UNCHANGED <<db, rowLock>>, HoldsRow(s), n.op = s.op,
             n.req = s.req, n.found = NoRow, RowIsRight(n), n.row # NoRow
      PROVE  Once'
  <2>1. Linked(p, s, rowLock)
    BY DEF Once, AllLinked
  <2>2. Linked(p, n, rowLock') /\ ~Inserting(n)
    BY <1>0, <1>b, <2>1 DEF Linked, Inserting, HoldsRow, Resolving
  <2>3. QED
    BY <1>0, <2>2, LinkKeeps
<1>1. CASE LockPending(p)
  <2> DEFINE done == Ended(s, [NoReply EXCEPT !.code = "ok"])
             n == [s EXCEPT !.pc = "findPendingReference", !.row = txs[t]]
  <2>1. CASE Become(p, done) /\ UNCHANGED rowLock
    <3>1. done.row = NoRow /\ done.pc = "replied"
      BY DEF Ended, Started, IdleSession
    <3> HIDE DEF done
    <3>2. QED
      BY <1>1, <2>1, <3>1, QuietLinks DEF LockPending, RowIsRight, Inserting, Resolving
  <2>2. CASE /\ txs[t].status = "PENDING_REFERENCE" /\ Become(p, n)
             /\ rowLock' = [rowLock EXCEPT ![t] = p]
    <3>1. /\ n.pc = "findPendingReference" /\ n.op = "resolve" /\ n.req = s.req
          /\ n.row = txs[t] /\ n.found = NoRow /\ n.after = s.after
      BY <1>a, <1>b DEF Sessions
    <3>2. s.after = NoWallet
      BY <1>1, <1>a DEF LockPending, At, SessionIsSound
    <3>3. rowLock'[t] = p
      BY <1>c, <2>2 DEF TypeOK
    <3>4. \A q \in Procs \ {p}, u \in TxIds : rowLock[u] = q => rowLock'[u] = q
      BY <1>1, <1>c, <2>2, SessionAssumption DEF LockPending, RowFree, TypeOK
    <3> HIDE DEF n
    <3>5. Linked(p, n, rowLock') /\ ~Inserting(n)
      BY <1>d, <2>2, <3>1, <3>2, <3>3 DEF Linked, RowIsRight, Inserting
    <3>6. QED
      BY <1>1, <2>2, <3>4, <3>5, LinkKeeps DEF LockPending
  <2>3. QED
    BY <1>1, <2>1, <2>2 DEF LockPending
<1>2. CASE FindPendingReference(p)
  <2> DEFINE kept == [s EXCEPT !.pc = "commit"]
             rejected == [s EXCEPT !.pc = "commit", !.row.status = "REJECTED"]
             usable == [s EXCEPT !.pc = "lockPendingWallet"]
  <2>1. HoldsRow(s) /\ s.row \in Rows /\ s.after = NoWallet
    BY <1>2, <1>a, <1>b, SessionFields
       DEF FindPendingReference, At, HoldsRow, Resolving, SessionIsSound
  <2>2. /\ kept.op = s.op /\ kept.req = s.req /\ kept.found = NoRow /\ kept.row = s.row
        /\ kept.after = s.after
        /\ usable.op = s.op /\ usable.req = s.req /\ usable.found = NoRow
        /\ usable.row = s.row /\ usable.after = s.after
        /\ rejected.op = s.op /\ rejected.req = s.req /\ rejected.found = NoRow
        /\ rejected.row = [s.row EXCEPT !.status = "REJECTED"] /\ rejected.after = s.after
    BY <1>a, <1>b DEF Sessions
  <2>4. \/ Become(p, kept) \/ Become(p, rejected) \/ Become(p, usable)
    BY <1>2 DEF FindPendingReference
  <2>5. UNCHANGED <<db, rowLock>>
    BY <1>2 DEF FindPendingReference, locks
  <2> HIDE DEF kept, rejected, usable
  <2>3. /\ rejected.row # NoRow /\ rejected.row.req = s.row.req
        /\ rejected.row.status = "REJECTED" /\ s.row # NoRow
    BY <1>e, <1>f, <2>1, <2>2, LedgerAssumption DEF Statuses
  <2>6. RowIsRight(kept) /\ RowIsRight(usable) /\ RowIsRight(rejected)
    BY <1>b, <1>d, <2>1, <2>2, <2>3 DEF RowIsRight
  <2>7. QED
    BY <1>0, <2>1, <2>2, <2>3, <2>4, <2>5, <2>6
<1>3. CASE LockPendingWallet(p)
  <2> DEFINE credit == Credit(wallets[w], s.req.money)
             n == [s EXCEPT !.pc = "commit", !.row.status = "PROCESSED",
                            !.before = wallets[w], !.after = credit.wallet]
  <2>1. HoldsRow(s) /\ s.row \in Rows
    BY <1>3, <1>a, <1>b, SessionFields
       DEF LockPendingWallet, At, HoldsRow, Resolving, SessionIsSound
  <2>2. ASSUME Lockable(p, w), credit.err = "none"
        PROVE  credit.wallet # NoWallet
    <3>1. wallets[w] \in Wallets
      BY <2>2, <1>c DEF Lockable, TypeOK
    <3>2. QED
      BY <2>2, <3>1, <1>c, MovedTyped, LedgerAssumption
  <2> HIDE DEF credit
  <2>3. /\ n.op = s.op /\ n.req = s.req /\ n.found = NoRow
        /\ n.row = [s.row EXCEPT !.status = "PROCESSED"] /\ n.after = credit.wallet
    BY <1>a, <1>b DEF Sessions
  <2>4. \/ Rollback(p, "MONEY")
        \/ /\ Become(p, n) /\ UNCHANGED <<db, rowLock>>
           /\ Lockable(p, w) /\ credit.err = "none"
    BY <1>3 DEF LockPendingWallet, LockRow, n, credit
  <2> HIDE DEF n
  <2>5. n.row # NoRow /\ n.row.req = s.row.req /\ n.row.status = "PROCESSED" /\ s.row # NoRow
    BY <1>e, <1>f, <2>1, <2>3, LedgerAssumption DEF Statuses
  <2>6. credit.wallet # NoWallet => RowIsRight(n)
    BY <1>c, <1>d, <2>3, <2>5 DEF RowIsRight
  <2>7. QED
    BY <1>0, <2>1, <2>2, <2>3, <2>4, <2>5, <2>6, RollbackLinks
<1>4. QED
  BY <1>1, <1>2, <1>3

LEMMA InsertWalletLinks ==
  ASSUME TypeOK, Rest, Once, NEW p \in Procs, InsertWallet(p)
  PROVE  Once'
<1> DEFINE s == session[p]
           opened == NewWallet(s.req.player, s.req.money).wallet
           r == [req |-> s.req, status |-> "PROCESSED"]
           empty == [s EXCEPT !.pc = "commit", !.after = opened]
           funded == [s EXCEPT !.pc = "save", !.after = opened, !.row = r]
<1>a. s \in Sessions /\ SessionIsSound(s) /\ s.pc = "insertWallet"
  BY Acting DEF InsertWallet, At
<1>b. s.op = "open" /\ s.req \in Requests
  BY <1>a, SessionFields DEF SessionIsSound
<1>c. s.req \in Openings /\ s.row = NoRow
  BY <1>a, <1>b DEF SessionIsSound
<1>d. s.req.kind # "LOSS" /\ s.req.money.amount \in Int64 /\ s.req.money.amount >= 0
  BY <1>b, <1>c, LedgerAssumption, RequestTyped DEF Monies
<1>e. opened # NoWallet
  <2>1. opened \in Wallets
    BY <1>b, <1>d, RequestTyped, MoneyAssumption
       DEF NewWallet, IsNegative, Changed, WalletRecord, Wallets, Balances, Monies, Int64, MinInt64
  <2>2. QED
    BY <2>1, LedgerAssumption
<1>f. r.req = s.req /\ r.status = "PROCESSED"
  OBVIOUS
<1> HIDE DEF opened, r
<1>1. empty.op = "open" /\ empty.row = NoRow
  BY <1>a, <1>b, <1>c DEF Sessions
<1>2. /\ funded.op = "open" /\ funded.row = r /\ funded.req = s.req /\ funded.pc = "save"
      /\ funded.after = opened
  BY <1>a, <1>b DEF Sessions
<1>3. \/ Rollback(p, "CONFLICT")
      \/ (Become(p, empty) \/ Become(p, funded)) /\ UNCHANGED <<db, rowLock>>
  BY DEF InsertWallet, opened, r, locks
<1> HIDE DEF empty, funded
<1>4. RowIsRight(empty) /\ ~Inserting(empty) /\ ~Resolving(empty)
  BY <1>1 DEF RowIsRight, Inserting, Resolving
<1>5. RowIsRight(funded) /\ ~Inserting(funded) /\ ~Resolving(funded)
  BY <1>2, <1>d, <1>e, <1>f DEF RowIsRight, Inserting, Resolving
<1>6. QED
  BY <1>3, <1>4, <1>5, QuietLinks, RollbackLinks

\* A failed statement, a crash, and the return of a call.
LEMMA EndLinks ==
  ASSUME TypeOK, Rest, Once, NEW p \in Procs,
         StatementFails(p) \/ Fault(p) \/ Return(p)
  PROVE  Once'
<1>1. CASE Return(p)
  <2>1. RowIsRight(IdleSession) /\ ~Inserting(IdleSession) /\ ~Resolving(IdleSession)
    BY DEF IdleSession, RowIsRight, Inserting, Resolving
  <2>2. QED
    BY <1>1, <2>1, QuietLinks DEF Return, locks
<1>2. QED
  BY <1>1, RollbackLinks DEF StatementFails, Fault

-----------------------------------------------------------------------------
(* The commit *)

\* What a commit that writes its row finds: the transaction is new or still pending,
\* and the row in between belongs to nobody else.
LEMMA CommitsOnce ==
  ASSUME TypeOK, Rest, Once, NEW p \in Procs, session[p].pc = "commit"
  PROVE  LET s == session[p]
             t == TxId(s.req)
         IN  /\ s.req \in Requests /\ t \in TxIds /\ s.req.wallet \in WalletIds
             /\ s \in Sessions /\ SessionIsSound(s) /\ RowIsRight(s)
             /\ Writes(s) => /\ s.row.req = s.req
                             /\ \/ /\ s.op # "resolve" /\ txs[t] = NoRow
                                   /\ Inserting(s) /\ ~Duplicate(s.req)
                                \/ /\ s.op = "resolve" /\ txs[t] # NoRow
                                   /\ HoldsRow(s) /\ rowLock[t] = p
                                   /\ txs[t].req = s.req /\ txs[t].status = "PENDING_REFERENCE"
<1> DEFINE s == session[p]
           t == TxId(s.req)
<1>1. s \in Sessions /\ SessionIsSound(s)
  BY Acting
<1>2. s.req \in Requests /\ t \in TxIds /\ s.req.wallet \in WalletIds
  BY <1>1, RequestTyped DEF SessionIsSound
<1>3. Linked(p, s, rowLock) /\ RowIsRight(s)
  BY DEF Once, AllLinked, Linked
<1>4. ASSUME Writes(s), s.op # "resolve"
      PROVE  txs[t] = NoRow /\ Inserting(s) /\ ~Duplicate(s.req)
  <2>1. Inserting(s) /\ ~Duplicate(s.req)
    BY <1>3, <1>4 DEF Writes, Inserting, Linked
  <2>2. txs[t] # NoRow => Clash(txs[t].req, s.req)
    BY <1>2 DEF Once, RowsAreKeyed, Stored, Clash
  <2>3. QED
    BY <1>2, <2>1, <2>2 DEF Duplicate, Stored
<1>5. ASSUME Writes(s), s.op = "resolve"
      PROVE  /\ txs[t] # NoRow /\ HoldsRow(s) /\ rowLock[t] = p
             /\ txs[t].req = s.req /\ txs[t].status = "PENDING_REFERENCE"
  BY <1>3, <1>5 DEF HoldsRow, Resolving, Linked
<1>6. QED
  BY <1>1, <1>2, <1>3, <1>4, <1>5 DEF RowIsRight, Writes

\* What the commit does to the tables that matter here.
LEMMA CommitChanges ==
  ASSUME TypeOK, Rest, Once, NEW p \in Procs, Commit(p), ~Stale(session[p])
  PROVE  LET s == session[p]
             t == TxId(s.req)
             w == s.req.wallet
         IN  /\ \A u \in TxIds : txs'[u] = IF Writes(s) /\ u = t THEN s.row ELSE txs[u]
             /\ \A v \in WalletIds :
                  ledger'[v] = IF HasMovement(s) /\ v = w
                               THEN Append(ledger[w], Entry(s.req, s.before, s.after))
                               ELSE ledger[v]
             /\ rowLock' = Freed(rowLock, p)
             /\ \E n : Become(p, n) /\ n.row = NoRow /\ n.pc = "replied"
<1> DEFINE s == session[p]
           t == TxId(s.req)
           w == s.req.wallet
<1>1. t \in TxIds /\ w \in WalletIds
  BY CommitsOnce DEF Commit, At
<1>2. \A u \in TxIds : txs'[u] = IF Writes(s) /\ u = t THEN s.row ELSE txs[u]
  BY <1>1 DEF Commit, TypeOK
<1>3. \A v \in WalletIds :
        ledger'[v] = IF HasMovement(s) /\ v = w
                     THEN Append(ledger[w], Entry(s.req, s.before, s.after))
                     ELSE ledger[v]
  BY <1>1 DEF Commit, TypeOK
<1>4. rowLock' = Freed(rowLock, p)
  BY DEF Commit, ReleaseLocks
<1>5. \A reply : Ended(s, reply).row = NoRow /\ Ended(s, reply).pc = "replied"
  BY DEF Ended, Started, IdleSession
<1>6. \E n : Become(p, n) /\ n.row = NoRow /\ n.pc = "replied"
  BY <1>5 DEF Commit, Failed
<1>7. QED
  BY <1>2, <1>3, <1>4, <1>6

\* The new row, if any, keeps the indexes unique.
LEMMA CommitKeepsIndexes ==
  ASSUME TypeOK, Rest, Once, NEW p \in Procs, Commit(p), ~Stale(session[p])
  PROVE  RowsAreKeyed' /\ RowsAreApart'
<1> DEFINE s == session[p]
           t == TxId(s.req)
<1>1. /\ t \in TxIds /\ s.row \in Rows \cup {NoRow}
      /\ \A u \in TxIds : txs'[u] = IF Writes(s) /\ u = t THEN s.row ELSE txs[u]
  BY CommitChanges, CommitsOnce, SessionFields DEF Commit, At
<1>2. Writes(s) => /\ s.row.req = s.req
                   /\ \/ ~Duplicate(s.req)
                      \/ txs[t] # NoRow /\ txs[t].req = s.req
  BY CommitsOnce DEF Commit, At
<1>3. RowsAreKeyed'
  BY <1>1, <1>2 DEF Once, RowsAreKeyed, Stored
<1>4. ASSUME NEW u \in Stored', NEW v \in Stored', u # v
      PROVE  ~Clash(txs'[u].req, txs'[v].req)
  <2>1. u \in TxIds /\ v \in TxIds /\ txs'[u] # NoRow /\ txs'[v] # NoRow
    BY DEF Stored
  <2>2. CASE Writes(s) /\ (u = t \/ v = t)
    <3>1. \A x \in TxIds \ {t} : txs[x] # NoRow => ~Clash(txs[x].req, s.req)
      BY <1>1, <1>2, <2>2 DEF Duplicate, Once, RowsAreApart, Stored
    <3>2. QED
      BY <1>1, <1>2, <1>4, <2>1, <2>2, <3>1, ClashSymmetric
  <2>3. CASE ~Writes(s) \/ (u # t /\ v # t)
    BY <1>1, <1>4, <2>1, <2>3 DEF Once, RowsAreApart, Stored
  <2>4. QED
    BY <2>2, <2>3
<1>5. QED
  BY <1>3, <1>4 DEF RowsAreApart

\* The calls still under way are tied to the tables as before.
LEMMA CommitKeepsLinks ==
  ASSUME TypeOK, Rest, Once, NEW p \in Procs, Commit(p), ~Stale(session[p])
  PROVE  AllLinked' /\ InsertsAreExclusive'
<1> DEFINE s == session[p]
           t == TxId(s.req)
<1>1. /\ t \in TxIds /\ rowLock' = Freed(rowLock, p)
      /\ \A u \in TxIds : txs'[u] = IF Writes(s) /\ u = t THEN s.row ELSE txs[u]
  BY CommitChanges, CommitsOnce DEF Commit, At
<1>2. PICK n : Become(p, n) /\ n.row = NoRow /\ n.pc = "replied"
  BY CommitChanges
<1>3. \A q \in Procs : session'[q] = IF q = p THEN n ELSE session[q]
  BY <1>2 DEF Become, TypeOK
<1>4. Writes(s) => /\ s.row.req = s.req /\ s.row # NoRow
                   /\ \/ s.op # "resolve" /\ txs[t] = NoRow /\ Inserting(s)
                      \/ txs[t] # NoRow /\ rowLock[t] = p /\ txs[t].req = s.req
  BY CommitsOnce DEF Commit, At, Writes
<1>5. InsertsAreExclusive'
  BY <1>2, <1>3 DEF Once, InsertsAreExclusive, Inserting
<1>6. ASSUME NEW q \in Procs PROVE Linked(q, session[q], rowLock)'
  <2>1. CASE q = p
    BY <1>2, <1>3, <2>1 DEF Linked, RowIsRight, Inserting, Resolving, HoldsRow
  <2>2. CASE q # p
    <3> DEFINE r == session[q]
               u == TxId(r.req)
    <3>1. Linked(q, r, rowLock) /\ session'[q] = r
      BY <1>3, <2>2 DEF Once, AllLinked
    <3>2. (Resolving(r) => u \in TxIds) /\ r.req = r.req
      BY Acting, RequestTyped DEF Resolving, SessionIsSound
    <3>3. ASSUME Inserting(r) PROVE ~Duplicate(r.req)'
      <4>1. Writes(s) /\ Inserting(s) => ~Clash(s.req, r.req)
        BY <2>2, <3>3 DEF Once, InsertsAreExclusive
      <4>2. ASSUME NEW x \in TxIds, txs'[x] # NoRow PROVE ~Clash(txs'[x].req, r.req)
        <5>1. \A y \in TxIds : txs[y] # NoRow => ~Clash(txs[y].req, r.req)
          BY <3>1, <3>3 DEF Linked, Duplicate, Stored
        <5>2. QED
          BY <1>1, <1>4, <4>1, <4>2, <5>1
      <4>3. QED
        BY <3>1, <4>2 DEF Duplicate, Stored
    <3>4. ASSUME Resolving(r)
          PROVE  txs'[u] # NoRow /\ txs'[u].req = r.req
      BY <1>1, <1>4, <3>1, <3>2, <3>4 DEF Linked
    <3>5. ASSUME HoldsRow(r)
          PROVE  rowLock'[u] = q /\ txs'[u].status = "PENDING_REFERENCE"
      <4>1. Resolving(r) /\ u \in TxIds /\ rowLock[u] = q /\ txs[u] # NoRow
        BY <3>1, <3>2, <3>5 DEF Linked, HoldsRow
      <4>2. rowLock'[u] = q
        BY <1>1, <2>2, <4>1 DEF Freed, TypeOK
      <4>3. txs'[u] = txs[u]
        BY <1>1, <1>4, <2>2, <4>1
      <4>4. QED
        BY <3>1, <3>5, <4>2, <4>3 DEF Linked
    <3>6. QED
      BY <3>1, <3>3, <3>4, <3>5 DEF Linked, RowIsRight, Inserting, Resolving, HoldsRow
  <2>3. QED
    BY <2>1, <2>2
<1>7. QED
  BY <1>5, <1>6 DEF AllLinked

\* A movement of a transaction that had none is its only one.
LEMMA OneMore ==
  ASSUME NEW entries \in Seq(Entries), NEW e \in Entries,
         \A i \in DOMAIN entries : entries[i].tx # e.tx
  PROVE  LET longer == Append(entries, e)
         IN  /\ {i \in DOMAIN longer : longer[i].tx = e.tx} = {Len(entries) + 1}
             /\ longer[Len(entries) + 1] = e
             /\ \A t : t # e.tx =>
                  /\ {i \in DOMAIN longer : longer[i].tx = t}
                       = {i \in DOMAIN entries : entries[i].tx = t}
                  /\ \A i \in DOMAIN entries : longer[i] = entries[i]
<1> DEFINE longer == Append(entries, e)
           n == Len(entries)
<1>1. /\ n \in Nat /\ DOMAIN entries = 1 .. n /\ DOMAIN longer = 1 .. n + 1
      /\ longer[n + 1] = e /\ \A i \in 1 .. n : longer[i] = entries[i]
  OBVIOUS
<1> HIDE DEF longer, n
<1>2. {i \in DOMAIN longer : longer[i].tx = e.tx} = {n + 1}
  BY <1>1
<1>3. \A t : t # e.tx => {i \in DOMAIN longer : longer[i].tx = t}
                            = {i \in DOMAIN entries : entries[i].tx = t}
  BY <1>1
<1>4. QED
  BY <1>1, <1>2, <1>3 DEF longer, n

\* OneMovementPerTransaction for one wallet and one transaction id.
EntriesOf(entries, t) == {i \in DOMAIN entries : entries[i].tx = t}
MovedOnce(row, w, t, entries) ==
  IF /\ row # NoRow /\ row.status = "PROCESSED" /\ row.req.kind # "LOSS" /\ row.req.wallet = w
  THEN \E i \in EntriesOf(entries, t) :
         /\ EntriesOf(entries, t) = {i}
         /\ entries[i].amount = row.req.money.amount
         /\ entries[i].direction = "DEBIT" <=> row.req.kind = "BET"
  ELSE EntriesOf(entries, t) = {}

LEMMA OnceByParts ==
  /\ OneMovementPerTransaction <=>
       \A w \in WalletIds, t \in TxIds : MovedOnce(txs[t], w, t, ledger[w])
  /\ OneMovementPerTransaction' <=>
       \A w \in WalletIds, t \in TxIds : MovedOnce(txs'[t], w, t, ledger'[w])
BY DEF OneMovementPerTransaction, MovedOnce, EntriesOf

LEMMA CommitMovesOnce ==
  ASSUME TypeOK, Rest, Once, NEW p \in Procs, Commit(p), ~Stale(session[p])
  PROVE  OneMovementPerTransaction'
<1> DEFINE s == session[p]
           x == TxId(s.req)
           v == s.req.wallet
           e == Entry(s.req, s.before, s.after)
<1>a. /\ x \in TxIds /\ v \in WalletIds /\ s \in Sessions /\ SessionIsSound(s)
      /\ RowIsRight(s) /\ s.pc = "commit"
  BY CommitsOnce DEF Commit, At
<1>b. /\ \A t \in TxIds : txs'[t] = IF Writes(s) /\ t = x THEN s.row ELSE txs[t]
      /\ \A w \in WalletIds :
           ledger'[w] = IF HasMovement(s) /\ w = v THEN Append(ledger[v], e) ELSE ledger[w]
  BY CommitChanges
<1>c. Writes(s) => /\ s.row.req = s.req /\ s.row # NoRow /\ s.found = NoRow
                   /\ txs[x] = NoRow \/ txs[x].status = "PENDING_REFERENCE"
  BY CommitsOnce DEF Commit, At, Writes
<1>d. HasMovement(s) => /\ Writes(s) /\ s.after # NoWallet /\ e \in Entries /\ e.tx = x
                        /\ e.amount = s.req.money.amount
                        /\ e.direction = "DEBIT" <=> s.req.kind = "BET"
  BY <1>a, WritesTyped DEF HasMovement, Entry
<1>e. Writes(s) => (HasMovement(s) <=> s.row.status = "PROCESSED" /\ s.req.kind # "LOSS")
  BY <1>a, <1>c DEF HasMovement, RowIsRight
<1>f. \A w \in WalletIds, t \in TxIds :
        MovedOnce(txs[t], w, t, ledger[w]) /\ ledger[w] \in Seq(Entries)
  BY OnceByParts DEF Once, TypeOK
<1> HIDE DEF x, v, e
<1>g. Writes(s) => \A w \in WalletIds : EntriesOf(ledger[w], x) = {}
  BY <1>a, <1>c, <1>f DEF MovedOnce
<1>h. HasMovement(s) =>
        /\ EntriesOf(ledger'[v], x) = {Len(ledger[v]) + 1}
        /\ ledger'[v][Len(ledger[v]) + 1] = e
        /\ \A t \in TxIds \ {x} : /\ EntriesOf(ledger'[v], t) = EntriesOf(ledger[v], t)
                                  /\ \A i \in DOMAIN ledger[v] : ledger'[v][i] = ledger[v][i]
  <2>1. SUFFICES ASSUME HasMovement(s)
                 PROVE  /\ EntriesOf(ledger'[v], x) = {Len(ledger[v]) + 1}
                        /\ ledger'[v][Len(ledger[v]) + 1] = e
                        /\ \A t \in TxIds \ {x} :
                             /\ EntriesOf(ledger'[v], t) = EntriesOf(ledger[v], t)
                             /\ \A i \in DOMAIN ledger[v] : ledger'[v][i] = ledger[v][i]
    OBVIOUS
  <2>2. \A i \in DOMAIN ledger[v] : ledger[v][i].tx # e.tx
    BY <2>1, <1>a, <1>d, <1>g DEF EntriesOf
  <2>3. ledger[v] \in Seq(Entries) /\ ledger'[v] = Append(ledger[v], e)
    BY <2>1, <1>a, <1>b, <1>f
  <2>4. QED
    BY <2>1, <2>2, <2>3, <1>d, OneMore DEF EntriesOf
<1>1. ASSUME NEW w \in WalletIds, NEW t \in TxIds
      PROVE  MovedOnce(txs'[t], w, t, ledger'[w])
  <2>1. CASE ~(Writes(s) /\ t = x) /\ HasMovement(s) /\ w = v
    BY <2>1, <1>b, <1>d, <1>f, <1>h DEF MovedOnce, EntriesOf
  <2>2. CASE ~(Writes(s) /\ t = x) /\ ~(HasMovement(s) /\ w = v)
    BY <2>2, <1>b, <1>f
  <2>3. CASE Writes(s) /\ t = x /\ HasMovement(s) /\ w = v
    <3>1. /\ txs'[t] = s.row /\ s.row # NoRow /\ s.row.req = s.req
          /\ EntriesOf(ledger'[w], t) = {Len(ledger[v]) + 1}
          /\ ledger'[w][Len(ledger[v]) + 1] = e
      BY <2>3, <1>b, <1>c, <1>h
    <3>2. s.row.status = "PROCESSED" /\ s.req.kind # "LOSS" /\ s.req.wallet = w
      BY <2>3, <1>e DEF v
    <3>3. QED
      BY <2>3, <3>1, <3>2, <1>d DEF MovedOnce
  <2>4. CASE Writes(s) /\ t = x /\ ~(HasMovement(s) /\ w = v)
    <3>1. /\ txs'[t] = s.row /\ s.row.req = s.req /\ ledger'[w] = ledger[w]
          /\ EntriesOf(ledger[w], t) = {}
      BY <2>4, <1>b, <1>c, <1>g
    <3>2. ~(s.row.status = "PROCESSED" /\ s.req.kind # "LOSS") \/ s.req.wallet # w
      BY <2>4, <1>e DEF v
    <3>3. QED
      BY <3>1, <3>2 DEF MovedOnce
  <2>5. QED
    BY <2>1, <2>2, <2>3, <2>4
<1>2. QED
  BY <1>1, OnceByParts

LEMMA CommitOnceKeeps ==
  ASSUME TypeOK, Rest, Once, NEW p \in Procs, Commit(p)
  PROVE  Once'
<1>1. CASE Stale(session[p])
  BY <1>1, RollbackLinks DEF Commit
<1>2. CASE ~Stale(session[p])
  BY <1>2, CommitKeepsIndexes, CommitKeepsLinks, CommitMovesOnce DEF Once
<1>3. QED
  BY <1>1, <1>2

-----------------------------------------------------------------------------
(* The theorems *)

LEMMA InitOnce == Init => Once
<1> SUFFICES ASSUME Init PROVE Once
  OBVIOUS
<1>1. IdleSession.row = NoRow /\ IdleSession.op = "none" /\ IdleSession.pc = "idle"
  BY DEF IdleSession
<1>2. AllLinked /\ InsertsAreExclusive
  BY <1>1 DEF Init, AllLinked, Linked, InsertsAreExclusive, RowIsRight, Inserting,
              Resolving, HoldsRow
<1>3. Stored = {}
  BY DEF Init, Stored
<1>4. OneMovementPerTransaction
  BY DEF Init, OneMovementPerTransaction
<1>5. QED
  BY <1>2, <1>3, <1>4 DEF Once, RowsAreKeyed, RowsAreApart

LEMMA StepOnce == IInv /\ Once /\ [Next]_vars => Once'
<1> SUFFICES ASSUME IInv, Once, [Next]_vars PROVE Once'
  OBVIOUS
<1>1. TypeOK /\ Rest
  BY DEF IInv, Rest
<1>2. CASE UNCHANGED vars
  <2>1. UNCHANGED db /\ session' = session /\ rowLock' = rowLock /\ txs' = txs
    BY <1>2 DEF vars, db
  <2>2. AllLinked' /\ InsertsAreExclusive'
    BY <2>1 DEF Once, AllLinked, Linked, InsertsAreExclusive, RowIsRight, Inserting,
                Resolving, HoldsRow, Duplicate, Stored
  <2>3. QED
    BY <2>1, <2>2, TablesUntouched DEF Once
<1>3. ASSUME NEW p \in Procs, Begin(p) \/ Step(p) \/ Fault(p)
      PROVE  Once'
  BY <1>1, <1>3, BeginLinks, LookupLinks, LockExistingLinks, LockWalletLinks,
     FindReferenceLinks, SaveLinks, ResolveLinks, InsertWalletLinks, CommitOnceKeeps,
     EndLinks DEF Step
<1>4. QED
  BY <1>2, <1>3 DEF Next

LEMMA OnceHolds == Spec => []Once
<1>1. Init /\ [][Next]_vars => []IInv
  BY InvariantHolds DEF Spec
<1>2. QED
  BY <1>1, InitOnce, StepOnce, PTL DEF Spec

\* Exactly once: however often a wager is sent, and whoever settles a pending refund, its
\* transaction moves its wallet once, by its own amount, and only if it is processed.
THEOREM EachMovesOnce == Spec => []OneMovementPerTransaction
<1>1. Once => OneMovementPerTransaction
  BY DEF Once
<1>2. QED
  BY <1>1, OnceHolds, PTL

\* The lookups and the indexes of wager_transactions keep one transaction per external id
\* and per idempotency key.
THEOREM TransactionsAreUnique == Spec => []UniqueTransactions
<1>1. Once => UniqueTransactions
  BY DEF Once, RowsAreApart, UniqueTransactions, Clash
<1>2. QED
  BY <1>1, OnceHolds, PTL

\* What a step may never do: change a stored request, or a status that is final.
LEMMA StepIsFinal ==
  ASSUME IInv, Once, [Next]_vars, NEW t \in Stored
  PROVE  /\ txs'[t] # NoRow
         /\ txs'[t].req = txs[t].req
         /\ txs[t].status \in Terminal => txs'[t] = txs[t]
<1>1. TypeOK /\ Rest /\ t \in TxIds /\ txs[t] # NoRow
  BY DEF IInv, Rest, Stored
<1>2. CASE txs' = txs
  BY <1>1, <1>2
<1>3. ASSUME NEW p \in Procs, Commit(p), ~Stale(session[p])
      PROVE  /\ txs'[t] # NoRow
             /\ txs'[t].req = txs[t].req
             /\ txs[t].status \in Terminal => txs'[t] = txs[t]
  <2> DEFINE s == session[p]
             x == TxId(s.req)
  <2>1. txs'[t] = IF Writes(s) /\ t = x THEN s.row ELSE txs[t]
    BY <1>1, <1>3, CommitChanges
  <2>2. Writes(s) => /\ s.row # NoRow /\ s.row.req = s.req
                     /\ \/ txs[x] = NoRow
                        \/ txs[x].req = s.req /\ txs[x].status = "PENDING_REFERENCE"
    BY <1>1, <1>3, CommitsOnce DEF Commit, At, Writes
  <2>3. QED
    BY <1>1, <2>1, <2>2 DEF Terminal
<1>4. txs' = txs \/ \E p \in Procs : Commit(p) /\ ~Stale(session[p])
  <2>1. ASSUME NEW p \in Procs, Begin(p) \/ Step(p) \/ Fault(p), ~(Commit(p) /\ ~Stale(session[p]))
        PROVE  txs' = txs
    BY <2>1 DEF Begin, BeginWager, RefuseInput, BeginResolve, BeginOpen, Step, SaveInbox,
       FindConsumed, FindExternal, FindKey, Replay, Conflict, LockExisting, LockRow, LockWallet,
       FindReference, SaveTransaction, LockPending, FindPendingReference, LockPendingWallet,
       InsertWallet, Commit, StatementFails, Fault, Return, Rollback, db
  <2>2. QED
    BY <2>1 DEF Next, vars
<1>5. QED
  BY <1>2, <1>3, <1>4

\* Terminal statuses and stored requests are for ever, whichever calls race for a row.
THEOREM StatusStaysFinal == Spec => StatusIsFinal
<1>1. Init /\ [][Next]_vars => [](IInv /\ Once)
  BY InvariantHolds, OnceHolds, PTL DEF Spec
<1>2. IInv /\ Once /\ [Next]_vars =>
        [\A t \in Stored : /\ txs'[t] # NoRow
                           /\ txs'[t].req = txs[t].req
                           /\ txs[t].status \in Terminal => txs'[t] = txs[t]]_vars
  BY StepIsFinal
<1>3. QED
  BY <1>1, <1>2, PTL DEF Spec, StatusIsFinal

-----------------------------------------------------------------------------
(***************************************************************************)
(* WagerLedger implements AtomicLedger: a commit is one atomic decision,   *)
(* and every other statement is invisible in the tables.                   *)
(***************************************************************************)
(* AtomicLedger's words for what both modules take from LedgerData *)

LEMMA AtomicData ==
  /\ \A r : Atomic!TxId(r) = TxId(r) /\ Atomic!Valid(r) = Valid(r)
            /\ Atomic!PayloadHash(r) = PayloadHash(r)
  /\ \A a, b : Atomic!Clash(a, b) = Clash(a, b)
  /\ \A type, r, v : Atomic!Event(type, r, v) = Event(type, r, v)
  /\ \A r, v, w : Atomic!Entry(r, v, w) = Entry(r, v, w)
  /\ \A m : Atomic!IsZero(m) = IsZero(m)
  /\ Atomic!Statuses = Statuses
BY DEF Atomic!TxId, TxId, Atomic!Valid, Valid, Atomic!PayloadHash, PayloadHash,
       Atomic!Clash, Clash, Atomic!Event, Event, Atomic!Entry, Entry, Atomic!IsZero, IsZero,
       Atomic!Statuses, Statuses

LEMMA AtomicMoves ==
  /\ \A r, w : Atomic!Moves(r, w) = Moves(r, w)
  /\ \A w, m : Atomic!Debit(w, m) = Debit(w, m)
  /\ \A player, m : Atomic!NewWallet(player, m) = NewWallet(player, m)
<1>1. /\ \A e : Atomic!Refused(e) = Refused(e) /\ Atomic!Err(e) = Err(e)
      /\ \A m : /\ Atomic!IsNegative(m) = IsNegative(m) /\ Atomic!IsZero(m) = IsZero(m)
                /\ Atomic!Changed(m) = Changed(m) /\ Atomic!Ok(m) = Ok(m)
      /\ \A w, m : /\ Atomic!Moved(w, m) = Moved(w, m)
                   /\ Atomic!Compare(w, m) = Compare(w, m)
                   /\ Atomic!MoneyOf(w, m) = MoneyOf(w, m)
      /\ \A x : Atomic!Wrap(x) = Wrap(x)
      /\ Atomic!MinInt64 = MinInt64
      /\ \A a, b, c : Atomic!WalletRecord(a, b, c) = WalletRecord(a, b, c)
  BY DEF Atomic!Refused, Refused, Atomic!Err, Err, Atomic!IsNegative, IsNegative,
         Atomic!IsZero, IsZero, Atomic!Changed, Changed, Atomic!Ok, Ok, Atomic!Moved, Moved,
         Atomic!Compare, Compare, Atomic!MoneyOf, MoneyOf, Atomic!Wrap, Wrap,
         Atomic!MinInt64, MinInt64, Atomic!WalletRecord, WalletRecord
<1>2. \A a, b : Atomic!Add(a, b) = Add(a, b) /\ Atomic!Subtract(a, b) = Subtract(a, b)
  BY <1>1 DEF Atomic!Add, Add, Atomic!Subtract, Subtract
<1>3. \A w, m : Atomic!Debit(w, m) = Debit(w, m) /\ Atomic!Credit(w, m) = Credit(w, m)
  BY <1>1, <1>2 DEF Atomic!Debit, Debit, Atomic!Credit, Credit
<1>4. \A player, m : Atomic!NewWallet(player, m) = NewWallet(player, m)
  BY <1>1 DEF Atomic!NewWallet, NewWallet
<1>5. QED
  BY <1>3, <1>4 DEF Atomic!Moves, Moves

-----------------------------------------------------------------------------
(* The invariant: each call carries what its commit will have to justify *)

\* A transaction of this external id, in one of these statuses, is among the rows.
Settled(rows, ext, statuses) ==
  \E t \in TxIds : rows[t] # NoRow /\ rows[t].req.ext = ext /\ rows[t].status \in statuses

\* Where a wager came from, and whether its message is claimed.
Origin(s) ==
  /\ s.op # "wager" => ~s.claim
  /\ s.op = "wager" /\ s.pc # "replied" =>
       /\ Valid(s.req)
       /\ \/ s.msg = NoMsg /\ s.req \in HttpRequests /\ ~s.claim
          \/ /\ s.msg \in Msgs /\ s.req = Body[s.msg]
             /\ s.pc \in {"saveInbox", "findConsumed"} => ~s.claim
             /\ s.claim \/ s.pc \in {"saveInbox", "findConsumed"} \/ s.found # NoRow

\* A claimed message that is answered by a replay asks for what is stored.
Replays(rows, s) ==
  s.found # NoRow /\ s.claim =>
    \E t \in TxIds : rows[t] # NoRow /\ PayloadHash(rows[t].req) = PayloadHash(s.req)

\* A wager's row and wallet are what the locked wallet and the reference call for.
WagerDecided(rows, s) ==
  LET move == Moves(s.req, s.before) IN
  /\ s.row # NoRow /\ s.before # NoWallet /\ Owns(s.before, s.req)
  /\ \/ /\ \/ s.req.kind \in {"BET", "WIN"}
           \/ s.req.kind \in {"REFUND", "ROLLBACK"} /\ Settled(rows, s.req.ref, {"PROCESSED"})
        /\ move.err = "none"
        /\ s.row.status = "PROCESSED" /\ s.after = move.wallet
     \/ /\ s.req.kind = "BET" /\ move.err = "insufficient"
        /\ s.row.status = "REJECTED" /\ s.after = NoWallet
     \/ /\ s.req.kind = "LOSS"
        /\ s.row.status = "PROCESSED" /\ s.after = NoWallet
     \/ /\ s.req.kind \in {"REFUND", "ROLLBACK"}
        /\ s.row.status = "PENDING_REFERENCE" /\ s.after = NoWallet

\* So are a resolver's.
ResolverDecided(rows, s) ==
  LET credit == Credit(s.before, s.req.money) IN
  \/ s.row.status = "PENDING_REFERENCE" /\ s.after = NoWallet
  \/ /\ s.row.status = "REJECTED" /\ s.after = NoWallet
     /\ Settled(rows, s.req.ref, Statuses)
  \/ /\ s.row.status = "PROCESSED" /\ Settled(rows, s.req.ref, {"PROCESSED"})
     /\ s.before # NoWallet /\ credit.err = "none" /\ s.after = credit.wallet

Decision(rows, s) ==
  /\ s.op = "wager" /\ s.pc = "findReference" => Owns(s.before, s.req)
  /\ s.op = "wager" /\ s.pc \in {"save", "commit"} /\ s.found = NoRow => WagerDecided(rows, s)
  /\ s.op = "open" /\ s.pc \in {"save", "commit"} =>
       /\ s.after = NewWallet(s.req.player, s.req.money).wallet
       /\ s.row # NoRow => s.row.status = "PROCESSED"
  /\ s.op = "resolve" /\ s.pc \in {"findPendingReference", "lockPendingWallet"} =>
       s.row.status = "PENDING_REFERENCE"
  /\ s.op = "resolve" /\ s.pc = "lockPendingWallet" => Settled(rows, s.req.ref, {"PROCESSED"})
  /\ s.op = "resolve" /\ s.pc = "commit" => ResolverDecided(rows, s)

StoryOf(rows, s) == Origin(s) /\ Replays(rows, s) /\ Decision(rows, s)
Stories == \A p \in Procs : StoryOf(txs, session[p])

-----------------------------------------------------------------------------
(* Each statement keeps the stories *)

\* What a call has found in the tables remains there, whatever the others do.
LEMMA RowsStay ==
  ASSUME IInv, Once, [Next]_vars
  PROVE  /\ \A ext : /\ Settled(txs, ext, {"PROCESSED"}) => Settled(txs', ext, {"PROCESSED"})
                     /\ Settled(txs, ext, Statuses) => Settled(txs', ext, Statuses)
         /\ \A t \in TxIds : txs[t] # NoRow => txs'[t] # NoRow /\ txs'[t].req = txs[t].req
<1>1. \A t \in TxIds : txs[t] # NoRow => /\ txs'[t] # NoRow
                                         /\ txs'[t].req = txs[t].req
                                         /\ txs[t].status \in Terminal => txs'[t] = txs[t]
  BY StepIsFinal DEF Stored
<1>2. \A t \in TxIds : txs'[t] # NoRow => txs'[t].status \in Statuses
  <2>1. TypeOK'
    BY StepKeeps DEF IInv
  <2>2. QED
    BY <2>1 DEF TypeOK, Rows
<1>3. QED
  BY <1>1, <1>2 DEF Settled, Terminal

\* So a story that fits the tables goes on fitting them.
LEMMA StoryStays ==
  ASSUME IInv, Once, [Next]_vars, NEW s, StoryOf(txs, s)
  PROVE  StoryOf(txs', s)
<1>1. Replays(txs', s)
  BY RowsStay DEF StoryOf, Replays
<1>2. Decision(txs', s)
  <2>1. WagerDecided(txs, s) => WagerDecided(txs', s)
    BY RowsStay DEF WagerDecided
  <2>2. ResolverDecided(txs, s) => ResolverDecided(txs', s)
    BY RowsStay DEF ResolverDecided
  <2>3. QED
    BY <2>1, <2>2, RowsStay DEF StoryOf, Decision
<1>3. QED
  BY <1>1, <1>2 DEF StoryOf

LEMMA StoriesKept ==
  ASSUME IInv, Once, Stories, [Next]_vars,
         NEW p \in Procs, NEW n, Become(p, n), StoryOf(txs, n)
  PROVE  Stories'
<1>1. \A q \in Procs : session'[q] = IF q = p THEN n ELSE session[q]
  BY DEF Become, IInv, TypeOK
<1>2. \A q \in Procs : StoryOf(txs', session'[q])
  BY <1>1, StoryStays DEF Stories
<1>3. QED
  BY <1>2 DEF Stories

LEMMA EndedStory ==
  ASSUME NEW rows, NEW n, n.pc = "replied", ~n.claim
  PROVE  StoryOf(rows, n)
BY DEF StoryOf, Origin, Replays, Decision

LEMMA RollbackStory ==
  ASSUME NEW p \in Procs, NEW code, Rollback(p, code)
  PROVE  \E n : Become(p, n) /\ StoryOf(txs, n)
<1> DEFINE n == Failed(session[p], code)
<1>1. n.pc = "replied" /\ ~n.claim
  BY DEF Failed, Ended, Started, IdleSession
<1>2. Become(p, n)
  BY DEF Rollback
<1> HIDE DEF n
<1>3. QED
  BY <1>1, <1>2, EndedStory

LEMMA BeginStory ==
  ASSUME TypeOK, NEW p \in Procs, Begin(p)
  PROVE  \E n : Become(p, n) /\ StoryOf(txs, n)
<1>1. ASSUME NEW r, NEW m, BeginWager(p, r, m),
             (m = NoMsg /\ r \in HttpRequests) \/ (m \in Msgs /\ r = Body[m])
      PROVE  \E n : Become(p, n) /\ StoryOf(txs, n)
  <2> DEFINE pc == IF m = NoMsg THEN "findExternal" ELSE "saveInbox"
             n == Started("wager", r, m, pc)
  <2>1. /\ n.pc = pc /\ n.op = "wager" /\ n.req = r /\ n.msg = m /\ ~n.claim
        /\ n.found = NoRow
    BY DEF Started, IdleSession
  <2>2. Become(p, n) /\ Valid(r)
    BY <1>1 DEF BeginWager
  <2> HIDE DEF n
  <2>3. Origin(n)
    BY <1>1, <2>1, <2>2, SessionAssumption DEF Origin
  <2>4. QED
    BY <2>1, <2>2, <2>3 DEF StoryOf, Replays, Decision
<1>2. ASSUME NEW r, NEW m, RefuseInput(p, r, m)
      PROVE  \E n : Become(p, n) /\ StoryOf(txs, n)
  <2> DEFINE n == Failed(Started("wager", r, m, "idle"), "INVALID")
  <2>1. n.pc = "replied" /\ ~n.claim
    BY DEF Failed, Ended, Started, IdleSession
  <2>2. Become(p, n)
    BY <1>2 DEF RefuseInput
  <2> HIDE DEF n
  <2>3. QED
    BY <2>1, <2>2, EndedStory
<1>3. ASSUME NEW op \in {"resolve", "open"}, NEW r, NEW pc \in {"lockPending", "insertWallet"},
             Become(p, Started(op, r, NoMsg, pc))
      PROVE  \E n : Become(p, n) /\ StoryOf(txs, n)
  <2> DEFINE n == Started(op, r, NoMsg, pc)
  <2>1. n.pc = pc /\ n.op = op /\ ~n.claim
    BY DEF Started, IdleSession
  <2> HIDE DEF n
  <2>2. StoryOf(txs, n)
    BY <2>1 DEF StoryOf, Origin, Replays, Decision
  <2>3. QED
    BY <1>3, <2>2 DEF n
<1>4. ASSUME NEW t, BeginResolve(p, t)
      PROVE  \E n : Become(p, n) /\ StoryOf(txs, n)
  BY <1>3, <1>4 DEF BeginResolve
<1>5. ASSUME NEW o, BeginOpen(p, o)
      PROVE  \E n : Become(p, n) /\ StoryOf(txs, n)
  BY <1>3, <1>5 DEF BeginOpen
<1>6. CASE \E r \in HttpRequests : BeginWager(p, r, NoMsg) \/ RefuseInput(p, r, NoMsg)
  <2>1. PICK r \in HttpRequests : BeginWager(p, r, NoMsg) \/ RefuseInput(p, r, NoMsg)
    BY <1>6
  <2>2. CASE BeginWager(p, r, NoMsg)
    BY <1>1, <2>2
  <2>3. CASE RefuseInput(p, r, NoMsg)
    BY <1>2, <2>3
  <2>4. QED
    BY <2>1, <2>2, <2>3
<1>7. CASE \E m \in Msgs : BeginWager(p, Body[m], m) \/ RefuseInput(p, Body[m], m)
  <2>1. PICK m \in Msgs : BeginWager(p, Body[m], m) \/ RefuseInput(p, Body[m], m)
    BY <1>7
  <2>2. CASE BeginWager(p, Body[m], m)
    BY <1>1, <2>2
  <2>3. CASE RefuseInput(p, Body[m], m)
    BY <1>2, <2>3
  <2>4. QED
    BY <2>1, <2>2, <2>3
<1>8. QED
  BY <1>4, <1>5, <1>6, <1>7 DEF Begin

\* FindByExternalID and FindByIdempotencyKey return a row of the table.
LEMMA LookupFinds ==
  /\ \A ext : FindByExternalID(ext) # NoRow =>
       \E t \in TxIds : txs[t] # NoRow /\ txs[t] = FindByExternalID(ext) /\ txs[t].req.ext = ext
  /\ \A key : FindByIdempotencyKey(key) # NoRow =>
       \E t \in TxIds : txs[t] # NoRow /\ txs[t] = FindByIdempotencyKey(key)
<1>1. ASSUME NEW found, TheRow(found) # NoRow
      PROVE  \E t \in found : TheRow(found) = txs[t]
  BY <1>1 DEF TheRow
<1>2. ASSUME NEW ext, FindByExternalID(ext) # NoRow
      PROVE  \E t \in TxIds : /\ txs[t] # NoRow /\ txs[t].req.ext = ext
                              /\ txs[t] = FindByExternalID(ext)
  <2>1. PICK t \in {t \in Stored : txs[t].req.ext = ext} : FindByExternalID(ext) = txs[t]
    BY <1>1, <1>2 DEF FindByExternalID
  <2>2. QED
    BY <2>1 DEF Stored
<1>3. ASSUME NEW key, FindByIdempotencyKey(key) # NoRow
      PROVE  \E t \in TxIds : txs[t] # NoRow /\ txs[t] = FindByIdempotencyKey(key)
  <2>1. PICK t \in {t \in Stored : txs[t].req.key = key} : FindByIdempotencyKey(key) = txs[t]
    BY <1>1, <1>3 DEF FindByIdempotencyKey
  <2>2. QED
    BY <2>1 DEF Stored
<1>4. QED
  BY <1>2, <1>3

\* The same session, at its next lookup.
LEMMA NextLookup ==
  ASSUME NEW rows, NEW s, NEW n, StoryOf(rows, s), s.op = "wager", s.found = NoRow,
         s.pc # "replied", n.pc \in {"findExternal", "findKey", "lockWallet"},
         n.op = "wager", n.req = s.req, n.msg = s.msg, n.found = s.found,
         \/ n.claim = s.claim /\ s.pc \notin {"saveInbox", "findConsumed"}
         \/ n.claim = TRUE /\ s.pc = "saveInbox" /\ s.msg # NoMsg
  PROVE  StoryOf(rows, n)
BY SessionAssumption DEF StoryOf, Origin, Replays, Decision

LEMMA ReplayStory ==
  ASSUME TypeOK, Rest, Stories, NEW p \in Procs, session[p].op = "wager",
         session[p].pc # "replied", NEW found, found # NoRow,
         Become(p, [session[p] EXCEPT !.pc = "lockExisting", !.found = found]),
         session[p].claim => \E t \in TxIds :
           txs[t] # NoRow /\ PayloadHash(txs[t].req) = PayloadHash(session[p].req)
  PROVE  \E n : Become(p, n) /\ StoryOf(txs, n)
<1> DEFINE s == session[p]
           n == [s EXCEPT !.pc = "lockExisting", !.found = found]
<1>1. /\ n.pc = "lockExisting" /\ n.op = "wager" /\ n.req = s.req /\ n.msg = s.msg
      /\ n.claim = s.claim /\ n.found = found
  BY Acting DEF Sessions
<1>2. StoryOf(txs, s)
  BY DEF Stories
<1>3. Become(p, n)
  OBVIOUS
<1> HIDE DEF n
<1>4. StoryOf(txs, n)
  BY <1>1, <1>2 DEF StoryOf, Origin, Replays, Decision
<1>5. QED
  BY <1>3, <1>4

\* The inbox claim and the lookups.
LEMMA LookupStory ==
  ASSUME TypeOK, Rest, Stories, NEW p \in Procs,
         SaveInbox(p) \/ FindConsumed(p) \/ FindExternal(p) \/ FindKey(p)
  PROVE  \E n : Become(p, n) /\ StoryOf(txs, n)
<1> DEFINE s == session[p]
<1>a. s \in Sessions /\ SessionIsSound(s) /\ StoryOf(txs, s)
  BY Acting DEF Stories
<1>b. s.op = "wager" /\ s.req \in Requests /\ s.found = NoRow
      /\ s.pc \in {"saveInbox", "findConsumed", "findExternal", "findKey"}
  BY <1>a, SessionFields DEF SessionIsSound, SaveInbox, FindConsumed, FindExternal, FindKey, At
<1>1. CASE SaveInbox(p)
  <2> DEFINE n1 == [s EXCEPT !.pc = "findExternal", !.claim = TRUE]
             n2(aborts) == [s EXCEPT !.pc = "findConsumed", !.aborted = aborts]
  <2>0. s.pc = "saveInbox" /\ s.msg # NoMsg
    BY <1>1, <1>a, SessionAssumption DEF SaveInbox, At, SessionIsSound
  <2>1. /\ n1.pc = "findExternal" /\ n1.op = "wager" /\ n1.req = s.req /\ n1.msg = s.msg
        /\ n1.found = s.found /\ n1.claim = TRUE
    BY <1>a, <1>b DEF Sessions
  <2>2. ASSUME NEW aborts
        PROVE  StoryOf(txs, n2(aborts))
    <3> DEFINE n == n2(aborts)
    <3>1. /\ n.pc = "findConsumed" /\ n.op = "wager" /\ n.req = s.req /\ n.msg = s.msg
          /\ n.found = NoRow /\ n.claim = s.claim
      BY <1>a, <1>b DEF Sessions
    <3> HIDE DEF n
    <3>2. StoryOf(txs, n)
      BY <1>a, <1>b, <2>0, <3>1 DEF StoryOf, Origin, Replays, Decision
    <3>3. QED
      BY <3>2 DEF n
  <2>3. \/ Become(p, n1)
        \/ \E aborts \in FailedStatementAborts : Become(p, n2(aborts))
    BY <1>1 DEF SaveInbox
  <2> HIDE DEF n1, n2
  <2>4. StoryOf(txs, n1)
    BY <1>a, <1>b, <2>0, <2>1, NextLookup
  <2>5. QED
    BY <2>2, <2>3, <2>4
<1>2. CASE FindConsumed(p)
  <2>1. [req |-> s.req, status |-> "PENDING"] # NoRow
    BY <1>b, LedgerAssumption DEF Rows, Statuses
  <2>2. ~s.claim
    BY <1>2, <1>a, <1>b, SessionFields DEF FindConsumed, At, StoryOf, Origin
  <2>3. QED
    BY <1>2, <1>b, <2>1, <2>2, ReplayStory DEF FindConsumed
<1>3. ASSUME NEW e, Replay(p, e), \E t \in TxIds : txs[t] # NoRow /\ txs[t] = e
      PROVE  \E n : Become(p, n) /\ StoryOf(txs, n)
  BY <1>3, <1>b, ReplayStory DEF Replay
<1>4. CASE FindExternal(p)
  <2> DEFINE e == FindByExternalID(s.req.ext)
             n == [s EXCEPT !.pc = "findKey"]
  <2>1. /\ n.pc = "findKey" /\ n.op = "wager" /\ n.req = s.req /\ n.msg = s.msg
        /\ n.found = s.found /\ n.claim = s.claim
    BY <1>a, <1>b DEF Sessions
  <2> HIDE DEF n
  <2>2. StoryOf(txs, n)
    BY <1>4, <1>a, <1>b, <2>1, NextLookup DEF FindExternal, At
  <2>3. e # NoRow => \E t \in TxIds : txs[t] # NoRow /\ txs[t] = e
    BY LookupFinds
  <2>4. Replay(p, e) \/ Rollback(p, "CONFLICT") \/ Become(p, n)
    BY <1>4 DEF FindExternal, Conflict, n
  <2>5. QED
    BY <1>3, <2>2, <2>3, <2>4, RollbackStory DEF Replay
<1>5. CASE FindKey(p)
  <2> DEFINE e == FindByIdempotencyKey(s.req.key)
             n == [s EXCEPT !.pc = "lockWallet"]
  <2>1. /\ n.pc = "lockWallet" /\ n.op = "wager" /\ n.req = s.req /\ n.msg = s.msg
        /\ n.found = s.found /\ n.claim = s.claim
    BY <1>a, <1>b DEF Sessions
  <2> HIDE DEF n
  <2>2. StoryOf(txs, n)
    BY <1>5, <1>a, <1>b, <2>1, NextLookup DEF FindKey, At
  <2>3. e # NoRow => \E t \in TxIds : txs[t] # NoRow /\ txs[t] = e
    BY LookupFinds
  <2>4. Replay(p, e) \/ Rollback(p, "CONFLICT") \/ Become(p, n)
    BY <1>5 DEF FindKey, Conflict, n
  <2>5. QED
    BY <1>3, <2>2, <2>3, <2>4, RollbackStory DEF Replay
<1>6. QED
  BY <1>1, <1>2, <1>4, <1>5

LEMMA LockExistingStory ==
  ASSUME TypeOK, Rest, Stories, NEW p \in Procs, LockExisting(p)
  PROVE  \E n : Become(p, n) /\ StoryOf(txs, n)
<1> DEFINE s == session[p]
           n == [s EXCEPT !.pc = "commit", !.before = wallets[s.found.req.wallet],
                          !.after = NoWallet]
<1>a. s \in Sessions /\ SessionIsSound(s) /\ StoryOf(txs, s) /\ s.pc = "lockExisting"
  BY Acting DEF Stories, LockExisting, At
<1>b. s.op = "wager" /\ s.found # NoRow
  BY <1>a, SessionFields DEF SessionIsSound
<1>1. /\ n.pc = "commit" /\ n.op = "wager" /\ n.req = s.req /\ n.msg = s.msg
      /\ n.claim = s.claim /\ n.found = s.found
  BY <1>a, <1>b DEF Sessions
<1>2. Become(p, n)
  BY DEF LockExisting
<1> HIDE DEF n
<1>3. StoryOf(txs, n)
  BY <1>a, <1>b, <1>1 DEF StoryOf, Origin, Replays, Decision
<1>4. QED
  BY <1>2, <1>3

\* A decision's story is told by what it was decided on.
LEMMA DecidedStory ==
  ASSUME TypeOK, Rest, Stories, NEW p \in Procs, session[p].op = "wager",
         session[p].pc \in {"lockWallet", "findReference"}, session[p].found = NoRow,
         session[p].req \in Requests,
         NEW before, NEW after, NEW status \in Statuses,
         Decide(p, before, after, status),
         before # NoWallet, Owns(before, session[p].req),
         LET r == session[p].req
             move == Moves(r, before)
         IN \/ /\ \/ r.kind \in {"BET", "WIN"}
                  \/ r.kind \in {"REFUND", "ROLLBACK"} /\ Settled(txs, r.ref, {"PROCESSED"})
               /\ move.err = "none"
               /\ status = "PROCESSED" /\ after = move.wallet
            \/ /\ r.kind = "BET" /\ move.err = "insufficient"
               /\ status = "REJECTED" /\ after = NoWallet
            \/ /\ r.kind = "LOSS"
               /\ status = "PROCESSED" /\ after = NoWallet
            \/ /\ r.kind \in {"REFUND", "ROLLBACK"}
               /\ status = "PENDING_REFERENCE" /\ after = NoWallet
  PROVE  \E n : Become(p, n) /\ StoryOf(txs, n)
<1> DEFINE s == session[p]
           row == [req |-> s.req, status |-> status]
           n == [s EXCEPT !.pc = "save", !.before = before, !.after = after, !.row = row]
<1>a. s \in Sessions /\ StoryOf(txs, s)
  BY Acting DEF Stories
<1>b. row # NoRow /\ row.status = status
  <2>1. row \in Rows
    BY DEF Rows
  <2>2. QED
    BY <2>1, LedgerAssumption
<1>1. Become(p, n)
  BY DEF Decide
<1> HIDE DEF row
<1>2. /\ n.pc = "save" /\ n.op = "wager" /\ n.req = s.req /\ n.msg = s.msg
      /\ n.claim = s.claim /\ n.found = NoRow /\ n.row = row
      /\ n.before = before /\ n.after = after
  BY <1>a DEF Sessions
<1> HIDE DEF n
<1>3. WagerDecided(txs, n)
  BY <1>b, <1>2 DEF WagerDecided
<1>4. StoryOf(txs, n)
  BY <1>a, <1>2, <1>3 DEF StoryOf, Origin, Replays, Decision
<1>5. QED
  BY <1>1, <1>4

LEMMA LockWalletStory ==
  ASSUME TypeOK, Rest, Stories, NEW p \in Procs, LockWallet(p)
  PROVE  \E n : Become(p, n) /\ StoryOf(txs, n)
<1> DEFINE s == session[p]
           w == s.req.wallet
           move == Moves(s.req, wallets[w])
           waiting == [s EXCEPT !.pc = "findReference", !.before = wallets[w]]
<1>a. s \in Sessions /\ SessionIsSound(s) /\ StoryOf(txs, s) /\ s.pc = "lockWallet"
  BY Acting DEF Stories, LockWallet, At
<1>b. s.op = "wager" /\ s.req \in Requests /\ s.found = NoRow
  BY <1>a, SessionFields DEF SessionIsSound
<1>1. ASSUME Lockable(p, w), Owns(wallets[w], s.req), NEW after, NEW status \in Statuses,
             Decide(p, wallets[w], after, status),
             \/ /\ s.req.kind \in {"BET", "WIN"} /\ move.err = "none"
                /\ status = "PROCESSED" /\ after = move.wallet
             \/ /\ s.req.kind = "BET" /\ move.err = "insufficient"
                /\ status = "REJECTED" /\ after = NoWallet
             \/ s.req.kind = "LOSS" /\ status = "PROCESSED" /\ after = NoWallet
      PROVE  \E n : Become(p, n) /\ StoryOf(txs, n)
  BY <1>1, <1>a, <1>b, DecidedStory DEF Lockable
<1>2. ASSUME Owns(wallets[w], s.req), Become(p, waiting)
      PROVE  \E n : Become(p, n) /\ StoryOf(txs, n)
  <2>1. /\ waiting.pc = "findReference" /\ waiting.op = "wager" /\ waiting.req = s.req
        /\ waiting.msg = s.msg /\ waiting.claim = s.claim /\ waiting.found = NoRow
        /\ waiting.before = wallets[w]
    BY <1>a, <1>b DEF Sessions
  <2> HIDE DEF waiting
  <2>2. StoryOf(txs, waiting)
    BY <1>2, <1>a, <1>b, <2>1 DEF StoryOf, Origin, Replays, Decision
  <2>3. QED
    BY <1>2, <2>2
<1> HIDE DEF move, waiting
<1>3. \/ \E code : Rollback(p, code)
      \/ /\ Lockable(p, w) /\ Owns(wallets[w], s.req)
         /\ \/ /\ s.req.kind \in {"BET", "WIN"} /\ move.err = "none"
               /\ Decide(p, wallets[w], move.wallet, "PROCESSED")
            \/ /\ s.req.kind = "BET" /\ move.err = "insufficient"
               /\ Decide(p, wallets[w], NoWallet, "REJECTED")
            \/ s.req.kind = "LOSS" /\ Decide(p, wallets[w], NoWallet, "PROCESSED")
            \/ Become(p, waiting)
  BY DEF LockWallet, move, waiting
<1>4. "PROCESSED" \in Statuses /\ "REJECTED" \in Statuses
  BY DEF Statuses
<1>5. QED
  BY <1>1, <1>2, <1>3, <1>4, RollbackStory

\* What the lookup of a reference says about the table.
LEMMA ReferenceFound ==
  ASSUME NEW ext
  PROVE  LET ref == FindByExternalID(ext)
         IN  ref # NoRow => /\ Usable(ref) => Settled(txs, ext, {"PROCESSED"})
                            /\ TypeOK => Settled(txs, ext, Statuses)
<1> DEFINE ref == FindByExternalID(ext)
<1>1. ASSUME ref # NoRow
      PROVE  /\ Usable(ref) => Settled(txs, ext, {"PROCESSED"})
             /\ TypeOK => Settled(txs, ext, Statuses)
  <2>1. PICK t \in TxIds : txs[t] # NoRow /\ txs[t] = ref /\ txs[t].req.ext = ext
    BY <1>1, LookupFinds
  <2>2. TypeOK => txs[t].status \in Statuses
    BY <2>1 DEF TypeOK, Rows
  <2>3. QED
    BY <2>1, <2>2 DEF Usable, Settled
<1>2. QED
  BY <1>1

LEMMA FindReferenceStory ==
  ASSUME TypeOK, Rest, Stories, NEW p \in Procs, FindReference(p)
  PROVE  \E n : Become(p, n) /\ StoryOf(txs, n)
<1> DEFINE s == session[p]
           ref == FindByExternalID(s.req.ref)
           credit == Credit(s.before, s.req.money)
<1>a. s \in Sessions /\ SessionIsSound(s) /\ StoryOf(txs, s) /\ s.pc = "findReference"
  BY Acting DEF Stories, FindReference, At
<1>b. /\ s.op = "wager" /\ s.req \in Requests /\ s.found = NoRow /\ s.before # NoWallet
      /\ Owns(s.before, s.req)
  BY <1>a, SessionFields DEF SessionIsSound, StoryOf, Decision
<1>c. s.req.kind \in {"REFUND", "ROLLBACK"}
  BY <1>a DEF SessionIsSound
<1>d. Moves(s.req, s.before) = credit
  BY <1>c DEF Moves
<1>e. ref # NoRow /\ Usable(ref) => Settled(txs, s.req.ref, {"PROCESSED"})
  BY ReferenceFound
<1> HIDE DEF credit, ref
<1>1. \/ \E code : Rollback(p, code)
      \/ Decide(p, s.before, NoWallet, "PENDING_REFERENCE")
      \/ /\ ref # NoRow /\ Usable(ref) /\ credit.err = "none"
         /\ Decide(p, s.before, credit.wallet, "PROCESSED")
  BY DEF FindReference, credit, ref
<1>2. "PROCESSED" \in Statuses /\ "PENDING_REFERENCE" \in Statuses
  BY DEF Statuses
<1>3. QED
  BY <1>a, <1>b, <1>c, <1>d, <1>e, <1>1, <1>2, DecidedStory, RollbackStory

LEMMA SaveStory ==
  ASSUME TypeOK, Rest, Stories, NEW p \in Procs, SaveTransaction(p)
  PROVE  \E n : Become(p, n) /\ StoryOf(txs, n)
<1> DEFINE s == session[p]
           saved == [s EXCEPT !.pc = "commit"]
           again(aborts) == [s EXCEPT !.pc = "findExternal", !.aborted = aborts]
<1>a. s \in Sessions /\ SessionIsSound(s) /\ StoryOf(txs, s) /\ s.pc = "save"
  BY Acting DEF Stories, SaveTransaction, At
<1>b. s.op \in {"wager", "open"} /\ s.found = NoRow
  BY <1>a, SessionFields DEF SessionIsSound
<1>1. CASE Become(p, saved)
  <2>1. /\ saved.pc = "commit" /\ saved.op = s.op /\ saved.req = s.req /\ saved.msg = s.msg
        /\ saved.claim = s.claim /\ saved.row = s.row /\ saved.found = NoRow
        /\ saved.before = s.before /\ saved.after = s.after
    BY <1>a, <1>b DEF Sessions
  <2> HIDE DEF saved
  <2>2. s.op = "wager" => WagerDecided(txs, saved)
    BY <1>a, <1>b, <2>1 DEF StoryOf, Decision, WagerDecided
  <2>3. StoryOf(txs, saved)
    BY <1>a, <1>b, <2>1, <2>2 DEF StoryOf, Origin, Replays, Decision
  <2>4. QED
    BY <1>1, <2>3
<1>2. ASSUME NEW aborts, s.op = "wager", Become(p, again(aborts))
      PROVE  \E n : Become(p, n) /\ StoryOf(txs, n)
  <2> DEFINE n == again(aborts)
  <2>1. /\ n.pc = "findExternal" /\ n.op = "wager" /\ n.req = s.req /\ n.msg = s.msg
        /\ n.claim = s.claim /\ n.found = s.found
    BY <1>a, <1>2 DEF Sessions
  <2>2. Become(p, n)
    BY <1>2
  <2> HIDE DEF n
  <2>3. StoryOf(txs, n)
    BY <1>a, <1>b, <1>2, <2>1, NextLookup
  <2>4. QED
    BY <2>2, <2>3
<1>3. QED
  BY <1>1, <1>2, RollbackStory DEF SaveTransaction

\* The statements of ResolvePendingReference.
LEMMA ResolveStory ==
  ASSUME TypeOK, Rest, Once, Stories, NEW p \in Procs,
         LockPending(p) \/ FindPendingReference(p) \/ LockPendingWallet(p)
  PROVE  \E n : Become(p, n) /\ StoryOf(txs, n)
<1> DEFINE s == session[p]
           w == s.req.wallet
<1>a. s \in Sessions /\ SessionIsSound(s) /\ StoryOf(txs, s)
  BY Acting DEF Stories
<1>b. s.op = "resolve" /\ s.req \in Requests /\ s.found = NoRow
  BY <1>a, SessionFields DEF SessionIsSound, LockPending, FindPendingReference,
                             LockPendingWallet, At
<1>0. ~s.claim
  BY <1>a, <1>b DEF StoryOf, Origin
<1>1. CASE LockPending(p)
  <2> DEFINE done == Ended(s, [NoReply EXCEPT !.code = "ok"])
             t == TxId(s.req)
             n == [s EXCEPT !.pc = "findPendingReference", !.row = txs[t]]
  <2>1. done.pc = "replied" /\ ~done.claim
    BY DEF Ended, Started, IdleSession
  <2>2. /\ n.pc = "findPendingReference" /\ n.op = "resolve" /\ n.row = txs[t]
        /\ n.claim = s.claim /\ n.found = NoRow
    BY <1>a, <1>b DEF Sessions
  <2>3. \/ Become(p, done)
        \/ txs[t].status = "PENDING_REFERENCE" /\ Become(p, n)
    BY <1>1 DEF LockPending
  <2> HIDE DEF done, n
  <2>4. txs[t].status = "PENDING_REFERENCE" => StoryOf(txs, n)
    BY <1>0, <2>2 DEF StoryOf, Origin, Replays, Decision
  <2>5. QED
    BY <2>1, <2>3, <2>4, EndedStory
<1>c. ASSUME s.row \in Rows, NEW status
      PROVE  [s.row EXCEPT !.status = status].status = status
  BY <1>c DEF Rows
<1>2. CASE FindPendingReference(p)
  <2> DEFINE ref == FindByExternalID(s.req.ref)
             kept == [s EXCEPT !.pc = "commit"]
             rejected == [s EXCEPT !.pc = "commit", !.row.status = "REJECTED"]
             usable == [s EXCEPT !.pc = "lockPendingWallet"]
  <2>1. /\ s.pc = "findPendingReference" /\ s.row \in Rows /\ s.after = NoWallet
        /\ s.row.status = "PENDING_REFERENCE"
    BY <1>2, <1>a, <1>b, SessionFields
       DEF FindPendingReference, At, SessionIsSound, StoryOf, Decision
  <2>2. /\ kept.pc = "commit" /\ kept.op = "resolve" /\ kept.req = s.req
        /\ kept.found = NoRow /\ kept.row = s.row /\ kept.after = s.after
        /\ kept.claim = s.claim
        /\ usable.pc = "lockPendingWallet" /\ usable.op = "resolve" /\ usable.req = s.req
        /\ usable.found = NoRow /\ usable.row = s.row /\ usable.claim = s.claim
        /\ rejected.pc = "commit" /\ rejected.op = "resolve" /\ rejected.req = s.req
        /\ rejected.found = NoRow /\ rejected.row = [s.row EXCEPT !.status = "REJECTED"]
        /\ rejected.after = s.after /\ rejected.claim = s.claim
    BY <1>a, <1>b DEF Sessions
  <2>3. /\ ref # NoRow => Settled(txs, s.req.ref, Statuses)
        /\ ref # NoRow /\ Usable(ref) => Settled(txs, s.req.ref, {"PROCESSED"})
    BY ReferenceFound
  <2>4. \/ Become(p, kept)
        \/ ref # NoRow /\ Become(p, rejected)
        \/ ref # NoRow /\ Usable(ref) /\ Become(p, usable)
    BY <1>2 DEF FindPendingReference
  <2> HIDE DEF kept, rejected, usable, ref
  <2>5. StoryOf(txs, kept)
    BY <1>0, <2>1, <2>2 DEF StoryOf, Origin, Replays, Decision, ResolverDecided
  <2>6. ref # NoRow => StoryOf(txs, rejected)
    BY <1>0, <1>c, <2>1, <2>2, <2>3 DEF StoryOf, Origin, Replays, Decision, ResolverDecided
  <2>7. ref # NoRow /\ Usable(ref) => StoryOf(txs, usable)
    BY <1>0, <2>1, <2>2, <2>3 DEF StoryOf, Origin, Replays, Decision
  <2>8. QED
    BY <2>4, <2>5, <2>6, <2>7
<1>3. CASE LockPendingWallet(p)
  <2> DEFINE credit == Credit(wallets[w], s.req.money)
             n == [s EXCEPT !.pc = "commit", !.row.status = "PROCESSED",
                            !.before = wallets[w], !.after = credit.wallet]
  <2>1. s.row \in Rows /\ Settled(txs, s.req.ref, {"PROCESSED"})
    BY <1>3, <1>a, <1>b, SessionFields
       DEF LockPendingWallet, At, SessionIsSound, StoryOf, Decision
  <2>2. \/ \E code : Rollback(p, code)
        \/ wallets[w] # NoWallet /\ credit.err = "none" /\ Become(p, n)
    BY <1>3 DEF LockPendingWallet, Lockable
  <2>c. credit = Credit(wallets[w], s.req.money)
    OBVIOUS
  <2> HIDE DEF credit
  <2>3. /\ n.pc = "commit" /\ n.op = "resolve" /\ n.req = s.req /\ n.found = NoRow
        /\ n.row = [s.row EXCEPT !.status = "PROCESSED"] /\ n.before = wallets[w]
        /\ n.after = credit.wallet /\ n.claim = s.claim
    BY <1>a, <1>b DEF Sessions
  <2> HIDE DEF n
  <2>4. wallets[w] # NoWallet /\ credit.err = "none" => ResolverDecided(txs, n)
    BY <1>c, <2>1, <2>3, <2>c DEF ResolverDecided
  <2>5. ResolverDecided(txs, n) => StoryOf(txs, n)
    BY <1>0, <2>3 DEF StoryOf, Origin, Replays, Decision
  <2>6. QED
    BY <2>2, <2>4, <2>5, RollbackStory
<1>4. QED
  BY <1>1, <1>2, <1>3

LEMMA InsertWalletStory ==
  ASSUME TypeOK, Rest, Stories, NEW p \in Procs, InsertWallet(p)
  PROVE  \E n : Become(p, n) /\ StoryOf(txs, n)
<1> DEFINE s == session[p]
           opened == NewWallet(s.req.player, s.req.money).wallet
           r == [req |-> s.req, status |-> "PROCESSED"]
           empty == [s EXCEPT !.pc = "commit", !.after = opened]
           funded == [s EXCEPT !.pc = "save", !.after = opened, !.row = r]
<1>a. s \in Sessions /\ SessionIsSound(s) /\ StoryOf(txs, s) /\ s.pc = "insertWallet"
  BY Acting DEF Stories, InsertWallet, At
<1>b. s.op = "open" /\ s.found = NoRow /\ s.row = NoRow /\ ~s.claim
  <2>1. s.op = "open"
    BY <1>a, SessionFields DEF SessionIsSound
  <2>2. QED
    BY <1>a, <2>1 DEF SessionIsSound, StoryOf, Origin
<1>c. r.status = "PROCESSED" /\ opened = NewWallet(s.req.player, s.req.money).wallet
  OBVIOUS
<1>1. \/ \E code : Rollback(p, code)
      \/ Become(p, empty) \/ Become(p, funded)
  BY DEF InsertWallet
<1> HIDE DEF opened, r
<1>2. /\ empty.pc = "commit" /\ empty.op = "open" /\ empty.req = s.req /\ empty.found = NoRow
      /\ empty.row = NoRow /\ empty.after = opened /\ ~empty.claim
      /\ funded.pc = "save" /\ funded.op = "open" /\ funded.req = s.req
      /\ funded.found = NoRow /\ funded.row = r /\ funded.after = opened /\ ~funded.claim
  BY <1>a, <1>b DEF Sessions
<1> HIDE DEF empty, funded
<1>3. StoryOf(txs, empty) /\ StoryOf(txs, funded)
  BY <1>c, <1>2 DEF StoryOf, Origin, Replays, Decision
<1>4. QED
  BY <1>1, <1>3, RollbackStory

LEMMA EndStory ==
  ASSUME NEW p \in Procs, StatementFails(p) \/ Fault(p) \/ Return(p) \/ Commit(p)
  PROVE  \E n : Become(p, n) /\ StoryOf(txs, n)
<1>1. CASE Return(p)
  <2>1. IdleSession.op = "none" /\ ~IdleSession.claim
    BY DEF IdleSession
  <2>2. StoryOf(txs, IdleSession)
    BY <2>1 DEF StoryOf, Origin, Replays, Decision
  <2>3. QED
    BY <1>1, <2>2 DEF Return
<1>2. CASE Commit(p)
  <2>1. \A reply : Ended(session[p], reply).pc = "replied" /\ ~Ended(session[p], reply).claim
    BY DEF Ended, Started, IdleSession
  <2>2. \/ \E code : Rollback(p, code)
        \/ \E reply : Become(p, Ended(session[p], reply))
    BY <1>2 DEF Commit, Failed
  <2>3. QED
    BY <2>1, <2>2, RollbackStory, EndedStory
<1>3. QED
  BY <1>1, <1>2, RollbackStory DEF StatementFails, Fault

LEMMA InitStories == Init => Stories
<1>1. IdleSession.op = "none" /\ ~IdleSession.claim
  BY DEF IdleSession
<1>2. \A rows : StoryOf(rows, IdleSession)
  BY <1>1 DEF StoryOf, Origin, Replays, Decision
<1>3. QED
  BY <1>2 DEF Init, Stories

LEMMA StepStories == IInv /\ Once /\ Stories /\ [Next]_vars => Stories'
<1> SUFFICES ASSUME IInv, Once, Stories, [Next]_vars PROVE Stories'
  OBVIOUS
<1>1. TypeOK /\ Rest
  BY DEF IInv, Rest
<1>2. CASE UNCHANGED vars
  BY <1>2 DEF vars, Stories
<1>3. ASSUME NEW p \in Procs, Begin(p) \/ Step(p) \/ Fault(p)
      PROVE  \E n : Become(p, n) /\ StoryOf(txs, n)
  BY <1>1, <1>3, BeginStory, LookupStory, LockExistingStory, LockWalletStory,
     FindReferenceStory, SaveStory, ResolveStory, InsertWalletStory, EndStory DEF Step
<1>4. QED
  BY <1>2, <1>3, StoriesKept DEF Next

LEMMA StoriesHold == Spec => [](IInv /\ Once /\ Stories)
<1>1. Init /\ [][Next]_vars => [](IInv /\ Once)
  BY InvariantHolds, OnceHolds, PTL DEF Spec
<1>2. QED
  BY <1>1, InitStories, StepStories, PTL DEF Spec

-----------------------------------------------------------------------------
(* The refinement *)

LEMMA AtomicSettled ==
  \A ext, statuses : Atomic!Settled(ext, statuses) <=> Settled(txs, ext, statuses)
BY DEF Atomic!Settled, Settled

LEMMA AtomicKnown == \A r : Atomic!Known(r) <=> Duplicate(r)
BY AtomicData DEF Atomic!Known, Duplicate, Stored

\* A commit seen from the tables.
Committed(s) ==
  /\ txs'     = IF Writes(s) THEN [txs EXCEPT ![TxId(s.req)] = s.row] ELSE txs
  /\ wallets' = IF s.after # NoWallet THEN [wallets EXCEPT ![s.req.wallet] = s.after]
                ELSE wallets
  /\ ledger'  = IF HasMovement(s)
                THEN [ledger EXCEPT ![s.req.wallet] = Append(@, Entry(s.req, s.before, s.after))]
                ELSE ledger
  /\ inbox'   = IF s.claim THEN inbox \cup {s.msg} ELSE inbox
  /\ outbox'  = outbox \cup BalanceEvents(s) \cup OutcomeEvents(s)

LEMMA CommitCommits ==
  ASSUME NEW p \in Procs, Commit(p), ~Stale(session[p])
  PROVE  Committed(session[p])
BY DEF Commit, Committed

\* A row is its request and its status.
LEMMA RowIs ==
  ASSUME NEW row \in Rows
  PROVE  row = [req |-> row.req, status |-> row.status]
BY DEF Rows

\* A movement is AtomicLedger's.
LEMMA MovementRefines ==
  ASSUME NEW s, HasMovement(s), Committed(s), NEW event,
         OutcomeEvents(s) = {event}, wallets[s.req.wallet] = s.before
  PROVE  Atomic!Move(s.req, s.after, event)
<1>1. Writes(s) /\ s.after # NoWallet
  BY DEF HasMovement
<1>2. BalanceEvents(s) = {Event("WalletBalanceChanged", s.req, s.after.version)}
  BY DEF BalanceEvents
<1>3. outbox' = outbox \cup {event, Event("WalletBalanceChanged", s.req, s.after.version)}
  BY <1>2 DEF Committed
<1>4. wallets' = [wallets EXCEPT ![s.req.wallet] = s.after]
  BY <1>1 DEF Committed
<1>5. ledger' = [ledger EXCEPT ![s.req.wallet] =
                   Append(@, Entry(s.req, wallets[s.req.wallet], s.after))]
  BY DEF Committed
<1>6. QED
  BY <1>3, <1>4, <1>5, AtomicData DEF Atomic!Move

\* A row without a movement leaves wallet and ledger as they are.
LEMMA StillWallet ==
  ASSUME NEW s, Committed(s), s.after = NoWallet
  PROVE  /\ UNCHANGED <<wallets, ledger>>
         /\ outbox' = outbox \cup OutcomeEvents(s)
BY DEF Committed, HasMovement, BalanceEvents

LEMMA WagerRefines ==
  ASSUME IInv, Once, Stories, NEW p \in Procs, session[p].pc = "commit",
         session[p].op = "wager", session[p].found = NoRow, Committed(session[p])
  PROVE  Atomic!Next
<1> DEFINE s == session[p]
           r == s.req
           w == s.req.wallet
<1>a. /\ r \in Requests /\ s \in Sessions /\ SessionIsSound(s) /\ StoryOf(txs, s)
      /\ w \in WalletIds /\ TypeOK
  BY CommitsOnce DEF IInv, Rest, Stories
<1>b. WagerDecided(txs, s) /\ Origin(s)
  BY <1>a DEF StoryOf, Decision
<1>c. /\ Writes(s) /\ s.row \in Rows /\ s.row.req = r /\ ~Duplicate(r)
  <2>1. Writes(s) /\ s.row \in Rows
    BY <1>a, <1>b, SessionFields DEF Writes, WagerDecided
  <2>2. QED
    BY <2>1, CommitsOnce DEF IInv, Rest
<1>d. s.before # NoWallet /\ wallets[w] = s.before /\ s.before.player = r.player
  BY <1>b, Acting DEF WagerDecided, WalletOf, Owns, IInv, Rest
<1>e. /\ txs' = [txs EXCEPT ![TxId(r)] = [req |-> r, status |-> s.row.status]]
      /\ \A status : s.row.status = status => Atomic!Record(r, status)
  <2>1. s.row = [req |-> r, status |-> s.row.status]
    BY <1>c, RowIs
  <2>2. QED
    BY <1>c, <2>1, AtomicData DEF Committed, Atomic!Record
<1>f. OutcomeEvents(s) = {Event(StatusEvent[s.row.status], r, 0)}
  BY <1>c DEF OutcomeEvents
<1>1. PICK consumed : /\ inbox' = inbox \cup consumed /\ Valid(r)
                      /\ \/ consumed = {} /\ r \in HttpRequests
                         \/ s.msg \in Msgs /\ consumed = {s.msg} /\ r = Body[s.msg]
  <2>1. CASE s.msg = NoMsg /\ r \in HttpRequests /\ ~s.claim
    <3>1. inbox' = inbox \cup {}
      BY <2>1 DEF Committed
    <3>2. QED
      BY <1>b, <2>1, <3>1 DEF Origin
  <2>2. CASE s.msg \in Msgs /\ r = Body[s.msg] /\ s.claim
    BY <1>b, <2>2 DEF Committed, Origin
  <2>3. QED
    BY <1>b, <2>1, <2>2 DEF Origin
<1>2. ASSUME NEW status, NEW type, s.row.status = status, type = StatusEvent[status],
             s.after = NoWallet
      PROVE  Atomic!Record(r, status) /\ Atomic!Announce(r, type)
  BY <1>2, <1>e, <1>f, StillWallet, AtomicData DEF Atomic!Announce
<1>3. ASSUME s.row.status = "PROCESSED", Moves(r, s.before).err = "none",
             s.after = Moves(r, s.before).wallet, r.kind # "LOSS"
      PROVE  Atomic!MoveAndRecord(r)
  <2>1. HasMovement(s)
    <3>1. RowIsRight(s)
      BY CommitsOnce DEF IInv, Rest
    <3>2. QED
      BY <1>3, <1>c, <3>1 DEF RowIsRight, HasMovement, Writes
  <2>2. OutcomeEvents(s) = {Event("WagerTransactionProcessed", r, 0)}
    BY <1>3, <1>f DEF StatusEvent
  <2>3. Atomic!Move(r, s.after, Event("WagerTransactionProcessed", r, 0))
    BY <1>d, <2>1, <2>2, MovementRefines
  <2>4. QED
    BY <1>3, <1>d, <1>e, <2>3, AtomicData, AtomicMoves DEF Atomic!MoveAndRecord
<1>4. Atomic!Decide(r, consumed)
  <2>1. /\ Atomic!Valid(r) /\ ~Atomic!Known(r) /\ wallets[w] # NoWallet
        /\ wallets[w].player = r.player /\ inbox' = inbox \cup consumed
    BY <1>1, <1>c, <1>d, AtomicData, AtomicKnown
  <2>2. \/ /\ \/ r.kind \in {"BET", "WIN"}
              \/ r.kind \in {"REFUND", "ROLLBACK"} /\ Atomic!Settled(r.ref, {"PROCESSED"})
           /\ Atomic!MoveAndRecord(r)
        \/ /\ r.kind = "BET" /\ Atomic!Debit(wallets[w], r.money).err = "insufficient"
           /\ Atomic!Record(r, "REJECTED")
           /\ Atomic!Announce(r, "WagerTransactionRejected")
        \/ /\ r.kind = "LOSS"
           /\ Atomic!Record(r, "PROCESSED")
           /\ Atomic!Announce(r, "WagerTransactionProcessed")
        \/ /\ r.kind \in {"REFUND", "ROLLBACK"}
           /\ Atomic!Record(r, "PENDING_REFERENCE")
           /\ Atomic!Announce(r, "WagerTransactionPendingReference")
    <3>1. CASE /\ \/ r.kind \in {"BET", "WIN"}
                  \/ r.kind \in {"REFUND", "ROLLBACK"} /\ Settled(txs, r.ref, {"PROCESSED"})
               /\ Moves(r, s.before).err = "none"
               /\ s.row.status = "PROCESSED" /\ s.after = Moves(r, s.before).wallet
      BY <3>1, <1>3, AtomicSettled
    <3>2. CASE /\ r.kind = "BET" /\ Moves(r, s.before).err = "insufficient"
               /\ s.row.status = "REJECTED" /\ s.after = NoWallet
      BY <3>2, <1>2, <1>d, AtomicMoves DEF Moves, StatusEvent
    <3>3. CASE r.kind = "LOSS" /\ s.row.status = "PROCESSED" /\ s.after = NoWallet
      BY <3>3, <1>2 DEF StatusEvent
    <3>4. CASE /\ r.kind \in {"REFUND", "ROLLBACK"}
               /\ s.row.status = "PENDING_REFERENCE" /\ s.after = NoWallet
      BY <3>4, <1>2 DEF StatusEvent
    <3>5. QED
      BY <1>b, <3>1, <3>2, <3>3, <3>4 DEF WagerDecided
  <2>3. QED
    BY <2>1, <2>2 DEF Atomic!Decide
<1>5. QED
  BY <1>1, <1>4 DEF Atomic!Next

LEMMA OpenRefines ==
  ASSUME IInv, Once, Stories, NEW p \in Procs, session[p].pc = "commit",
         session[p].op = "open", Committed(session[p])
  PROVE  Atomic!Next
<1> DEFINE s == session[p]
           o == s.req
           w == s.req.wallet
           opened == NewWallet(o.player, o.money).wallet
<1>a. /\ o \in Requests /\ s \in Sessions /\ SessionIsSound(s) /\ StoryOf(txs, s)
      /\ w \in WalletIds /\ TypeOK
  BY CommitsOnce DEF IInv, Rest, Stories
<1>b. /\ o \in Openings /\ s.before = NoWallet /\ s.found = NoRow /\ s.after # NoWallet
      /\ MovementIsExact(s)
  BY <1>a DEF SessionIsSound
<1>c. /\ s.after = opened /\ (s.row # NoRow => s.row.status = "PROCESSED")
      /\ ~s.claim
  BY <1>a DEF StoryOf, Decision, Origin
<1>d. ~Opened(o) /\ wallets[w] = NoWallet
  <2>1. ~Opened(o)
    BY DEF IInv, OpeningIsFresh, Creates
  <2>2. QED
    BY <1>a, <2>1 DEF Opened
<1>e. s.row = NoRow <=> IsZero(o.money)
  BY <1>b DEF MovementIsExact, IsZero
<1>f. /\ Atomic!NewWallet(o.player, o.money).wallet = opened
      /\ Atomic!IsZero(o.money) = IsZero(o.money)
      /\ Atomic!Opened(o) = Opened(o)
  BY AtomicData, AtomicMoves DEF Atomic!Opened, Opened, Atomic!IsFor, IsFor
<1> HIDE DEF opened
<1>1. CASE s.row = NoRow
  <2>1. ~Writes(s)
    BY <1>1 DEF Writes
  <2>2. /\ UNCHANGED <<txs, ledger, inbox, outbox>>
        /\ wallets' = [wallets EXCEPT ![w] = opened]
    BY <2>1, <1>b, <1>c DEF Committed, HasMovement, BalanceEvents, OutcomeEvents
  <2>3. Atomic!Open(o)
    BY <1>1, <1>d, <1>e, <1>f, <2>2 DEF Atomic!Open
  <2>4. QED
    BY <1>b, <2>3 DEF Atomic!Next
<1>2. CASE s.row # NoRow
  <2>1. Writes(s) /\ HasMovement(s) /\ s.row \in Rows
    BY <1>2, <1>a, <1>b, SessionFields DEF Writes, HasMovement
  <2>2. s.row.req = o /\ ~Duplicate(o)
    BY <2>1, CommitsOnce DEF IInv, Rest
  <2>3. s.row = [req |-> o, status |-> "PROCESSED"]
    BY <1>2, <1>c, <2>1, <2>2, RowIs
  <2>4. Atomic!Record(o, "PROCESSED") /\ UNCHANGED inbox
    BY <2>1, <2>3, <1>c, AtomicData DEF Committed, Atomic!Record
  <2>5. OutcomeEvents(s) = {Event("WALLET_OPENED", o, opened.version)}
    BY <2>1, <1>c DEF OutcomeEvents
  <2>6. Atomic!Move(o, opened, Event("WALLET_OPENED", o, opened.version))
    BY <1>b, <1>c, <1>d, <2>1, <2>5, MovementRefines
  <2>7. Atomic!Open(o)
    BY <1>2, <1>d, <1>e, <1>f, <2>2, <2>4, <2>6, AtomicData, AtomicKnown DEF Atomic!Open
  <2>8. QED
    BY <1>b, <2>7 DEF Atomic!Next
<1>3. QED
  BY <1>1, <1>2

LEMMA ResolveRefines ==
  ASSUME IInv, Once, Stories, NEW p \in Procs, session[p].pc = "commit",
         session[p].op = "resolve", Committed(session[p])
  PROVE  [Atomic!Next]_(Atomic!atoms)
<1> DEFINE s == session[p]
           r == s.req
           w == s.req.wallet
           t == TxId(r)
<1>a. /\ r \in Requests /\ s \in Sessions /\ SessionIsSound(s) /\ StoryOf(txs, s)
      /\ w \in WalletIds /\ t \in TxIds /\ TypeOK
  BY CommitsOnce DEF IInv, Rest, Stories
<1>b. /\ s.found = NoRow /\ r.kind \in {"REFUND", "ROLLBACK"}
      /\ ResolverDecided(txs, s) /\ ~s.claim
  BY <1>a DEF SessionIsSound, StoryOf, Decision, Origin
<1>c. /\ Writes(s) /\ s.row \in Rows /\ s.row.req = r
      /\ txs[t] # NoRow /\ txs[t].req = r /\ txs[t].status = "PENDING_REFERENCE"
  <2>1. HoldsRow(s) /\ Linked(p, s, rowLock)
    BY <1>a DEF HoldsRow, Resolving, Once, AllLinked
  <2>2. s.row # NoRow
    BY <2>1 DEF Linked
  <2>3. Writes(s) /\ s.row \in Rows
    BY <1>a, <1>b, <2>2, SessionFields DEF Writes
  <2>4. QED
    BY <2>3, CommitsOnce DEF IInv, Rest
<1>d. /\ txs' = [txs EXCEPT ![t] = s.row] /\ UNCHANGED inbox
      /\ s.row = [req |-> r, status |-> s.row.status]
  BY <1>b, <1>c, RowIs DEF Committed
<1>e. \A status : s.row.status = status => Atomic!Record(r, status)
  BY <1>d, AtomicData DEF Atomic!Record
<1>1. CASE s.row.status = "PENDING_REFERENCE" /\ s.after = NoWallet
  <2>1. txs[t] \in Rows
    BY <1>a, <1>c DEF TypeOK
  <2>2. txs[t] = s.row
    BY <1>1, <1>c, <1>d, <2>1, RowIs
  <2>3. txs' = txs
    BY <1>a, <1>d, <2>2 DEF TypeOK
  <2>4. OutcomeEvents(s) = {}
    BY <1>1, <1>c DEF OutcomeEvents
  <2>5. UNCHANGED <<wallets, ledger, outbox>>
    BY <1>1, <2>4, StillWallet
  <2>6. QED
    BY <1>d, <2>3, <2>5 DEF Atomic!atoms
<1>2. CASE s.row.status = "REJECTED" /\ s.after = NoWallet /\ Settled(txs, r.ref, Statuses)
  <2>1. OutcomeEvents(s) = {}
    BY <1>2, <1>c DEF OutcomeEvents
  <2>2. UNCHANGED <<wallets, ledger, outbox>>
    BY <1>2, <2>1, StillWallet
  <2>3. Atomic!Settle(t)
    BY <1>2, <1>c, <1>d, <1>e, <2>2, AtomicSettled, AtomicData DEF Atomic!Settle
  <2>4. QED
    BY <1>a, <2>3 DEF Atomic!Next
<1>3. CASE /\ s.row.status = "PROCESSED" /\ Settled(txs, r.ref, {"PROCESSED"})
           /\ s.before # NoWallet /\ Credit(s.before, r.money).err = "none"
           /\ s.after = Credit(s.before, r.money).wallet
  <2>1. s.before = wallets[w]
    BY <1>3, <1>b, Acting DEF WalletOf, IInv, Rest
  <2>2. Moves(r, s.before) = Credit(s.before, r.money)
    BY <1>b DEF Moves
  <2>3. HasMovement(s)
    <3>1. RowIsRight(s)
      BY CommitsOnce DEF IInv, Rest
    <3>2. QED
      BY <1>3, <1>b, <1>c, <3>1 DEF RowIsRight, HasMovement, Writes
  <2>4. OutcomeEvents(s) = {Event("WagerTransactionProcessed", r, 0)}
    BY <1>3, <1>c DEF OutcomeEvents
  <2>5. Atomic!Move(r, s.after, Event("WagerTransactionProcessed", r, 0))
    BY <2>1, <2>3, <2>4, MovementRefines
  <2>6. Atomic!MoveAndRecord(r)
    BY <1>3, <1>e, <2>1, <2>2, <2>5, AtomicData, AtomicMoves DEF Atomic!MoveAndRecord
  <2>7. Atomic!Settle(t)
    BY <1>3, <1>c, <1>d, <2>6, AtomicSettled DEF Atomic!Settle
  <2>8. QED
    BY <1>a, <2>7 DEF Atomic!Next
<1>4. QED
  BY <1>b, <1>1, <1>2, <1>3 DEF ResolverDecided

\* A replay leaves the tables as they are, but for the message it answers.
LEMMA ReplayRefines ==
  ASSUME IInv, Once, Stories, NEW p \in Procs, session[p].pc = "commit",
         session[p].op = "wager", session[p].found # NoRow, Committed(session[p])
  PROVE  [Atomic!Next]_(Atomic!atoms)
<1> DEFINE s == session[p]
<1>a. s \in Sessions /\ SessionIsSound(s) /\ StoryOf(txs, s)
  BY CommitsOnce DEF IInv, Rest, Stories
<1>b. s.after = NoWallet /\ ~Writes(s)
  BY <1>a DEF SessionIsSound, Writes
<1>c. UNCHANGED <<wallets, txs, ledger, outbox>>
  BY <1>b DEF Committed, HasMovement, BalanceEvents, OutcomeEvents
<1>1. CASE ~s.claim
  BY <1>1, <1>c DEF Committed, Atomic!atoms
<1>2. CASE s.claim
  <2>1. s.msg \in Msgs /\ s.req = Body[s.msg]
    BY <1>2, <1>a DEF StoryOf, Origin
  <2>2. \E t \in TxIds : txs[t] # NoRow /\ PayloadHash(txs[t].req) = PayloadHash(s.req)
    BY <1>2, <1>a DEF StoryOf, Replays
  <2>3. inbox' = inbox \cup {s.msg}
    BY <1>2 DEF Committed
  <2>4. Atomic!Consume(s.msg)
    BY <1>c, <2>1, <2>2, <2>3, AtomicData DEF Atomic!Consume
  <2>5. QED
    BY <2>1, <2>4 DEF Atomic!Next
<1>3. QED
  BY <1>1, <1>2

\* The one step of a call that anybody else can see.
LEMMA CommitRefines ==
  ASSUME IInv, Once, Stories, NEW p \in Procs, Commit(p), ~Stale(session[p])
  PROVE  [Atomic!Next]_(Atomic!atoms)
<1>1. session[p].pc = "commit" /\ Committed(session[p])
  BY CommitCommits DEF Commit, At
<1>2. session[p] \in Sessions /\ SessionIsSound(session[p])
  BY <1>1, CommitsOnce DEF IInv, Rest
<1>3. session[p].op \in {"wager", "resolve", "open"}
  BY <1>1, <1>2, SessionFields DEF SessionIsSound
<1>4. QED
  BY <1>1, <1>3, WagerRefines, OpenRefines, ResolveRefines, ReplayRefines

LEMMA StepRefines ==
  IInv /\ Once /\ Stories /\ [Next]_vars => [Atomic!Next]_(Atomic!atoms)
<1> SUFFICES ASSUME IInv, Once, Stories, [Next]_vars
             PROVE  [Atomic!Next]_(Atomic!atoms)
  OBVIOUS
<1>1. ASSUME NEW p \in Procs, Begin(p) \/ Step(p) \/ Fault(p), ~(Commit(p) /\ ~Stale(session[p]))
      PROVE  UNCHANGED db
  BY <1>1 DEF Begin, BeginWager, RefuseInput, BeginResolve, BeginOpen, Step, SaveInbox,
     FindConsumed, FindExternal, FindKey, Replay, Conflict, LockExisting, LockRow, LockWallet,
     FindReference, SaveTransaction, LockPending, FindPendingReference, LockPendingWallet,
     InsertWallet, Commit, StatementFails, Fault, Return, Rollback, db
<1>2. UNCHANGED db => UNCHANGED Atomic!atoms
  BY DEF db, Atomic!atoms
<1>3. QED
  BY <1>1, <1>2, CommitRefines DEF Next, vars, db

LEMMA InitRefines == Init => Atomic!Init
BY DEF Init, Atomic!Init

\* A wager, a resolution or an opening, and the replay of any of them, changes the
\* tables as one step of AtomicLedger taken at its commit, and never otherwise.
THEOREM LedgerImplementsAtomic == Spec => ImplementsAtomicLedger
<1>1. Init /\ [][Next]_vars => [](IInv /\ Once /\ Stories)
  BY StoriesHold, PTL DEF Spec
<1>2. QED
  BY <1>1, InitRefines, StepRefines, PTL DEF Spec, ImplementsAtomicLedger, Atomic!Spec
=============================================================================
