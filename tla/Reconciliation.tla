--------------------------- MODULE Reconciliation ---------------------------
(***************************************************************************)
(* ReconciliationUsecase.Execute while wagers go on: it reads the wallet,  *)
(* then sums up the wallet's ledger, in two statements of no common        *)
(* transaction, and compares.  The wagers are those of AtomicLedger.       *)
(***************************************************************************)
EXTENDS AtomicLedger

CONSTANT Readers   \* concurrent calls of the reconciliation endpoint

VARIABLE report    \* Readers -> the call's local variables and its answer

reportVars == <<atoms, report>>

NoReport == [pc |-> "idle", id |-> NoWallet, stored |-> 0,
             calculated |-> 0, checkedEntries |-> 0, outcome |-> "none"]

ReconciliationInit == Init /\ report = [p \in Readers |-> NoReport]

Set(p, r) == report' = [report EXCEPT ![p] = r] /\ UNCHANGED atoms

\* FindByID.
ReadWallet(p, w) ==
  /\ report[p].pc = "idle"
  /\ \/ /\ wallets[w] = NoWallet
        /\ Set(p, [NoReport EXCEPT !.pc = "done", !.id = w, !.outcome = "not found"])
     \/ /\ wallets[w] # NoWallet
        /\ Set(p, [NoReport EXCEPT !.pc = "ledger", !.id = w,
                                   !.stored = wallets[w].balance.amount])

\* SUM(CASE WHEN direction = ... THEN amount ELSE 0 END).
Sum(entries, direction) ==
  LET sum[n \in 0 .. Len(entries)] ==
        IF n = 0 THEN 0
        ELSE sum[n-1] + (IF entries[n].direction = direction THEN entries[n].amount ELSE 0)
  IN  sum[Len(entries)]

\* Mutant: the debits are not subtracted.
CalculatedFromCredits(entries) == Sum(entries, "CREDIT")

Calculated(entries) == Sum(entries, "CREDIT") - Sum(entries, "DEBIT")

\* The sums are NUMERIC; scanning one that is no int64 is an error.
Scanned(sum) == sum <= MaxInt64

\* CalculateLedgerBalance and the comparison.
ReadLedger(p) ==
  LET r == report[p]
      entries == ledger[r.id]
  IN
  /\ r.pc = "ledger"
  /\ \/ /\ Scanned(Sum(entries, "CREDIT")) /\ Scanned(Sum(entries, "DEBIT"))
        /\ Set(p, [r EXCEPT !.pc = "done", !.calculated = Calculated(entries),
                            !.checkedEntries = Len(entries),
                            !.outcome = IF r.stored = Calculated(entries)
                                        THEN "consistent" ELSE "inconsistent"])
     \/ /\ ~(Scanned(Sum(entries, "CREDIT")) /\ Scanned(Sum(entries, "DEBIT")))
        /\ Set(p, [r EXCEPT !.pc = "done", !.outcome = "error"])

Forget(p) == report[p].pc # "idle" /\ Set(p, NoReport)

ReconciliationNext ==
  \/ Next /\ UNCHANGED report
  \/ \E p \in Readers : ReadLedger(p) \/ Forget(p) \/ \E w \in WalletIds : ReadWallet(p, w)

ReconciliationSpec == ReconciliationInit /\ [][ReconciliationNext]_reportVars

-----------------------------------------------------------------------------
(* Properties *)

BalanceAfter(entries, n) == IF n = 0 THEN 0 ELSE entries[n].after

\* What a report says was so: the calculated balance is the balance after the entries
\* it has checked, the stored balance that after some of them, not more.  The
\* difference is therefore exactly what was moved between the two reads, and without
\* a movement there is none.
ReportIsExact ==
  \A p \in Readers :
    LET r == report[p]
        entries == ledger[r.id]
    IN  r.outcome \in {"consistent", "inconsistent"} =>
          /\ r.checkedEntries <= Len(entries)
          /\ r.calculated = BalanceAfter(entries, r.checkedEntries)
          /\ \E n \in 0 .. r.checkedEntries : r.stored = BalanceAfter(entries, n)
=============================================================================
