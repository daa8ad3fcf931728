CONSTANTS
  MaxInt64 = 3
  Currencies = {"BRL"}
  Procs = {p1, p2}
  WalletIds = {"wa"}
  Players = {"alice"}
  Exts = {"open_a", "bet1", "bet2", "bet3", "ref1", "rol1"}
  Keys = {"open:a", "k1", "k2", "k4", "k5"}
  TxIds = {"open_a", "bet1", "bet2", "bet3", "ref1", "rol1"}
  InternalId <- OwnInternalId
  Msgs = {"m1", "m2"}
  Body <- RaceBody
  HttpRequests <- RaceHttp
  Openings <- RaceOpenings
  FailedStatementAborts = {TRUE, FALSE}
  NoProc = NoProc
  NoMsg = NoMsg
  NoRow = NoRow
  NoWallet = NoWallet
  NoRequest = NoRequest
  NoExt = NoExt
SPECIFICATION Spec
SYMMETRY Interchangeable
INVARIANTS
  SnapshotIsCurrent
  LedgerChain
  IInv
  VersionCountsMovements
  OneMovementPerTransaction
  NoDeadlock
  EventsMatchState
  ConsumedIsStored
  PaidRefundHasReference
PROPERTIES
  StatusIsFinal
  ImplementsAtomicLedger
