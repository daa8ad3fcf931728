CONSTANTS
  MaxInt64 = 4
  Currencies = {"BRL"}
  WalletIds = {"wa", "wb"}
  Players = {"alice", "bob"}
  Exts = {"open_a", "open_b", "bet1", "bet2", "win1", "loss1", "ref1", "ref2"}
  Keys = {"open_a", "open_b", "bet1", "bet2", "win1", "loss1", "ref1", "ref2"}
  TxIds = {"open_a", "open_b", "bet1", "bet2", "win1", "loss1", "ref1", "ref2"}
  InternalId <- OwnInternalId
  Msgs = {"m1", "m2"}
  Body <- BothBody
  HttpRequests <- BothHttp
  Openings <- BothOpen
  Readers = {r1}
  NoRow = NoRow
  NoWallet = NoWallet
  NoExt = NoExt
SPECIFICATION ReconciliationSpec
INVARIANTS
  ReportIsExact
