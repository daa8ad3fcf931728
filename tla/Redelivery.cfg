CONSTANTS
  MaxInt64 = 3
  Currencies = {"BRL"}
  Procs = {p1, p2}
  WalletIds = {"wa"}
  Players = {"alice"}
  Exts = {"open_a", "bet1", "bet2"}
  Keys = {"open:a", "k1", "k2"}
  TxIds = {"open_a", "bet1", "bet2"}
  InternalId <- OwnInternalId
  Msgs = {"m1"}
  Body <- QueueBody
  HttpRequests <- QueueHttp
  Openings <- RaceOpenings
  FailedStatementAborts = {TRUE}
  NoProc = NoProc
  NoMsg = NoMsg
  NoRow = NoRow
  NoWallet = NoWallet
  NoRequest = NoRequest
  NoExt = NoExt
SPECIFICATION Spec
INVARIANTS
  RedeliveryIsAnswered
