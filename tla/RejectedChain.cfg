CONSTANTS
  MaxInt64 = 4
  Currencies = {"BRL"}
  Procs = {p1, p2}
  WalletIds = {"wa"}
  Players = {"alice"}
  Exts = {"open_a", "bet1", "ref1", "rol1"}
  Keys = {"open:a", "k1", "k4", "k5"}
  TxIds = {"open_a", "bet1", "ref1", "rol1"}
  InternalId <- OwnInternalId
  Msgs = {}
  Body <- ChainBody
  HttpRequests <- ChainHttp
  Openings <- RaceOpenings
  FailedStatementAborts = {TRUE}
  NoProc = NoProc
  NoMsg = NoMsg
  NoRow = NoRow
  NoWallet = NoWallet
  NoRequest = NoRequest
  NoExt = NoExt
SPECIFICATION Spec
INVARIANTS
  RejectedReferenceStaysUnpaid
