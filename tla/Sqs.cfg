CONSTANTS
  MaxInt64 = 4
  Currencies = {"BRL"}
  Procs = {p1, p2}
  WalletIds = {"wa"}
  Players = {"alice"}
  Exts = {"open_a", "bet1", "ref1"}
  Keys = {"open:a", "k1", "k2"}
  TxIds = {"open_a", "bet1", "ref1"}
  InternalId <- OwnInternalId
  Msgs = {"m1", "m2", "m3"}
  Body <- QueueBody
  HttpRequests = {}
  Openings <- QueueOpenings
  FailedStatementAborts = {TRUE}
  Clients = {"a"}
  Providers = {"a"}
  Identity <- TheirProvider
  ProviderOf <- TheirName
  NoClient = NoClient
  Group <- OneGroup
  MaxReceive = 2
  NoProc = NoProc
  NoMsg = NoMsg
  NoRow = NoRow
  NoWallet = NoWallet
  NoRequest = NoRequest
  NoExt = NoExt
SPECIFICATION SqsSpec
INVARIANTS
  DeletedIsStored
  RefundWaitsOnlyForDead
