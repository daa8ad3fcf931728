CONSTANTS
  MaxInt64 = 3
  Currencies = {"BRL", "USD"}
  Procs = {p1, p2}
  WalletIds = {"wa", "wb", "wc"}
  Players = {"alice", "bob"}
  Exts = {"open_a", "open_b", "open_c", "win1", "loss2", "ref1", "loss1", "bad1"}
  Keys = {"open:a", "open:b", "open:c", "k1", "k2", "k3"}
  TxIds = {"open_a", "open_b", "open_c", "win1", "loss1", "bad1", "tx"}
  InternalId <- CollidingIds
  Msgs = {"m1", "m2"}
  Body <- LimitsBody
  HttpRequests <- LimitsHttp
  Openings <- LimitsOpenings
  FailedStatementAborts = {FALSE}
  Clients = {"a", "b"}
  Providers = {"a", "b"}
  Identity <- TheirProviders
  ProviderOf <- TheirNames
  NoClient = NoClient
  NoProc = NoProc
  NoMsg = NoMsg
  NoRow = NoRow
  NoWallet = NoWallet
  NoRequest = NoRequest
  NoExt = NoExt
SPECIFICATION ApiSpec
INVARIANTS
  AnswersLast
  ProvidersAreIsolated
  OneWalletPerCurrency
PROPERTIES
  AnswersAreTrue
  ImplementsAtomicLedger
