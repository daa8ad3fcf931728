CONSTANTS
  MaxInt64 = 8
  Currencies = {"BRL", "USD"}
  WalletIds = {"wa"}
  Players = {"alice"}
  Exts = {"open_a", "bet1", "good", "foreign", "alien", "orphan", "lost"}
  Keys = {"open_a", "bet1", "good", "foreign", "alien", "orphan", "lost"}
  TxIds = {"open_a", "bet1", "good", "foreign", "alien", "orphan", "lost"}
  InternalId <- OwnInternalId
  Msgs = {}
  Body <- NoBody
  HttpRequests <- MixedHttp
  Openings <- OpenAlice
  Workers = {w1, w2}
  Limit = 2
  Period = 1
  RetryDelay = 2
  MaxFaults = 1
  NoRow = NoRow
  NoWallet = NoWallet
  NoExt = NoExt
SPECIFICATION FairSpec
INVARIANTS
  PendingTypeOK

  
  
