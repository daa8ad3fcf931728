--------------------------- MODULE MCWagerLedger ---------------------------
(***************************************************************************)
(* Instances of WagerLedger for TLC.  Every run tells a small story: the   *)
(* wallets that can be opened, what providers send over HTTP, and what the *)
(* queue delivers.  Amounts are cents, MaxInt64 is the largest balance.    *)
(***************************************************************************)
EXTENDS WagerLedger, TLC

Alice(ext, key, kind, amount, ref) ==
  [ext |-> ext, key |-> key, wallet |-> "wa", player |-> "alice", kind |-> kind,
   money |-> MoneyOf(amount, "BRL"), ref |-> ref]

OpenAlice == Alice("open_a", "open:a", "OPENING", 2, NoExt)

\* Race: the two bets cannot both be paid, a third one reuses the first one's key, the
\* refund may overtake its bet, a rollback of the refund may overtake both, and the queue
\* delivers the bet and the refund too.
RaceBet      == Alice("bet1", "k1", "BET", 2, NoExt)
RaceOtherBet == Alice("bet2", "k2", "BET", 1, NoExt)
RaceReuse    == Alice("bet3", "k1", "BET", 1, NoExt)
RaceRefund   == Alice("ref1", "k4", "REFUND", 2, "bet1")
RaceInvalid  == Alice("bet3", "k1", "BET", 0, NoExt)
RaceRollback == Alice("rol1", "k5", "ROLLBACK", 1, "ref1")

RaceOpenings == {OpenAlice}
RaceHttp     == {RaceBet, RaceOtherBet, RaceReuse, RaceRollback, RaceInvalid}
RaceBody     == [m1 |-> RaceBet, m2 |-> RaceRefund]

\* Chain: a rollback of a refund of a bet, all in flight at once.
ChainHttp == {RaceBet, RaceRefund, RaceRollback}
ChainBody == << >>

\* Queue: the wallet is opened and the queue delivers one bet, again and again.
QueueHttp == {RaceOtherBet}
QueueBody == [m1 |-> RaceBet]

\* Calls are alike, and no property tells them apart.
Interchangeable == Permutations(Procs)

OwnInternalId == [e \in Exts |-> e]
=============================================================================
