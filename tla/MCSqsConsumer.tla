---------------------------- MODULE MCSqsConsumer ----------------------------
(***************************************************************************)
(* Instances of SqsConsumer for TLC.  In one the queue carries a bet, its  *)
(* refund and a message the use case refuses, all of one player's group;   *)
(* in the other the bet and one in a foreign currency come over HTTP, and  *)
(* the refund of the first from the queue.                                 *)
(***************************************************************************)
EXTENDS SqsConsumer

Alice(ext, key, kind, amount, ref) ==
  [ext |-> ext, key |-> key, wallet |-> "wa", player |-> "alice", kind |-> kind,
   money |-> MoneyOf(amount, "BRL"), ref |-> ref]

OpenAlice == Alice("open_a", "open:a", "OPENING", 2, NoExt)
Bet       == Alice("bet1", "k1", "BET", 2, NoExt)
Refund    == Alice("ref1", "k2", "REFUND", 2, "bet1")
Foreign   == [Alice("bet2", "k3", "BET", 1, NoExt) EXCEPT !.money.currency = "USD"]
Poison    == Alice("ref1", "k2", "BET", 0, NoExt)

QueueOpenings == {OpenAlice}
QueueBody     == [m1 |-> Bet, m2 |-> Refund, m3 |-> Poison]
LiveBody      == [m2 |-> Refund]
LiveHttp      == {Bet, Foreign}
OneGroup      == [m \in Msgs |-> "alice"]
TheirProvider == [c \in Clients |-> "a"]
TheirName     == [e \in Exts |-> "a"]
OwnInternalId == [e \in Exts |-> e]

ASSUME RefundsByQueueAlone == ByQueueAlone
ASSUME RefundsAreOfBets == NoChains
=============================================================================
