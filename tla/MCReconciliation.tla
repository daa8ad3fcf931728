-------------------------- MODULE MCReconciliation --------------------------
(***************************************************************************)
(* An instance of Reconciliation for TLC: bets paid and refused, a win, a  *)
(* loss, refunds before and after their bets, messages sent twice.         *)
(***************************************************************************)
EXTENDS Reconciliation

Alice(ext, kind, amount, ref) ==
  [ext |-> ext, key |-> ext, wallet |-> "wa", player |-> "alice", kind |-> kind,
   money |-> MoneyOf(amount, "BRL"), ref |-> ref]
Bob(ext, kind, amount) ==
  [ext |-> ext, key |-> ext, wallet |-> "wb", player |-> "bob", kind |-> kind,
   money |-> MoneyOf(amount, "BRL"), ref |-> NoExt]

BothOpen   == {Alice("open_a", "OPENING", 2, NoExt), Bob("open_b", "OPENING", 0)}
BothHttp   == {Alice("bet1", "BET", 2, NoExt), Alice("bet2", "BET", 4, NoExt),
               Alice("win1", "WIN", 2, NoExt), Bob("loss1", "LOSS", 0),
               Alice("ref1", "REFUND", 2, "bet1"), Alice("ref2", "REFUND", 1, "bet2")}
BothBody   == [m1 |-> Alice("bet1", "BET", 2, NoExt), m2 |-> Alice("bet1", "BET", 2, NoExt)]
OwnInternalId == [e \in Exts |-> e]
=============================================================================
