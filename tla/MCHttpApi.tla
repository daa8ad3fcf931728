------------------------------ MODULE MCHttpApi ------------------------------
(***************************************************************************)
(* The instance of HttpApi for TLC: what goes wrong in a wager.  Clients   *)
(* of providers a and b report a loss under one key, which the opening of  *)
(* alice's wallet would use too; bob's wallet is opened with nothing.      *)
(* Alice's is asked for under two ids, her currency being written once     *)
(* with a space behind it.  The queue delivers a win, whose refund comes   *)
(* over HTTP, and invalid input.                                           *)
(***************************************************************************)
EXTENDS HttpApi

Wager(ext, key, wallet, player, kind, amount, currency, ref) ==
  [ext |-> ext, key |-> key, wallet |-> wallet, player |-> player, kind |-> kind,
   money |-> MoneyOf(amount, currency), ref |-> ref]

OpenAlice == Wager("open_a", "open:a", "wa", "alice", "OPENING", 2, "BRL", NoExt)
OpenSpace == Wager("open_c", "open:c", "wc", "alice", "OPENING", 0, "BRL", NoExt)
OpenBob   == Wager("open_b", "open:b", "wb", "bob", "OPENING", 0, "BRL", NoExt)

\* The refund is in a foreign currency and its id collides with that of provider b's loss.
\* One bet is in another player's name, one has no amount, and one win is too large.
Win      == Wager("win1", "k1", "wa", "alice", "WIN", 1, "BRL", NoExt)
Refund   == Wager("ref1", "k2", "wa", "alice", "REFUND", 1, "USD", "win1")
Loss     == Wager("loss1", "open:a", "wb", "bob", "LOSS", 0, "BRL", NoExt)
SameLoss == Wager("loss2", "open:a", "wb", "bob", "LOSS", 0, "BRL", NoExt)
Wrong    == Wager("bad1", "k3", "wa", "bob", "BET", 1, "BRL", NoExt)
Invalid  == Wager("bad1", "k3", "wa", "alice", "BET", 0, "BRL", NoExt)
TooLarge == Wager("bad1", "k3", "wa", "alice", "WIN", 3, "BRL", NoExt)

LimitsOpenings == {OpenAlice, OpenSpace, OpenBob}
LimitsHttp == {Refund, Loss, SameLoss, Wrong, Invalid, TooLarge}
LimitsBody == [m1 |-> Win, m2 |-> Invalid]

TheirProviders == [c \in Clients |-> c]
TheirNames     == [e \in Exts |-> IF e = "loss2" THEN "b" ELSE "a"]
\* "tx_a_b_1" is the id of provider a's transaction b_1 and of provider a_b's transaction 1.
CollidingIds   == [e \in Exts |-> IF e \in {"loss2", "ref1"} THEN "tx" ELSE e]
=============================================================================
