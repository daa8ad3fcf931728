------------------------- MODULE MCPendingReferences -------------------------
(***************************************************************************)
(* The instance of PendingReferences for TLC.                                *)
(***************************************************************************)
EXTENDS PendingReferences

Alice(ext, kind, amount, currency, ref) ==
  [ext |-> ext, key |-> ext, wallet |-> "wa", player |-> "alice", kind |-> kind,
   money |-> MoneyOf(amount, currency), ref |-> ref]

OpenAlice == {Alice("open_a", "OPENING", 2, "BRL", NoExt)}

\* A bet and its refund, two refunds of the bet in a currency the wallet does not have,
\* which together fill a batch, and a refund whose reference never comes.
MixedHttp == {Alice("bet1", "BET", 2, "BRL", NoExt),
              Alice("good", "REFUND", 2, "BRL", "bet1"),
              Alice("foreign", "REFUND", 2, "USD", "bet1"),
              Alice("alien", "REFUND", 1, "USD", "bet1"),
              Alice("orphan", "REFUND", 1, "BRL", "lost")}

OwnInternalId == [e \in Exts |-> e]
NoBody        == << >>
=============================================================================
