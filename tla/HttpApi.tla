------------------------------- MODULE HttpApi -------------------------------
(***************************************************************************)
(* POST /wagering/transactions in front of the wager use case.  The token  *)
(* of a request names an OIDC client, the client stands for a provider,    *)
(* and a request in another provider's name goes no further.  The outcome  *)
(* of the use case becomes a status code, and on that code alone providers *)
(* decide whether to send the request again.                               *)
(*                                                                         *)
(* A request refused with 401 or 403, or with 400 for the form of its      *)
(* amount or an unsupported currency, reaches no table and is no step.     *)
(***************************************************************************)
EXTENDS WagerLedger

CONSTANTS
  Clients,     \* azp or client_id claims of tokens
  Providers,
  Identity,    \* Clients -> Providers: the claim without "-service"
  ProviderOf,  \* Exts -> Providers: body.ProviderID
  NoClient

ASSUME ApiAssumption ==
  /\ Identity \in [Clients -> Providers] /\ ProviderOf \in [Exts -> Providers]
  /\ NoClient \notin Clients

VARIABLES
  client,    \* Procs -> whose request the call serves
  accepted,  \* requests answered 200 so far
  refused    \* requests answered 409 so far

apiVars == <<client, accepted, refused>>
apiAll == <<vars, apiVars>>

ApiInit == /\ Init
           /\ client = [p \in Procs |-> NoClient]
           /\ accepted = {} /\ refused = {}

-----------------------------------------------------------------------------

\* Mutant: the provider in the body is taken as it is.
AuthorizedAny(c, r) == TRUE
Authorized(c, r)    == Identity[c] = ProviderOf[r.ext]

Post(p, c, r) == /\ Authorized(c, r)
                 /\ BeginWager(p, r, NoMsg) \/ RefuseInput(p, r, NoMsg)
                 /\ client' = [client EXCEPT ![p] = c]
                 /\ UNCHANGED <<accepted, refused>>

\* Mutants: a replay is an error; every error is the client's fault.
StatusOfReplays(s) == IF s.reply.code = "ok" /\ ~s.reply.replay THEN 200 ELSE 500
StatusOfClients(s) == IF s.reply.code = "ok" THEN 200 ELSE 409

\* Only ErrTransactionConflict has a code of its own: ErrWalletCurrencyMismatch, an
\* overflow, a missing wallet, another player's and invalid input are all a 500.
Status(s) == CASE s.reply.code = "ok"       -> 200
               [] s.reply.code = "CONFLICT" -> 409
               [] OTHER                     -> 500

Respond(p) ==
  LET s == session[p] IN
  /\ client[p] # NoClient
  /\ Return(p)
  /\ client' = [client EXCEPT ![p] = NoClient]
  /\ accepted' = accepted \cup {r \in {s.req} : Status(s) = 200}
  /\ refused' = refused \cup {r \in {s.req} : Status(s) = 409}

\* Calls that serve no provider: new wallets and the pending-reference worker; and the
\* queue, which delivers any message at any time.
BeginOther(p) == /\ \/ \E t \in TxIds : BeginResolve(p, t)
                    \/ \E o \in Openings : BeginOpen(p, o)
                 /\ UNCHANGED apiVars
Deliver(p)    == /\ \E m \in Msgs : BeginWager(p, Body[m], m) \/ RefuseInput(p, Body[m], m)
                 /\ UNCHANGED apiVars

Work(p) == \/ /\ session[p].pc # "replied" \/ client[p] = NoClient
              /\ Step(p)
              /\ UNCHANGED apiVars
           \/ Respond(p)

ApiNext == \E p \in Procs : \/ \E c \in Clients, r \in HttpRequests : Post(p, c, r)
                            \/ BeginOther(p) \/ Deliver(p) \/ Work(p)
                            \/ Fault(p) /\ UNCHANGED apiVars

ApiSpec == ApiInit /\ [][ApiNext]_apiAll

Answered(r) == r \in accepted \cup refused

-----------------------------------------------------------------------------
(* Properties *)

\* A final answer stays true: what was answered 200 is stored for good, and what was
\* answered 409 never is, whoever sends it again, by HTTP or through the queue.
AnswersLast ==
  /\ \A r \in accepted : \E t \in Stored : PayloadHash(txs[t].req) = PayloadHash(r)
  /\ \A r \in refused, t \in Stored : txs[t].req # r

\* A client writes only in its provider's name, and is answered only with its provider's
\* transactions, although an idempotency key of another's would find that one's.
ProvidersAreIsolated ==
  \A p \in Procs : LET s == session[p] IN
    client[p] # NoClient =>
      \A row \in {s.row, s.found, s.reply.row} \ {NoRow} :
        s.pc \in {"commit", "replied"} => ProviderOf[row.req.ext] = Identity[client[p]]

\* The wallet r names is open, its player's, and keeps r's currency.
Playable(r) == /\ wallets[r.wallet] # NoWallet /\ Owns(wallets[r.wallet], r)
               /\ wallets[r.wallet].balance.currency = r.money.currency

\* Sending a bet again until the answer is not 500 comes to an end, whether the earlier
\* attempts died before or after their commit or raced each other.  One in another of the
\* supported currencies is answered 500 for ever, and so is one whose internal id another
\* pair of provider and external id has taken.
RetriesEnd ==
  \A r \in {x \in HttpRequests : x.kind = "BET" /\ Valid(x)} :
    (\A u \in Requested : TxId(u) = TxId(r) => u.ext = r.ext) =>
      (Playable(r) ~> Answered(r))
=============================================================================
