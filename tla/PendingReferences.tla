-------------------------- MODULE PendingReferences --------------------------
(***************************************************************************)
(* The pending-reference workers on top of AtomicLedger.  Every Period     *)
(* seconds a worker selects, without a lock, the Limit oldest pending      *)
(* refunds whose retry time has come and resolves them one by one; each    *)
(* resolution is one transaction, a step of AtomicLedger.                  *)
(*                                                                         *)
(* created_at is taken to order the rows as their commits do, and a batch  *)
(* to be done within the second it starts in.                              *)
(***************************************************************************)
EXTENDS AtomicLedger

CONSTANTS
  Workers,
  Limit,        \* rows per batch: 20 in the code
  Period,       \* seconds between batches: 2 in the code
  RetryDelay,   \* seconds until a row without reference is tried again: 5 in the code
  MaxFaults     \* bound: resolutions that fail for reasons of their own

ASSUME PendingAssumption ==
  /\ Limit \in Nat \ {0} /\ Period \in Nat \ {0} /\ RetryDelay \in Nat /\ MaxFaults \in Nat

VARIABLES
  created,   \* the ids of the rows stored as pending, oldest first
  retry,     \* TxIds -> seconds until next_retry_at; 0 when it is past or NULL
  batch,     \* Workers -> the ids selected and not yet resolved
  wait,      \* Workers -> seconds until the ticker fires
  faults

pendingVars == <<atoms, created, retry, batch, wait, faults>>

PendingInit == /\ Init
               /\ created = << >>
               /\ retry = [t \in TxIds |-> 0]
               /\ batch = [w \in Workers |-> << >>]
               /\ wait = [w \in Workers |-> Period]
               /\ faults = 0

IsPending(t) == txs[t] # NoRow /\ txs[t].status = "PENDING_REFERENCE"
Missing(t)   == ~Settled(txs[t].req.ref, Statuses)
Paid(t)      == Settled(txs[t].req.ref, {"PROCESSED"})
Payable(t)   == Moves(txs[t].req, wallets[txs[t].req.wallet]).err = "none"

\* A wallet is opened, or a wager decided over HTTP; a refund stored as pending is due
\* for the worker after RetryDelay.
Store ==
  /\ UNCHANGED <<batch, wait, faults>>
  /\ \/ /\ \E o \in Openings : Open(o)
        /\ UNCHANGED <<created, retry>>
     \/ \E r \in HttpRequests :
          /\ Decide(r, {})
          /\ IF txs'[TxId(r)].status = "PENDING_REFERENCE"
             THEN /\ created' = Append(created, TxId(r))
                  /\ retry' = [retry EXCEPT ![TxId(r)] = RetryDelay]
             ELSE UNCHANGED <<created, retry>>

IsDue(t) == IsPending(t) /\ retry[t] = 0

\* FindPendingReferences.
Due ==
  LET due[n \in 0 .. Len(created)] ==
        IF n = 0 THEN << >>
        ELSE IF IsDue(created[n]) THEN Append(due[n-1], created[n]) ELSE due[n-1]
  IN  due[Len(created)]

\* Mutant: the query has no LIMIT.
Unlimited(due) == due
Oldest(due)    == SubSeq(due, 1, IF Len(due) < Limit THEN Len(due) ELSE Limit)

FetchBatch(w) ==
  /\ wait[w] = 0 /\ batch[w] = << >>
  /\ batch' = [batch EXCEPT ![w] = Oldest(Due)]
  /\ wait' = [wait EXCEPT ![w] = Period]
  /\ UNCHANGED <<atoms, created, retry, faults>>

Deferred(t)    == retry' = [retry EXCEPT ![t] = RetryDelay]

Took(w, t) == /\ batch[w] # << >> /\ t = Head(batch[w])
              /\ batch' = [batch EXCEPT ![w] = Tail(@)]
              /\ UNCHANGED <<created, wait>>

\* ResolvePendingReference.  A row settled meanwhile is skipped; one whose credit the
\* wallet refuses (its currency was never compared) stays as it is.
Resolve(w, t) ==
  /\ Took(w, t)
  /\ UNCHANGED faults
  /\ \/ /\ ~IsPending(t) \/ (Paid(t) /\ ~Payable(t))
        /\ UNCHANGED <<atoms, retry>>
     \/ /\ IsPending(t) /\ Missing(t)
        /\ Deferred(t)
        /\ UNCHANGED atoms
     \/ /\ IsPending(t) /\ Settle(t)
        /\ Paid(t) <=> txs'[t].status = "PROCESSED"
        /\ UNCHANGED retry

\* The transaction fails and rolls back; the worker logs and goes on.
Fail(w, t) == /\ faults < MaxFaults
              /\ faults' = faults + 1
              /\ Took(w, t)
              /\ UNCHANGED <<atoms, retry>>

\* A second passes, when no worker has anything to do at this moment.
Tick == /\ \A w \in Workers : batch[w] = << >> /\ wait[w] > 0
        /\ wait' = [w \in Workers |-> wait[w] - 1]
        /\ retry' = [t \in TxIds |-> IF retry[t] = 0 THEN 0 ELSE retry[t] - 1]
        /\ UNCHANGED <<atoms, created, batch, faults>>

Work(w) == FetchBatch(w) \/ \E t \in TxIds : Resolve(w, t)

PendingNext == \/ Store \/ Tick
               \/ \E w \in Workers : Work(w) \/ \E t \in TxIds : Fail(w, t)

\* Tickers fire and workers work; no wager need ever arrive.
FairSpec == /\ PendingInit /\ [][PendingNext]_pendingVars
            /\ WF_pendingVars(Tick) /\ \A w \in Workers : WF_pendingVars(Work(w))

-----------------------------------------------------------------------------
(* Properties *)

\* A batch holds at most Limit rows, each once stored as pending.
PendingTypeOK ==
  /\ created \in Seq(TxIds)
  /\ retry \in [TxIds -> 0 .. RetryDelay]
  /\ wait \in [Workers -> 0 .. Period]
  /\ faults \in 0 .. MaxFaults
  /\ batch \in [Workers -> Seq(TxIds)]
  /\ \A w \in Workers :
       /\ Len(batch[w]) <= Limit
       /\ \A i \in DOMAIN batch[w] : \E j \in DOMAIN created : created[j] = batch[w][i]

\* A refund its wallet refuses is due in every batch; Limit older ones leave t no place.
Stuck(t)    == IsPending(t) /\ Paid(t) /\ ~Payable(t)
Starving(t) == \E j \in DOMAIN created :
                 /\ created[j] = t
                 /\ Cardinality({i \in 1 .. j - 1 : Stuck(created[i])}) >= Limit

\* The ids of the requests that may be stored as pending.
MayWait == {TxId(r) : r \in {x \in HttpRequests : x.kind \in {"REFUND", "ROLLBACK"}}}


=============================================================================
