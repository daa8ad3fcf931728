------------------------ MODULE OutboxPublisherProofs ------------------------
(***************************************************************************)
(* For any events, workers, batch size and attempt limit: the outbox keeps *)
(* IInv, sends twice only after a failure, gives up only after MaxAttempts *)
(* failures, and implements EventDelivery.                                 *)
(***************************************************************************)
EXTENDS OutboxPublisher, TLAPS

LEMMA BackoffIsInt == ASSUME NEW n \in Nat PROVE Backoff(n) \in Int
BY SMT DEF Backoff

LEMMA RowFields ==
  ASSUME NEW r \in Rows
  PROVE  /\ r # NoRow /\ r.attempts \in 0 .. MaxAttempts /\ r.next \in Int
         /\ r.status \in {"PENDING", "PUBLISHED", "FAILED"}
BY OutboxAssumption DEF Rows

LEMMA FreshRow == Fresh \in Rows /\ Fresh.status = "PENDING" /\ Fresh.attempts = 0
BY OutboxAssumption DEF Fresh, Rows

LEMMA MarkedRow ==
  ASSUME NEW r \in Rows
  PROVE  Marked(r) \in Rows /\ Marked(r).status = "PUBLISHED" /\ Marked(r).attempts = r.attempts
BY DEF Rows, Marked

LEMMA RetriedRow ==
  ASSUME NEW r \in Rows, r.status = "PENDING", r.attempts < MaxAttempts
  PROVE  /\ Retried(r) \in Rows
         /\ Retried(r).attempts = r.attempts + 1
         /\ \/ Retried(r).status = "PENDING" /\ Retried(r).attempts < MaxAttempts
            \/ Retried(r).status = "FAILED" /\ Retried(r).attempts = MaxAttempts
<1>1. Backoff(r.attempts) \in Int
  BY BackoffIsInt, RowFields, OutboxAssumption
<1>2. r.attempts \in Nat /\ r.attempts + 1 \in 0 .. MaxAttempts
  BY RowFields, OutboxAssumption
<1>3. CASE r.attempts + 1 >= MaxAttempts
  <2>1. Retried(r) = [r EXCEPT !.attempts = r.attempts + 1, !.next = Backoff(r.attempts),
                              !.status = "FAILED"]
    BY <1>3 DEF Retried
  <2>2. r.attempts + 1 = MaxAttempts
    BY <1>2, <1>3, OutboxAssumption
  <2>3. QED
    BY <1>1, <1>2, <2>1, <2>2 DEF Rows
<1>4. CASE ~(r.attempts + 1 >= MaxAttempts)
  <2>1. Retried(r) = [r EXCEPT !.attempts = r.attempts + 1, !.next = Backoff(r.attempts),
                              !.status = r.status]
    BY <1>4 DEF Retried
  <2>2. r.attempts + 1 < MaxAttempts
    BY <1>2, <1>4, OutboxAssumption
  <2>3. QED
    BY <1>1, <1>2, <2>1, <2>2 DEF Rows
<1>5. QED
  BY <1>3, <1>4

\* Time changes nothing but next.
LEMMA OlderRow ==
  ASSUME NEW r \in Rows \cup {NoRow}
  PROVE  /\ Older(r) \in Rows \cup {NoRow}
         /\ Older(r) = NoRow <=> r = NoRow
         /\ r # NoRow => Older(r).status = r.status /\ Older(r).attempts = r.attempts
<1>1. CASE r = NoRow
  BY <1>1 DEF Older
<1>2. CASE r \in Rows /\ r.status = "PENDING" /\ r.next > -Overdue
  <2>1. Older(r) = [r EXCEPT !.next = r.next - 1]
    BY <1>2, RowFields DEF Older
  <2>2. r.next - 1 \in Int
    BY <1>2, RowFields
  <2>3. Older(r) \in Rows /\ Older(r).status = r.status /\ Older(r).attempts = r.attempts
    BY <1>2, <2>1, <2>2 DEF Rows
  <2>4. QED
    BY <1>2, <2>3, RowFields
<1>3. CASE r \in Rows /\ ~(r.status = "PENDING" /\ r.next > -Overdue)
  BY <1>3, RowFields DEF Older
<1>4. QED
  BY <1>1, <1>2, <1>3

-----------------------------------------------------------------------------
(* The invariant *)

LEMMA InitHolds == Init => IInv
BY OutboxAssumption DEF Init, IInv, TypeOK, BatchesAreSound, Batch, ReceivedIsAccountedFor,
   AttemptsAreFailures, CountsFailures

LEMMA InsertKeeps == ASSUME IInv, NEW e \in EventIds, Insert(e) PROVE IInv'
<1>1. TypeOK'
  BY FreshRow DEF IInv, TypeOK, Insert
<1>2. BatchesAreSound'
  BY FreshRow DEF IInv, TypeOK, BatchesAreSound, Batch, Insert
<1>3. ReceivedIsAccountedFor'
  BY FreshRow DEF IInv, TypeOK, ReceivedIsAccountedFor, Insert
<1>4. AttemptsAreFailures'
  <2>1. CountsFailures(Fresh, e)'
    BY FreshRow, OutboxAssumption DEF IInv, TypeOK, CountsFailures, Insert
  <2>2. QED
    BY <2>1 DEF IInv, TypeOK, AttemptsAreFailures, CountsFailures, Insert
<1>5. QED
  BY <1>1, <1>2, <1>3, <1>4 DEF IInv

LEMMA FetchKeeps == ASSUME IInv, NEW p \in Publishers, Fetch(p) PROVE IInv'
<1>1. PICK first \in SUBSET Due :
        /\ draft' = [draft EXCEPT ![p] = [e \in EventIds |->
                                            IF e \in first THEN rows[e] ELSE NoRow]]
        /\ todo' = [todo EXCEPT ![p] = first]
  BY DEF Fetch
<1>2. UNCHANGED <<rows, received, excused, refusals>> /\ Batch(p) = {}
  BY DEF Fetch
<1>3. \A e \in first : /\ e \in EventIds /\ rows[e] # NoRow /\ rows[e].status = "PENDING"
                       /\ \A q \in Publishers : e \notin Batch(q)
  BY <1>1 DEF Due, Locked
<1>4. /\ draft'[p] = [e \in EventIds |-> IF e \in first THEN rows[e] ELSE NoRow]
      /\ todo'[p] = first
      /\ \A q \in Publishers \ {p} : draft'[q] = draft[q] /\ todo'[q] = todo[q]
  BY <1>1 DEF IInv, TypeOK
<1>5. TypeOK'
  BY <1>1, <1>2, <1>3 DEF IInv, TypeOK
<1>6. BatchesAreSound'
  <2>1. Batch(p)' = first /\ \A q \in Publishers \ {p} : Batch(q)' = Batch(q)
    BY <1>3, <1>4 DEF Batch
  <2>2. \A e \in first : draft'[p][e] = rows[e]
    BY <1>3, <1>4
  <2>3. QED
    BY <1>2, <1>3, <1>4, <2>1, <2>2 DEF IInv, BatchesAreSound
<1>7. ReceivedIsAccountedFor'
  <2>1. \A q \in Publishers, e \in EventIds : draft[q][e] # NoRow => draft'[q][e] = draft[q][e]
    BY <1>2, <1>4 DEF Batch
  <2>2. QED
    BY <1>2, <2>1 DEF IInv, ReceivedIsAccountedFor
<1>8. AttemptsAreFailures'
  <2>1. \A q \in Publishers, e \in EventIds : draft'[q][e] \in {draft[q][e], rows[e], NoRow}
    BY <1>4
  <2>2. QED
    BY <1>2, <2>1 DEF IInv, AttemptsAreFailures, CountsFailures
<1>9. QED
  BY <1>5, <1>6, <1>7, <1>8 DEF IInv

\* What both outcomes of a send do to the batch.
LEMMA TakesOne ==
  ASSUME IInv, NEW p \in Publishers, NEW e \in EventIds, Takes(p, e)
  PROVE  /\ e \in todo[p] /\ e \in Batch(p) /\ draft[p][e] \in Rows
         /\ draft[p][e].status = "PENDING" /\ draft[p][e].attempts < MaxAttempts
         /\ draft[p][e].attempts <= refusals[e]
         /\ rows[e] # NoRow /\ rows[e].status = "PENDING"
         /\ \A q \in Publishers \ {p} : draft[q][e] = NoRow
         /\ \A q \in Publishers \ {p} : todo'[q] = todo[q]
         /\ todo'[p] = todo[p] \ {e}
         /\ todo' \in [Publishers -> SUBSET EventIds]
<1>1. e \in todo[p] /\ e \in Batch(p) /\ todo' = [todo EXCEPT ![p] = @ \ {e}]
  BY DEF IInv, BatchesAreSound, Takes
<1>2. /\ draft[p][e].status = "PENDING" /\ rows[e] # NoRow /\ rows[e].status = "PENDING"
      /\ draft[p][e] \in Rows
      /\ \A q \in Publishers \ {p} : draft[q][e] = NoRow
  BY <1>1 DEF IInv, TypeOK, BatchesAreSound, Batch
<1>3. draft[p][e].attempts < MaxAttempts /\ draft[p][e].attempts <= refusals[e]
  BY <1>1, <1>2 DEF IInv, AttemptsAreFailures, CountsFailures, Batch
<1>4. /\ \A q \in Publishers \ {p} : todo'[q] = todo[q]
      /\ todo'[p] = todo[p] \ {e}
      /\ todo' \in [Publishers -> SUBSET EventIds]
  BY <1>1 DEF IInv, TypeOK
<1>5. QED
  BY <1>1, <1>2, <1>3, <1>4

LEMMA SendSucceedsKeeps ==
  ASSUME IInv, NEW p \in Publishers, NEW e \in EventIds, SendSucceeds(p, e) PROVE IInv'
<1> DEFINE r == draft[p][e]
<1>1. Takes(p, e) /\ UNCHANGED <<rows, excused, refusals>> /\ Accepted(e)
      /\ draft' = [draft EXCEPT ![p][e] = Marked(@)]
  BY DEF SendSucceeds
<1>2. /\ e \in todo[p] /\ e \in Batch(p) /\ r \in Rows /\ r.status = "PENDING"
      /\ r.attempts < MaxAttempts /\ r.attempts <= refusals[e]
      /\ rows[e] # NoRow /\ rows[e].status = "PENDING"
      /\ \A q \in Publishers \ {p} : draft[q][e] = NoRow
      /\ \A q \in Publishers \ {p} : todo'[q] = todo[q]
      /\ todo'[p] = todo[p] \ {e} /\ todo' \in [Publishers -> SUBSET EventIds]
  BY <1>1, TakesOne
<1>3. /\ Marked(r) \in Rows /\ Marked(r).status = "PUBLISHED"
      /\ Marked(r).attempts = r.attempts /\ Marked(r) # NoRow
  BY <1>2, MarkedRow, RowFields
<1>4. /\ draft'[p][e] = Marked(r)
      /\ \A q \in Publishers, f \in EventIds : <<q, f>> # <<p, e>> => draft'[q][f] = draft[q][f]
      /\ draft' \in [Publishers -> [EventIds -> Rows \cup {NoRow}]]
  BY <1>1, <1>3 DEF IInv, TypeOK
<1>5. /\ received'[e] = IF received[e] = 0 THEN 1 ELSE 2
      /\ \A f \in EventIds \ {e} : received'[f] = received[f]
      /\ received' \in [EventIds -> 0 .. 2]
  BY <1>1 DEF IInv, TypeOK, Accepted
<1>6. TypeOK'
  BY <1>1, <1>2, <1>4, <1>5 DEF IInv, TypeOK
<1>7. BatchesAreSound'
  <2>1. \A q \in Publishers : Batch(q)' = Batch(q)
    BY <1>2, <1>3, <1>4 DEF Batch
  <2>2. \A f \in EventIds : received[f] > 0 => received'[f] > 0
    BY <1>5 DEF IInv, TypeOK
  <2>3. received'[e] > 0
    BY <1>5
  <2>4. \A q \in Publishers : Batch(q) \subseteq EventIds
    BY DEF Batch
  <2>5. QED
    BY <1>1, <1>2, <1>3, <1>4, <2>1, <2>2, <2>3, <2>4 DEF IInv, BatchesAreSound
<1>8. ReceivedIsAccountedFor'
  <2>1. \/ received[e] = 0
        \/ e \in excused
    BY <1>2 DEF IInv, TypeOK, ReceivedIsAccountedFor
  <2>2. QED
    BY <1>1, <1>3, <1>4, <1>5, <2>1 DEF IInv, TypeOK, ReceivedIsAccountedFor
<1>9. AttemptsAreFailures'
  <2>1. CountsFailures(draft'[p][e], e)
    BY <1>2, <1>3, <1>4 DEF CountsFailures
  <2>2. QED
    BY <1>1, <1>4, <2>1 DEF IInv, AttemptsAreFailures, CountsFailures
<1>10. QED
  BY <1>6, <1>7, <1>8, <1>9 DEF IInv

LEMMA SendFailsKeeps ==
  ASSUME IInv, NEW p \in Publishers, NEW e \in EventIds, SendFails(p, e) PROVE IInv'
<1> DEFINE r == draft[p][e]
<1>1. /\ Takes(p, e) /\ UNCHANGED rows
      /\ \/ UNCHANGED <<received, excused>>
         \/ Accepted(e) /\ excused' = excused \cup {e}
      /\ draft' = [draft EXCEPT ![p][e] = Retried(@)]
      /\ refusals' = [refusals EXCEPT ![e] = IF @ < MaxAttempts THEN @ + 1 ELSE @]
  BY DEF SendFails
<1>2. /\ e \in todo[p] /\ e \in Batch(p) /\ r \in Rows /\ r.status = "PENDING"
      /\ r.attempts < MaxAttempts /\ r.attempts <= refusals[e]
      /\ rows[e] # NoRow /\ rows[e].status = "PENDING"
      /\ \A q \in Publishers \ {p} : draft[q][e] = NoRow
      /\ \A q \in Publishers \ {p} : todo'[q] = todo[q]
      /\ todo'[p] = todo[p] \ {e} /\ todo' \in [Publishers -> SUBSET EventIds]
  BY <1>1, TakesOne
<1>3. /\ Retried(r) \in Rows /\ Retried(r).attempts = r.attempts + 1
      /\ \/ Retried(r).status = "PENDING" /\ Retried(r).attempts < MaxAttempts
         \/ Retried(r).status = "FAILED" /\ Retried(r).attempts = MaxAttempts
      /\ Retried(r) # NoRow
  BY <1>2, RetriedRow, RowFields
<1>4. /\ draft'[p][e] = Retried(r)
      /\ \A q \in Publishers, f \in EventIds : <<q, f>> # <<p, e>> => draft'[q][f] = draft[q][f]
      /\ draft' \in [Publishers -> [EventIds -> Rows \cup {NoRow}]]
  BY <1>1, <1>3 DEF IInv, TypeOK
<1>5. /\ \A f \in EventIds \ {e} : received'[f] = received[f] /\ (f \in excused' <=> f \in excused)
      /\ received[e] > 0 => received'[e] > 0
      /\ received'[e] = received[e] \/ e \in excused'
      /\ e \in excused => e \in excused'
      /\ received' \in [EventIds -> 0 .. 2] /\ excused' \subseteq EventIds
  <2>1. CASE UNCHANGED <<received, excused>>
    BY <2>1 DEF IInv, TypeOK
  <2>2. CASE Accepted(e) /\ excused' = excused \cup {e}
    BY <2>2 DEF IInv, TypeOK, Accepted
  <2>3. QED
    BY <1>1, <2>1, <2>2
<1>6. /\ \A f \in EventIds \ {e} : refusals'[f] = refusals[f]
      /\ refusals'[e] = IF refusals[e] < MaxAttempts THEN refusals[e] + 1 ELSE refusals[e]
      /\ refusals[e] \in 0 .. MaxAttempts
      /\ refusals' \in [EventIds -> 0 .. MaxAttempts]
  BY <1>1, OutboxAssumption DEF IInv, TypeOK
<1>7. TypeOK'
  BY <1>1, <1>2, <1>4, <1>5, <1>6 DEF IInv, TypeOK
<1>8. BatchesAreSound'
  <2>1. \A q \in Publishers : Batch(q)' = Batch(q)
    BY <1>2, <1>3, <1>4 DEF Batch
  <2>2. \A f \in EventIds : received[f] > 0 => received'[f] > 0
    BY <1>5
  <2>3. \A q \in Publishers : Batch(q) \subseteq EventIds
    BY DEF Batch
  <2>4. QED
    BY <1>1, <1>2, <1>3, <1>4, <2>1, <2>2, <2>3 DEF IInv, BatchesAreSound
<1>9. ReceivedIsAccountedFor'
  <2>1. received[e] = 0 \/ e \in excused
    BY <1>2 DEF IInv, TypeOK, ReceivedIsAccountedFor
  <2>2. received'[e] = 0 \/ e \in excused'
    BY <2>1, <1>5
  <2>3. QED
    BY <1>1, <1>4, <1>5, <2>2 DEF IInv, TypeOK, ReceivedIsAccountedFor
<1>10. AttemptsAreFailures'
  <2>1. r.attempts \in 0 .. MaxAttempts
    BY <1>2, RowFields
  <2>2. r.attempts + 1 <= refusals'[e] /\ refusals[e] <= refusals'[e]
    BY <1>2, <1>6, <2>1, OutboxAssumption
  <2>3. CountsFailures(draft[p][e], e)'
    BY <1>3, <1>4, <2>2 DEF CountsFailures
  <2>4. CountsFailures(rows[e], e)'
    <3>1. CountsFailures(rows[e], e) /\ rows[e].attempts \in 0 .. MaxAttempts
      BY <1>2, RowFields DEF IInv, TypeOK, AttemptsAreFailures
    <3>2. QED
      BY <1>1, <1>2, <1>6, <2>2, <3>1, OutboxAssumption DEF CountsFailures
  <2>5. \A f \in EventIds, q \in Publishers : <<q, f>> # <<p, e>> => CountsFailures(draft[q][f], f)'
    BY <1>2, <1>4, <1>6 DEF IInv, AttemptsAreFailures, CountsFailures
  <2>6. \A f \in EventIds \ {e} : CountsFailures(rows[f], f)'
    BY <1>1, <1>6 DEF IInv, AttemptsAreFailures, CountsFailures
  <2>7. QED
    BY <2>3, <2>4, <2>5, <2>6 DEF AttemptsAreFailures
<1>11. QED
  BY <1>7, <1>8, <1>9, <1>10 DEF IInv

\* A worker without a batch has locked nothing.
LEMMA Unlocked ==
  ASSUME IInv, NEW p \in Publishers, Unlock(p)
  PROVE  /\ \A e \in EventIds : draft'[p][e] = NoRow
         /\ \A q \in Publishers \ {p} : draft'[q] = draft[q] /\ todo'[q] = todo[q]
         /\ todo'[p] = {} /\ Batch(p)' = {}
         /\ \A q \in Publishers \ {p} : Batch(q)' = Batch(q)
         /\ draft' \in [Publishers -> [EventIds -> Rows \cup {NoRow}]]
         /\ todo' \in [Publishers -> SUBSET EventIds]
<1>1. /\ \A e \in EventIds : draft'[p][e] = NoRow
      /\ \A q \in Publishers \ {p} : draft'[q] = draft[q] /\ todo'[q] = todo[q]
      /\ todo'[p] = {}
      /\ draft' \in [Publishers -> [EventIds -> Rows \cup {NoRow}]]
      /\ todo' \in [Publishers -> SUBSET EventIds]
  BY DEF IInv, TypeOK, Unlock
<1>2. QED
  BY <1>1 DEF Batch

LEMMA CommitKeeps == ASSUME IInv, NEW p \in Publishers, Commit(p) PROVE IInv'
<1>1. /\ todo[p] = {} /\ UNCHANGED <<received, excused, refusals>> /\ Unlock(p)
      /\ rows' = [e \in EventIds |-> IF e \in Batch(p) THEN draft[p][e] ELSE rows[e]]
  BY DEF Commit
<1>2. /\ \A e \in EventIds : draft'[p][e] = NoRow
      /\ \A q \in Publishers \ {p} : draft'[q] = draft[q] /\ todo'[q] = todo[q]
      /\ todo'[p] = {} /\ Batch(p)' = {}
      /\ \A q \in Publishers \ {p} : Batch(q)' = Batch(q)
      /\ draft' \in [Publishers -> [EventIds -> Rows \cup {NoRow}]]
      /\ todo' \in [Publishers -> SUBSET EventIds]
  BY <1>1, Unlocked
<1>3. /\ \A e \in Batch(p) : e \in EventIds /\ rows'[e] = draft[p][e] /\ draft[p][e] # NoRow
      /\ \A e \in EventIds \ Batch(p) : rows'[e] = rows[e]
      /\ \A q \in Publishers \ {p} : Batch(q) \cap Batch(p) = {}
  BY <1>1 DEF IInv, BatchesAreSound, Batch
<1>4. TypeOK'
  BY <1>1, <1>2 DEF IInv, TypeOK
<1>5. BatchesAreSound'
  <2>1. \A q \in Publishers : Batch(q) \subseteq EventIds
    BY DEF Batch
  <2>2. QED
    BY <1>1, <1>2, <1>3, <2>1 DEF IInv, BatchesAreSound
<1>6. ReceivedIsAccountedFor'
  <2>1. \A e \in EventIds : rows[e] # NoRow /\ rows[e].status = "PUBLISHED" => e \notin Batch(p)
    BY DEF IInv, BatchesAreSound
  <2>2. \A e \in EventIds \ Batch(p) : draft[p][e] = NoRow
    BY DEF Batch
  <2>3. QED
    BY <1>1, <1>2, <1>3, <2>1, <2>2 DEF IInv, ReceivedIsAccountedFor
<1>7. AttemptsAreFailures'
  BY <1>1, <1>2, <1>3 DEF IInv, AttemptsAreFailures, CountsFailures
<1>8. QED
  BY <1>4, <1>5, <1>6, <1>7 DEF IInv

LEMMA RollbackKeeps == ASSUME IInv, NEW p \in Publishers, Rollback(p) PROVE IInv'
<1>1. /\ UNCHANGED <<rows, received, refusals>> /\ Unlock(p)
      /\ excused' = excused \cup {e \in Batch(p) : draft[p][e].status = "PUBLISHED"}
  BY DEF Rollback
<1>2. /\ \A e \in EventIds : draft'[p][e] = NoRow
      /\ \A q \in Publishers \ {p} : draft'[q] = draft[q] /\ todo'[q] = todo[q]
      /\ todo'[p] = {} /\ Batch(p)' = {}
      /\ \A q \in Publishers \ {p} : Batch(q)' = Batch(q)
      /\ draft' \in [Publishers -> [EventIds -> Rows \cup {NoRow}]]
      /\ todo' \in [Publishers -> SUBSET EventIds]
  BY <1>1, Unlocked
<1>3. Batch(p) \subseteq EventIds
  BY DEF Batch
<1>4. TypeOK'
  BY <1>1, <1>2, <1>3 DEF IInv, TypeOK
<1>5. BatchesAreSound'
  BY <1>1, <1>2 DEF IInv, BatchesAreSound
<1>6. ReceivedIsAccountedFor'
  <2>1. \A e \in EventIds : draft[p][e] # NoRow => e \in Batch(p)
    BY DEF Batch
  <2>2. QED
    BY <1>1, <1>2, <2>1 DEF IInv, ReceivedIsAccountedFor
<1>7. AttemptsAreFailures'
  BY <1>1, <1>2 DEF IInv, AttemptsAreFailures, CountsFailures
<1>8. QED
  BY <1>4, <1>5, <1>6, <1>7 DEF IInv

LEMMA TickKeeps == ASSUME IInv, Tick PROVE IInv'
<1>1. /\ \A e \in EventIds : rows'[e] = Older(rows[e]) /\ rows[e] \in Rows \cup {NoRow}
      /\ \A p \in Publishers, e \in EventIds :
           draft'[p][e] = Older(draft[p][e]) /\ draft[p][e] \in Rows \cup {NoRow}
      /\ UNCHANGED <<todo, received, excused, refusals>>
  BY DEF IInv, TypeOK, Tick
<1>2. \A e \in EventIds :
        /\ rows'[e] = NoRow <=> rows[e] = NoRow
        /\ rows[e] # NoRow => rows'[e].status = rows[e].status /\ rows'[e].attempts = rows[e].attempts
  BY <1>1, OlderRow
<1>3. \A p \in Publishers, e \in EventIds :
        /\ draft'[p][e] = NoRow <=> draft[p][e] = NoRow
        /\ draft[p][e] # NoRow => /\ draft'[p][e].status = draft[p][e].status
                                 /\ draft'[p][e].attempts = draft[p][e].attempts
  BY <1>1, OlderRow
<1>4. TypeOK'
  <2>1. \A e \in EventIds : Older(rows[e]) \in Rows \cup {NoRow}
    BY <1>1, OlderRow
  <2>2. \A p \in Publishers, e \in EventIds : Older(draft[p][e]) \in Rows \cup {NoRow}
    BY <1>1, OlderRow
  <2>3. rows' \in [EventIds -> Rows \cup {NoRow}]
    BY <2>1 DEF Tick
  <2>4. draft' \in [Publishers -> [EventIds -> Rows \cup {NoRow}]]
    BY <2>2 DEF Tick
  <2>5. QED
    BY <1>1, <2>3, <2>4 DEF IInv, TypeOK
<1>5. BatchesAreSound'
  <2>1. \A p \in Publishers : Batch(p)' = Batch(p) /\ Batch(p) \subseteq EventIds
    BY <1>3 DEF Batch
  <2>2. \A p \in Publishers : \A e \in Batch(p) : draft[p][e] # NoRow
    BY DEF Batch
  <2>3. QED
    BY <1>1, <1>2, <1>3, <2>1, <2>2 DEF IInv, BatchesAreSound
<1>6. ReceivedIsAccountedFor'
  BY <1>1, <1>2, <1>3 DEF IInv, ReceivedIsAccountedFor
<1>7. AttemptsAreFailures'
  BY <1>1, <1>2, <1>3 DEF IInv, AttemptsAreFailures, CountsFailures
<1>8. QED
  BY <1>4, <1>5, <1>6, <1>7 DEF IInv

LEMMA NextKeeps == ASSUME IInv, [Next]_vars PROVE IInv'
<1>1. CASE UNCHANGED vars
  BY <1>1 DEF vars, IInv, TypeOK, BatchesAreSound, Batch, ReceivedIsAccountedFor,
     AttemptsAreFailures, CountsFailures
<1>2. CASE Next
  BY <1>2, InsertKeeps, FetchKeeps, SendSucceedsKeeps, SendFailsKeeps, CommitKeeps,
     RollbackKeeps, TickKeeps DEF Next, Send
<1>3. QED
  BY <1>1, <1>2

\* The inductive invariant: row locks are exclusive, what a worker will commit as
\* published was accepted, every reception has its reason, attempts count failures.
THEOREM OutboxInvariant == Spec => []IInv
<1>1. Init => IInv
  BY InitHolds
<1>2. IInv /\ [Next]_vars => IInv'
  BY NextKeeps
<1>3. QED
  BY <1>1, <1>2, PTL DEF Spec

\* Two workers never send one event; only a rollback or a lost answer makes a second
\* send (outbox_worker.go, SKIP LOCKED).
THEOREM DuplicatesAreExcused == Spec => []DuplicatesHaveCause
<1>1. IInv => DuplicatesHaveCause
  BY DEF IInv, ReceivedIsAccountedFor, DuplicatesHaveCause
<1>2. QED
  BY <1>1, OutboxInvariant, PTL

\* UpdateOutboxRetry gives an event up only after MaxAttempts failures.
THEOREM GivingUpIsLate == Spec => []GivenUpAfterMaxAttempts
<1>1. IInv => GivenUpAfterMaxAttempts
  <2>1. SUFFICES ASSUME IInv, NEW e \in EventIds, rows[e] # NoRow, rows[e].status = "FAILED"
                 PROVE  refusals[e] = MaxAttempts
    BY DEF GivenUpAfterMaxAttempts
  <2>2. rows[e].attempts <= refusals[e] /\ rows[e].attempts = MaxAttempts
    BY <2>1 DEF IInv, AttemptsAreFailures, CountsFailures
  <2>3. refusals[e] \in 0 .. MaxAttempts
    BY <2>1 DEF IInv, TypeOK
  <2>4. QED
    BY <2>2, <2>3, OutboxAssumption
<1>2. QED
  BY <1>1, OutboxInvariant, PTL

-----------------------------------------------------------------------------
(* The refinement *)

-----------------------------------------------------------------------------
(* The refinement *)

\* The committed status of every event, the variable status of EventDelivery.
StatusNow == [e \in EventIds |-> IF rows[e] = NoRow THEN "ABSENT" ELSE rows[e].status]
Public    == <<StatusNow, received>>

LEMMA SendRefines ==
  ASSUME IInv, NEW p \in Publishers, Send(p)
  PROVE  [Delivery!Next]_Public
<1>1. PICK e \in EventIds : SendSucceeds(p, e) \/ SendFails(p, e)
  BY DEF Send
<1>2. /\ Takes(p, e) /\ UNCHANGED rows
      /\ Accepted(e) \/ UNCHANGED received
  BY <1>1 DEF SendSucceeds, SendFails
<1>3. UNCHANGED StatusNow /\ StatusNow[e] = "PENDING"
  BY <1>2, TakesOne DEF StatusNow
<1>4. CASE Accepted(e)
  <2>1. Delivery!Deliver(e)
    BY <1>3, <1>4 DEF Delivery!Deliver, Delivery!Once, Accepted, StatusNow
  <2>2. QED
    BY <2>1 DEF Delivery!Next
<1>5. CASE UNCHANGED received
  BY <1>3, <1>5 DEF Public
<1>6. QED
  BY <1>2, <1>4, <1>5

LEMMA CommitRefines ==
  ASSUME IInv, NEW p \in Publishers, Commit(p)
  PROVE  Delivery!Conclude
<1>1. /\ rows' = [e \in EventIds |-> IF e \in Batch(p) THEN draft[p][e] ELSE rows[e]]
      /\ UNCHANGED received
  BY DEF Commit
<1>2. \A e \in EventIds :
        \/ StatusNow'[e] = StatusNow[e]
        \/ /\ StatusNow[e] = "PENDING"
           /\ StatusNow'[e] = "FAILED" \/ (StatusNow'[e] = "PUBLISHED" /\ received[e] > 0)
  <2>1. TAKE e \in EventIds
  <2>2. CASE e \in Batch(p)
    <3>1. /\ rows[e] # NoRow /\ rows[e].status = "PENDING"
          /\ draft[p][e].status = "PUBLISHED" => received[e] > 0
          /\ draft[p][e] \in Rows
      BY <2>2 DEF IInv, TypeOK, BatchesAreSound, Batch
    <3>2. StatusNow[e] = "PENDING" /\ StatusNow'[e] = draft[p][e].status
      BY <1>1, <2>2, <3>1, RowFields DEF StatusNow
    <3>3. QED
      BY <3>1, <3>2, RowFields
  <2>3. CASE e \notin Batch(p)
    BY <1>1, <2>3 DEF StatusNow
  <2>4. QED
    BY <2>2, <2>3
<1>3. StatusNow' = [e \in EventIds |-> StatusNow'[e]]
  BY DEF StatusNow
<1>4. QED
  BY <1>1, <1>2, <1>3 DEF Delivery!Conclude, StatusNow

LEMMA InsertRefines ==
  ASSUME IInv, NEW e \in EventIds, Insert(e)
  PROVE  Delivery!Announce(e)
<1>1. rows[e] = NoRow /\ rows' = [rows EXCEPT ![e] = Fresh] /\ UNCHANGED received
  BY DEF Insert
<1>2. rows'[e] = Fresh /\ \A f \in EventIds \ {e} : rows'[f] = rows[f]
  BY <1>1 DEF IInv, TypeOK
<1>3. StatusNow' = [StatusNow EXCEPT ![e] = "PENDING"]
  BY <1>2, FreshRow, RowFields DEF StatusNow
<1>4. StatusNow[e] = "ABSENT"
  BY <1>1 DEF StatusNow
<1>5. QED
  BY <1>1, <1>3, <1>4 DEF Delivery!Announce, StatusNow

LEMMA TickStutters == ASSUME IInv, Tick PROVE UNCHANGED Public
<1>1. \A e \in EventIds : rows'[e] = Older(rows[e]) /\ rows[e] \in Rows \cup {NoRow}
  BY DEF IInv, TypeOK, Tick
<1>2. \A e \in EventIds : /\ rows'[e] = NoRow <=> rows[e] = NoRow
                          /\ rows[e] # NoRow => rows'[e].status = rows[e].status
  BY <1>1, OlderRow
<1>3. UNCHANGED StatusNow
  BY <1>2 DEF StatusNow
<1>4. QED
  BY <1>3 DEF Tick, Public

\* The outbox implements EventDelivery: whatever its workers, batches, failures and
\* retries do, an event is published only after a delivery, decided once, and not sent
\* once decided.
THEOREM OutboxImplementsDelivery == Spec => ImplementsEventDelivery
<1>1. Init => Delivery!Init
  BY DEF Init, Delivery!Init
<1>2. IInv /\ [Next]_vars => [Delivery!Next]_Public
  <2>1. SUFFICES ASSUME IInv, [Next]_vars PROVE [Delivery!Next]_Public
    OBVIOUS
  <2>2. CASE UNCHANGED vars
    BY <2>2 DEF vars, Public, StatusNow
  <2>3. CASE Tick
    BY <2>1, <2>3, TickStutters
  <2>4. ASSUME NEW e \in EventIds, Insert(e) PROVE Delivery!Next
    BY <2>1, <2>4, InsertRefines DEF Delivery!Next
  <2>5. ASSUME NEW p \in Publishers, Fetch(p) \/ Rollback(p) PROVE UNCHANGED Public
    BY <2>5 DEF Fetch, Rollback, Public, StatusNow
  <2>6. ASSUME NEW p \in Publishers, Commit(p) PROVE Delivery!Next
    BY <2>1, <2>6, CommitRefines DEF Delivery!Next
  <2>7. ASSUME NEW p \in Publishers, Send(p) PROVE [Delivery!Next]_Public
    BY <2>1, <2>7, SendRefines
  <2>8. QED
    BY <2>1, <2>2, <2>3, <2>4, <2>5, <2>6, <2>7 DEF Next
<1>3. QED
  BY <1>1, <1>2, OutboxInvariant, PTL DEF Spec, ImplementsEventDelivery, Delivery!Spec, Public, StatusNow
=============================================================================
