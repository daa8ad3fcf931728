--------------------------- MODULE OutboxPublisher ---------------------------
(***************************************************************************)
(* The outbox workers of all instances of the program: each second a       *)
(* worker opens a transaction, locks a batch of due PENDING events, sends  *)
(* them one by one to the events queue, writes the outcome of each and     *)
(* commits.  Any failure of the database rolls the whole batch back,       *)
(* although its messages are gone.                                         *)
(***************************************************************************)
EXTENDS Integers, FiniteSets

CONSTANTS
  EventIds, Publishers,
  Limit,         \* events per batch: 10 in the code
  MaxAttempts,   \* OutboxMaxAttempts
  Overdue,       \* bound: how late an event is, at most, told apart
  NoRow

VARIABLES
  rows,      \* the committed table outbox_events
  draft,     \* Publishers -> the rows as its open transaction has locked and left them
  todo,      \* Publishers -> the events of its batch it has not sent yet
  received,  \* EventIds -> how often the queue has accepted it: 0, 1, 2 (more than once)
  excused,   \* history: events sent in vain, as far as the database knows
  refusals   \* history: failed sends of an event, up to MaxAttempts

vars == <<rows, draft, todo, received, excused, refusals>>

Backoff(attempts) == 2 ^ (IF attempts < 6 THEN attempts ELSE 6)

\* next is the time until next_send_at, negative when it has passed.
Rows == [status   : {"PENDING", "PUBLISHED", "FAILED"},
         attempts : 0 .. MaxAttempts,
         next     : Int]

ASSUME OutboxAssumption ==
  /\ Limit \in Nat \ {0} /\ MaxAttempts \in Nat \ {0} /\ Overdue \in Nat
  /\ IsFiniteSet(EventIds) /\ NoRow \notin Rows

Fresh == [status |-> "PENDING", attempts |-> 0, next |-> 0]

Init == /\ rows = [e \in EventIds |-> NoRow]
        /\ draft = [p \in Publishers |-> [e \in EventIds |-> NoRow]]
        /\ todo = [p \in Publishers |-> {}]
        /\ received = [e \in EventIds |-> 0]
        /\ excused = {}
        /\ refusals = [e \in EventIds |-> 0]

Batch(p)  == {e \in EventIds : draft[p][e] # NoRow}
Locked(e) == \E p \in Publishers : e \in Batch(p)

\* Mutant: the SELECT has lost its FOR UPDATE SKIP LOCKED.
DueUnlocked == {e \in EventIds :
                  rows[e] # NoRow /\ rows[e].status = "PENDING" /\ rows[e].next <= 0}
Due == {e \in EventIds : /\ rows[e] # NoRow /\ rows[e].status = "PENDING"
                         /\ rows[e].next <= 0 /\ ~Locked(e)}

-----------------------------------------------------------------------------

\* A use case commits an event.
Insert(e) == /\ rows[e] = NoRow
             /\ rows' = [rows EXCEPT ![e] = Fresh]
             /\ UNCHANGED <<draft, todo, received, excused, refusals>>

\* FindPendingOutboxEvents: the Limit due events longest overdue that nobody has locked.
Fetch(p) ==
  /\ Batch(p) = {}
  /\ \E first \in SUBSET Due :
       /\ first # {}
       /\ Cardinality(first) <= Limit
       /\ first # Due => Cardinality(first) = Limit
       /\ \A e \in first, f \in Due \ first : rows[e].next <= rows[f].next
       /\ draft' = [draft EXCEPT ![p] = [e \in EventIds |->
                                           IF e \in first THEN rows[e] ELSE NoRow]]
       /\ todo' = [todo EXCEPT ![p] = first]
  /\ UNCHANGED <<rows, received, excused, refusals>>

\* Mutants: what could not be sent is marked; the attempts are not counted; the last attempt is not made.
MarkedUnsent(r)     == [r EXCEPT !.status = "PUBLISHED"]
RetriedUncounted(r) == [r EXCEPT !.next = Backoff(r.attempts)]
RetriedEarly(r)     ==
  [r EXCEPT !.attempts = @ + 1, !.next = Backoff(r.attempts),
            !.status = IF r.attempts + 2 >= MaxAttempts THEN "FAILED" ELSE @]

\* MarkOutboxAsPublished.
Marked(r) == [r EXCEPT !.status = "PUBLISHED"]

\* UpdateOutboxRetry.
Retried(r) ==
  [r EXCEPT !.attempts = @ + 1, !.next = Backoff(r.attempts),
            !.status = IF r.attempts + 1 >= MaxAttempts THEN "FAILED" ELSE @]

\* e is the next event of p's batch.
Takes(p, e) == /\ e \in todo[p]
               /\ \A f \in todo[p] : draft[p][e].next <= draft[p][f].next
               /\ todo' = [todo EXCEPT ![p] = @ \ {e}]

Accepted(e) == received' = [received EXCEPT ![e] = IF @ = 0 THEN 1 ELSE 2]

SendSucceeds(p, e) ==
  /\ Takes(p, e)
  /\ Accepted(e)
  /\ draft' = [draft EXCEPT ![p][e] = Marked(@)]
  /\ UNCHANGED <<rows, excused, refusals>>

\* The queue refuses the message, or accepts it and the answer is lost.
SendFails(p, e) ==
  /\ Takes(p, e)
  /\ \/ UNCHANGED <<received, excused>>
     \/ Accepted(e) /\ excused' = excused \cup {e}
  /\ draft' = [draft EXCEPT ![p][e] = Retried(@)]
  /\ refusals' = [refusals EXCEPT ![e] = IF @ < MaxAttempts THEN @ + 1 ELSE @]
  /\ UNCHANGED rows

Unlock(p) == /\ draft' = [draft EXCEPT ![p] = [e \in EventIds |-> NoRow]]
             /\ todo' = [todo EXCEPT ![p] = {}]

Commit(p) ==
  /\ Batch(p) # {} /\ todo[p] = {}
  /\ rows' = [e \in EventIds |-> IF e \in Batch(p) THEN draft[p][e] ELSE rows[e]]
  /\ Unlock(p)
  /\ UNCHANGED <<received, excused, refusals>>

\* A statement or the commit fails, or the process dies: nothing was marked.
Rollback(p) ==
  /\ Batch(p) # {}
  /\ excused' = excused \cup {e \in Batch(p) : draft[p][e].status = "PUBLISHED"}
  /\ Unlock(p)
  /\ UNCHANGED <<rows, received, refusals>>

\* A second passes.  The time of a decided event is not told apart any more.
Older(r) == IF r # NoRow /\ r.status = "PENDING" /\ r.next > -Overdue
            THEN [r EXCEPT !.next = @ - 1] ELSE r

Tick == /\ rows' = [e \in EventIds |-> Older(rows[e])]
        /\ draft' = [p \in Publishers |-> [e \in EventIds |-> Older(draft[p][e])]]
        /\ UNCHANGED <<todo, received, excused, refusals>>

Send(p) == \E e \in EventIds : SendSucceeds(p, e) \/ SendFails(p, e)

Next == \/ Tick
        \/ \E e \in EventIds : Insert(e)
        \/ \E p \in Publishers : Fetch(p) \/ Send(p) \/ Commit(p) \/ Rollback(p)

Spec == Init /\ [][Next]_vars

\* The ticker fires, a call of the queue ends one way or the other, and after some time
\* the database serves every statement; the queue may go on refusing.
FairSpec == /\ Spec /\ WF_vars(Tick)
            /\ \A p \in Publishers : WF_vars(Fetch(p)) /\ WF_vars(Send(p)) /\ WF_vars(Commit(p))
            /\ <>[][\A p \in Publishers : ~Rollback(p)]_vars

-----------------------------------------------------------------------------
(* Properties *)

\* Every row, committed or not, is within its columns.
TypeOK ==
  /\ rows \in [EventIds -> Rows \cup {NoRow}]
  /\ draft \in [Publishers -> [EventIds -> Rows \cup {NoRow}]]
  /\ todo \in [Publishers -> SUBSET EventIds]
  /\ received \in [EventIds -> 0 .. 2]
  /\ excused \subseteq EventIds
  /\ refusals \in [EventIds -> 0 .. MaxAttempts]

\* SKIP LOCKED: an event is in the hands of one worker, and while it is, its committed
\* row is pending; what a worker will commit as published has been accepted.
BatchesAreSound ==
  \A p \in Publishers :
    /\ todo[p] \subseteq Batch(p)
    /\ \A e \in Batch(p) :
         /\ \A q \in Publishers \ {p} : e \notin Batch(q)
         /\ rows[e] # NoRow /\ rows[e].status = "PENDING"
         /\ e \in todo[p] => draft[p][e].status = "PENDING"
         /\ draft[p][e].status = "PUBLISHED" => received[e] > 0

\* What became of an event that was received: a failure, or its one publication.
ReceivedIsAccountedFor ==
  \A e \in EventIds : received[e] > 0 =>
    \/ e \in excused
    \/ /\ received[e] = 1
       /\ \/ rows[e] # NoRow /\ rows[e].status = "PUBLISHED"
          \/ \E p \in Publishers : draft[p][e] # NoRow /\ draft[p][e].status = "PUBLISHED"

\* The column attempts never exceeds the failed sends, although rollbacks undo it.
CountsFailures(r, e) ==
  r # NoRow => /\ r.attempts <= refusals[e]
               /\ r.status = "PENDING" => r.attempts < MaxAttempts
               /\ r.status = "FAILED" => r.attempts = MaxAttempts
AttemptsAreFailures ==
  \A e \in EventIds : /\ CountsFailures(rows[e], e)
                      /\ \A p \in Publishers : CountsFailures(draft[p][e], e)

\* The inductive invariant under the next two properties and the refinement.
IInv == TypeOK /\ BatchesAreSound /\ ReceivedIsAccountedFor /\ AttemptsAreFailures

\* The outbox sends an event twice only after a failure: a batch rolled back after the
\* send, or an answer of the queue that was lost.  Two workers never do.
DuplicatesHaveCause == \A e \in EventIds : received[e] = 2 => e \in excused

\* An event is given up only after MaxAttempts sends of it failed.
GivenUpAfterMaxAttempts ==
  \A e \in EventIds : rows[e] # NoRow /\ rows[e].status = "FAILED" =>
                        refusals[e] = MaxAttempts

\* The workers keep the promise of EventDelivery: nothing is published unsent, nothing
\* decided is sent again or decided otherwise.
Delivery == INSTANCE EventDelivery WITH
  EventIds <- EventIds,
  received <- received,
  status   <- [e \in EventIds |-> IF rows[e] = NoRow THEN "ABSENT" ELSE rows[e].status]
ImplementsEventDelivery == Delivery!Spec

\* Every event stored is published or given up in the end, even if
\* the queue refuses it each time: a refused event steps back and lets others pass.
EveryEventIsDecided ==
  \A e \in EventIds :
    rows[e] # NoRow ~> rows[e] # NoRow /\ rows[e].status \in {"PUBLISHED", "FAILED"}
=============================================================================
