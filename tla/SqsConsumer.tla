----------------------------- MODULE SqsConsumer -----------------------------
(***************************************************************************)
(* The SQS workers in front of the wager use case.  The queue is FIFO with *)
(* a redrive policy: it hands out the first message of a group, hides it   *)
(* for a time that may pass before the worker is done, and moves it to the *)
(* dead letters after MaxReceive receptions.  A worker deletes a message   *)
(* once the use case has answered without an error, and leaves it          *)
(* otherwise.                                                              *)
(***************************************************************************)
EXTENDS HttpApi

CONSTANTS
  Group,        \* Msgs -> message groups
  MaxReceive    \* maxReceiveCount of the redrive policy

ASSUME QueueAssumption == MaxReceive \in Nat \ {0}

VARIABLES
  sent,        \* the messages of providers, in order of arrival
  hidden,      \* those within the visibility timeout of a reception
  receptions,  \* Msgs -> receptions so far
  deleted,     \* messages a worker has deleted
  dead         \* messages in the dead-letter queue

queueVars == <<sent, hidden, receptions, deleted, dead>>
allVars   == <<apiAll, queueVars>>

SqsInit == /\ ApiInit
           /\ sent = << >> /\ hidden = {} /\ deleted = {} /\ dead = {}
           /\ receptions = [m \in Msgs |-> 0]

Sent    == {sent[i] : i \in DOMAIN sent}
InQueue == Sent \ (deleted \cup dead)

Before(m, n) == \E i, j \in DOMAIN sent : i < j /\ sent[i] = m /\ sent[j] = n

-----------------------------------------------------------------------------
(* The queue *)

\* A provider sends m.
Send(m) == /\ m \notin Sent
           /\ sent' = Append(sent, m)
           /\ UNCHANGED <<apiAll, hidden, receptions, deleted, dead>>

\* m is the next of its group.
First(m) == m \in InQueue /\ \A n \in InQueue : Group[n] = Group[m] => ~Before(n, m)

\* The visibility timeout of m passes, whether or not its worker is done.
Expire(m) == /\ m \in hidden
             /\ hidden' = hidden \ {m}
             /\ UNCHANGED <<apiAll, sent, receptions, deleted, dead>>

Redrive(m) == /\ First(m) /\ m \notin hidden /\ receptions[m] = MaxReceive
              /\ dead' = dead \cup {m}
              /\ UNCHANGED <<apiAll, sent, hidden, receptions, deleted>>

-----------------------------------------------------------------------------
(* The worker *)

\* ReceiveMessage and the call of the use case.  A body that is no envelope never gets
\* that far; like a wager that validation refuses, it is left to the redrive policy.
Receive(p, m) ==
  /\ First(m) /\ m \notin hidden /\ receptions[m] < MaxReceive
  /\ hidden' = hidden \cup {m}
  /\ receptions' = [receptions EXCEPT ![m] = @ + 1]
  /\ BeginWager(p, Body[m], m) \/ RefuseInput(p, Body[m], m)
  /\ UNCHANGED <<sent, deleted, dead, apiVars>>

\* Mutant: the worker deletes whatever the use case answers.
SucceededAnyway(p) == session[p].reply.code # "none"
Succeeded(p)       == session[p].reply.code = "ok"

\* deleteMessage; the deletion may fail, after which the message is like any other.
Finish(p) ==
  LET m == session[p].msg IN
  /\ m # NoMsg
  /\ Return(p)
  /\ UNCHANGED <<sent, receptions, dead, apiVars>>
  /\ \/ /\ Succeeded(p) /\ m \in InQueue
        /\ hidden' = hidden \ {m}
        /\ deleted' = deleted \cup {m}
     \/ UNCHANGED <<hidden, deleted>>

-----------------------------------------------------------------------------
(* Together with the other callers *)

Proceed(p) == \/ /\ session[p].pc # "replied" \/ session[p].msg = NoMsg
                 /\ Work(p)
                 /\ UNCHANGED queueVars
              \/ Finish(p)

SqsNext == \/ \E m \in Msgs : Send(m) \/ Expire(m) \/ Redrive(m)
           \/ \E p \in Procs :
                \/ \E m \in Msgs : Receive(p, m)
                \/ /\ \/ \E c \in Clients, r \in HttpRequests : Post(p, c, r)
                      \/ BeginOther(p)
                      \/ Fault(p) /\ UNCHANGED apiVars
                   /\ UNCHANGED queueVars
                \/ Proceed(p)

SqsSpec == SqsInit /\ [][SqsNext]_allVars

\* The queue serves its messages and the workers poll again and again; providers send each
\* request again until its answer is final; calls go on to their next statement, and since
\* Postgres queues the waiters of a lock, one that can again and again does; and faults
\* cease one day.
FairSqsSpec ==
  /\ SqsSpec
  /\ \A m \in Msgs : /\ WF_allVars(Expire(m)) /\ WF_allVars(Redrive(m))
                     /\ SF_allVars(\E p \in Procs : Receive(p, m))
  /\ \A r \in HttpRequests :
       SF_allVars(/\ ~Answered(r)
                  /\ \E p \in Procs, c \in Clients : Post(p, c, r)
                  /\ UNCHANGED queueVars)
  /\ \A p \in Procs : SF_allVars(Proceed(p))
  /\ <>[][\A p \in Procs : ~Fault(p)]_allVars
  /\ <>[][\A p \in Procs : session[p].pc = "commit" => session'[p].reply.code # "FAULT"]_allVars

-----------------------------------------------------------------------------
(* Properties *)

IsStored(m) == \E t \in Stored : PayloadHash(txs[t].req) = PayloadHash(Body[m])

QueueTypeOK ==
  /\ sent \in Seq(Msgs)
  /\ hidden \subseteq InQueue
  /\ receptions \in [Msgs -> 0 .. MaxReceive]
  /\ deleted \subseteq Sent /\ dead \subseteq Sent \ deleted

\* The worker deletes after the commit: a message is in one place, and one deleted has left
\* what it asks for in the database, whatever failed and however often it was delivered.
DeletedIsStored == QueueTypeOK /\ \A m \in deleted : IsStored(m)

\* Each refund and rollback of the queue is one message, and is not sent over HTTP too.
ByQueueAlone ==
  \A r \in {m \in Msgs : Body[m].kind \in {"REFUND", "ROLLBACK"}} :
    /\ \A n \in Msgs \ {r} : PayloadHash(Body[n]) # PayloadHash(Body[r])
    /\ \A h \in HttpRequests : PayloadHash(h) # PayloadHash(Body[r])

\* The queue keeps the order of a group and the workers do not break it: a refund sent
\* after its bet, and by the queue alone, waits for it in the database only if the bet's
\* message was given up.
RefundWaitsOnlyForDead ==
  \A r \in inbox, b \in Msgs :
    LET t == TxId(Body[r]) IN
    /\ txs[t].status = "PENDING_REFERENCE"
    /\ Body[b].ext = Body[r].ref /\ Group[b] = Group[r] /\ Before(b, r)
    => b \in dead

\* No message disappears: each one sent ends in the database, or in the dead letters.
EveryMessageIsSettled ==
  \A m \in Msgs : m \in Sent ~> m \in dead \/ (m \in deleted /\ IsStored(m))
=============================================================================
