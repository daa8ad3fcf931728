---------------------------- MODULE EventDelivery ----------------------------
(***************************************************************************)
(* What the outbox promises about an event, without workers, batches or    *)
(* transactions: it is delivered while it is undecided, perhaps several    *)
(* times, and is decided once, as PUBLISHED only after a delivery.         *)
(* OutboxPublisher implements it.                                          *)
(***************************************************************************)
EXTENDS Naturals

CONSTANT EventIds

VARIABLES
  status,    \* EventIds -> "ABSENT" or outbox_events.status
  received   \* EventIds -> how often the queue got it: 0, 1 or 2 for more than once

Once(n) == IF n = 0 THEN 1 ELSE 2

Init == /\ status = [e \in EventIds |-> "ABSENT"]
        /\ received = [e \in EventIds |-> 0]

Announce(e) == /\ status[e] = "ABSENT"
               /\ status' = [status EXCEPT ![e] = "PENDING"]
               /\ UNCHANGED received

Deliver(e) == /\ status[e] = "PENDING"
              /\ received' = [received EXCEPT ![e] = Once(@)]
              /\ UNCHANGED status

\* The events of a batch are decided together.
Conclude == /\ \A e \in EventIds :
                 \/ status'[e] = status[e]
                 \/ /\ status[e] = "PENDING"
                    /\ \/ status'[e] = "FAILED"
                       \/ status'[e] = "PUBLISHED" /\ received[e] > 0
            /\ status' = [e \in EventIds |-> status'[e]]
            /\ UNCHANGED received

Next == Conclude \/ \E e \in EventIds : Announce(e) \/ Deliver(e)

Spec == Init /\ [][Next]_<<status, received>>
=============================================================================
